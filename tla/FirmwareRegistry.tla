-------------------------- MODULE FirmwareRegistry --------------------------
(***************************************************************************)
(* The Matter firmware images of the hub: table firmware                   *)
(* (internal/db/firmware.go), the files firmware/<version>.bin, and those  *)
(* who change both: uploads, deletions and set-latest requests             *)
(* (internal/api/firmware.go), the watcher of firmware/incoming            *)
(* (internal/fwwatch/watcher.go), and the OTA downloads that read them     *)
(* (internal/ota/handler.go).                                              *)
(*                                                                         *)
(* A file is an inode: a rename moves it, a removal leaves it to those who *)
(* have it open, an upload to an existing name truncates it in place.  An  *)
(* inode is named after the upload or drop that created it, and its        *)
(* content after the one whose image it holds.                             *)
(***************************************************************************)
EXTENDS Naturals

CONSTANTS
    Versions,    \* version strings
    Uploads,     \* POST /api/firmware requests
    Drops,       \* files copied into incoming/, by a build or by hand
    Downloads,   \* GET /ota/download requests of authenticated devices
    VersionOf,   \* upload or drop -> the version it is for
    NoFile,      \* no inode
    Torn,        \* the content of an inode that is no complete image
    MaxRequests, \* bound: deletions and set-latest requests, together
    MaxRestarts  \* bound: restarts of the hub

Writers == Uploads \cup Drops

ASSUME RegistryAssumption ==
    /\ VersionOf \in [Writers -> Versions]
    /\ {NoFile, Torn} \cap Writers = {}
    /\ Uploads \cap Drops = {}
    /\ MaxRequests \in Nat /\ MaxRestarts \in Nat

VARIABLES
    rows,      \* versions in table firmware
    latest,    \* rows with is_latest = 1
    file,      \* version -> inode of <version>.bin
    content,   \* inode -> the writer whose image it holds, or Torn
    incoming,  \* drops in firmware/incoming
    drop,      \* drop -> "new", "empty", "copying", "whole": how far its writer is
    taken,     \* the drop the watcher has moved and is registering, or NoFile
    wpc,       \* the watcher: "poll", "insert", "mark"
    upc,       \* upload -> "new", "copy", "insert", "ok", "failed"
    target,    \* upload -> the inode it writes to
    deleting,  \* version -> deletions that have removed the row, not the file yet
    dpc,       \* download -> "new", "open", "copy", "ok", "error", "missing"
    opened,    \* download -> version it was told, then inode it has open
    sent,      \* download -> what it read first; at the end what it sent
    requests, restarts,
    \* history, for the properties only
    rewritten, \* versions whose file was opened for writing while it existed
    deleted,   \* versions some deletion was for
    hasty,     \* drops moved before their writer had finished
    orphaned   \* drops whose registration a restart cut off before the row

table   == <<rows, latest>>
disk    == <<file, content, incoming, drop>>
watcher == <<taken, wpc>>
uploads == <<upc, target>>
ota     == <<dpc, opened, sent>>
bounds  == <<requests, restarts>>
history == <<rewritten, deleted, hasty, orphaned>>
vars    == <<table, disk, watcher, uploads, deleting, ota, bounds, history>>

TypeOK ==
    /\ rows \subseteq Versions
    /\ latest \subseteq rows /\ \A v, w \in latest : v = w
    /\ file \in [Versions -> Writers \cup {NoFile}]
    /\ content \in [Writers -> Writers \cup {Torn}]
    /\ incoming \subseteq Drops
    /\ drop \in [Drops -> {"new", "empty", "copying", "whole"}]
    /\ taken \in Drops \cup {NoFile}
    /\ wpc \in {"poll", "insert", "mark"}
    /\ upc \in [Uploads -> {"new", "copy", "insert", "ok", "failed"}]
    /\ target \in [Uploads -> Writers \cup {NoFile}]
    /\ deleting \in [Versions -> Nat]
    /\ dpc \in [Downloads -> {"new", "open", "copy", "ok", "error", "missing",
                            "lost"}]
    /\ opened \in [Downloads -> Versions \cup Writers \cup {NoFile}]
    /\ sent \in [Downloads -> Writers \cup {Torn}]
    /\ requests \in 0..MaxRequests /\ restarts \in 0..MaxRestarts
    /\ {rewritten, deleted} \subseteq SUBSET Versions
    /\ {hasty, orphaned} \subseteq SUBSET Drops

Init ==
    /\ rows = {} /\ latest = {}
    /\ file = [v \in Versions |-> NoFile]
    /\ content = [w \in Writers |-> Torn]
    /\ incoming = {} /\ drop = [w \in Drops |-> "new"]
    /\ taken = NoFile /\ wpc = "poll"
    /\ upc = [u \in Uploads |-> "new"] /\ target = [u \in Uploads |-> NoFile]
    /\ deleting = [v \in Versions |-> 0]
    /\ dpc = [d \in Downloads |-> "new"]
    /\ opened = [d \in Downloads |-> NoFile] /\ sent = [d \in Downloads |-> Torn]
    /\ requests = 0 /\ restarts = 0
    /\ rewritten = {} /\ deleted = {} /\ hasty = {} /\ orphaned = {}

-----------------------------------------------------------------------------
(* Variants with a bug; no specification uses them.                        *)

\* The row is inserted as soon as the file exists.
CreateFile_Registers(u) ==
    /\ upc[u] = "new"
    /\ upc' = [upc EXCEPT ![u] = "copy"]
    /\ LET v == VersionOf[u]
           i == IF file[v] = NoFile THEN u ELSE file[v]
       IN /\ file' = [file EXCEPT ![v] = i]
          /\ target' = [target EXCEPT ![u] = i]
          /\ content' = [content EXCEPT ![i] = Torn]
          /\ rewritten' = IF i = u THEN rewritten ELSE rewritten \cup {v}
          /\ rows' = rows \cup {v}
    /\ UNCHANGED <<latest, incoming, drop, watcher, deleting, ota, bounds, deleted, hasty,
                   orphaned>>

\* An upload that fails removes the file it may not have created.
CopyImage_CleansUp(u) ==
    /\ upc[u] = "copy"
    /\ \/ /\ upc' = [upc EXCEPT ![u] = "insert"]
          /\ content' = [content EXCEPT ![target[u]] = u]
          /\ UNCHANGED file
       \/ /\ upc' = [upc EXCEPT ![u] = "failed"]
          /\ file' = [file EXCEPT ![VersionOf[u]] = NoFile]
          /\ UNCHANGED content
    /\ UNCHANGED <<table, incoming, drop, watcher, target, deleting, ota, bounds, history>>

\* A drop whose version has a file already is discarded.
TakeDrop_SkipsExisting(w) ==
    /\ wpc = "poll" /\ w \in incoming /\ drop[w] # "empty"
    /\ incoming' = incoming \ {w}
    /\ IF file[VersionOf[w]] = NoFile
       THEN /\ file' = [file EXCEPT ![VersionOf[w]] = w]
            /\ taken' = w /\ wpc' = "insert"
       ELSE UNCHANGED <<file, watcher>>
    /\ UNCHANGED <<table, content, drop, uploads, deleting, ota, bounds, history>>

\* The other rows keep their mark.
Mark_Adds(v) == latest' = latest \cup ({v} \cap rows)

-----------------------------------------------------------------------------
(* uploadFirmware: create or truncate the file, copy, insert the row.      *)

CreateFile(u) ==
    /\ upc[u] = "new"
    /\ upc' = [upc EXCEPT ![u] = "copy"]
    /\ LET v == VersionOf[u]
           i == IF file[v] = NoFile THEN u ELSE file[v]
       IN /\ file' = [file EXCEPT ![v] = i]
          /\ target' = [target EXCEPT ![u] = i]
          /\ content' = [content EXCEPT ![i] = Torn]
          /\ rewritten' = IF i = u THEN rewritten ELSE rewritten \cup {v}
    /\ UNCHANGED <<table, incoming, drop, watcher, deleting, ota, bounds, deleted, hasty,
                   orphaned>>

\* Another writer of the same inode may leave a mixture behind.
Alone(u) ==
    /\ \A x \in Uploads \ {u} : target[x] # target[u]
    /\ target[u] \in Drops => drop[target[u]] = "whole"

\* The copy ends well, or breaks off and leaves what there is.
CopyImage(u) ==
    /\ upc[u] = "copy"
    /\ \/ /\ upc' = [upc EXCEPT ![u] = "insert"]
          /\ \E c \in (IF Alone(u) THEN {u} ELSE {u, Torn}) :
                content' = [content EXCEPT ![target[u]] = c]
       \/ upc' = [upc EXCEPT ![u] = "failed"] /\ UNCHANGED content
    /\ UNCHANGED <<table, file, incoming, drop, watcher, target, deleting, ota, bounds,
                   history>>

InsertUploaded(u) ==
    /\ upc[u] = "insert"
    /\ upc' = [upc EXCEPT ![u] = "ok"]
    /\ rows' = rows \cup {VersionOf[u]}
    /\ UNCHANGED <<latest, disk, watcher, target, deleting, ota, bounds, history>>

-----------------------------------------------------------------------------
(* The watcher and those who drop files for it.                            *)

Drop(w) ==
    /\ drop[w] = "new"
    /\ drop' = [drop EXCEPT ![w] = "empty"]
    /\ incoming' = incoming \cup {w}
    /\ UNCHANGED <<table, file, content, watcher, uploads, deleting, ota, bounds, history>>

\* The first bytes of the copy.
FillDrop(w) ==
    /\ drop[w] = "empty"
    /\ drop' = [drop EXCEPT ![w] = "copying"]
    /\ UNCHANGED <<table, file, content, incoming, watcher, uploads, deleting, ota, bounds,
                   history>>

\* The writer follows its inode, wherever it was moved.
FinishDrop(w) ==
    /\ drop[w] = "copying"
    /\ drop' = [drop EXCEPT ![w] = "whole"]
    /\ \E c \in (IF \E u \in Uploads : target[u] = w THEN {w, Torn} ELSE {w}) :
          content' = [content EXCEPT ![w] = c]
    /\ UNCHANGED <<table, file, incoming, watcher, uploads, deleting, ota, bounds, history>>

\* process: a size above zero that stood still for a second, then the rename.  A
\* copy that stalls for that second looks finished; one that grows on need never
\* be taken.
TakeDrop(w) ==
    /\ wpc = "poll" /\ w \in incoming /\ drop[w] # "empty"
    /\ incoming' = incoming \ {w}
    /\ file' = [file EXCEPT ![VersionOf[w]] = w]
    /\ taken' = w /\ wpc' = "insert"
    /\ hasty' = IF drop[w] = "copying" THEN hasty \cup {w} ELSE hasty
    /\ UNCHANGED <<table, content, drop, uploads, deleting, ota, bounds, rewritten,
                   deleted, orphaned>>

\* INSERT OR IGNORE: a version known already is no error.
InsertTaken ==
    /\ wpc = "insert"
    /\ rows' = rows \cup {VersionOf[taken]}
    /\ wpc' = "mark"
    /\ UNCHANGED <<latest, disk, taken, uploads, deleting, ota, bounds, history>>

\* SetLatestFirmware: one transaction clears every row and sets the version's.
Mark(v) == latest' = {v} \cap rows

MarkTaken ==
    /\ wpc = "mark"
    /\ Mark(VersionOf[taken])
    /\ wpc' = "poll" /\ taken' = NoFile
    /\ UNCHANGED <<rows, disk, uploads, deleting, ota, bounds, history>>

-----------------------------------------------------------------------------
(* Requests of the web UI.                                                 *)

Count == requests < MaxRequests /\ requests' = requests + 1

SetLatest(v) ==
    /\ Count
    /\ Mark(v)
    /\ UNCHANGED <<rows, disk, watcher, uploads, deleting, ota, restarts, history>>

DeleteRow(v) ==
    /\ Count
    /\ rows' = rows \ {v} /\ latest' = latest \ {v}
    /\ deleting' = [deleting EXCEPT ![v] = @ + 1]
    /\ deleted' = deleted \cup {v}
    /\ UNCHANGED <<disk, watcher, uploads, ota, restarts, rewritten, hasty, orphaned>>

RemoveFile(v) ==
    /\ deleting[v] > 0
    /\ deleting' = [deleting EXCEPT ![v] = @ - 1]
    /\ file' = [file EXCEPT ![v] = NoFile]
    /\ UNCHANGED <<table, content, incoming, drop, watcher, uploads, ota, bounds, history>>

-----------------------------------------------------------------------------
(* handleDownload: ask for the latest version, open its file, send it.     *)

AskLatest(d) ==
    /\ dpc[d] = "new"
    /\ IF latest = {}
       THEN dpc' = [dpc EXCEPT ![d] = "missing"] /\ UNCHANGED opened
       ELSE /\ dpc' = [dpc EXCEPT ![d] = "open"]
            /\ \E v \in latest : opened' = [opened EXCEPT ![d] = v]
    /\ UNCHANGED <<table, disk, watcher, uploads, deleting, sent, bounds, history>>

OpenFile(d) ==
    /\ dpc[d] = "open"
    /\ LET i == file[opened[d]]
       IN IF i = NoFile
          THEN dpc' = [dpc EXCEPT ![d] = "missing"] /\ UNCHANGED <<opened, sent>>
          ELSE /\ dpc' = [dpc EXCEPT ![d] = "copy"]
               /\ opened' = [opened EXCEPT ![d] = i]
               /\ sent' = [sent EXCEPT ![d] = content[i]]
    /\ UNCHANGED <<table, disk, watcher, uploads, deleting, bounds, history>>

\* The response has no length: whatever the file held is a complete answer.  A
\* file that changed meanwhile may have been read before, after or in between.
SendFile(d) ==
    /\ dpc[d] = "copy"
    /\ \E result \in {"ok", "error"} : dpc' = [dpc EXCEPT ![d] = result]
    /\ LET now == content[opened[d]]
       IN \E c \in (IF now = sent[d] THEN {now} ELSE {now, sent[d], Torn}) :
             sent' = [sent EXCEPT ![d] = c]
    /\ UNCHANGED <<table, disk, watcher, uploads, deleting, opened, bounds, history>>

\* The hub dies: requests and the watcher's registration under way are lost.
HubRestart ==
    /\ restarts < MaxRestarts
    /\ restarts' = restarts + 1
    /\ wpc' = "poll" /\ taken' = NoFile
    /\ upc' = [u \in Uploads |-> IF upc[u] \in {"copy", "insert"} THEN "failed" ELSE upc[u]]
    /\ deleting' = [v \in Versions |-> 0]
    /\ dpc' = [d \in Downloads |-> IF dpc[d] \in {"open", "copy"} THEN "lost" ELSE dpc[d]]
    /\ orphaned' = IF wpc = "insert" THEN orphaned \cup {taken} ELSE orphaned
    /\ UNCHANGED <<table, disk, target, opened, sent, requests, rewritten, deleted, hasty>>

Upload(u) == CreateFile(u) \/ CopyImage(u) \/ InsertUploaded(u)

Watcher == (\E w \in Drops : TakeDrop(w)) \/ InsertTaken \/ MarkTaken

Download(d) == AskLatest(d) \/ OpenFile(d) \/ SendFile(d)

Next ==
    \/ \E u \in Uploads : Upload(u)
    \/ \E w \in Drops : Drop(w) \/ FillDrop(w) \/ FinishDrop(w)
    \/ Watcher
    \/ \E v \in Versions : SetLatest(v) \/ DeleteRow(v) \/ RemoveFile(v)
    \/ \E d \in Downloads : Download(d)
    \/ HubRestart

Spec == Init /\ [][Next]_vars

\* The watcher's goroutine polls for ever, passes over the whole directory each
\* time and ends a registration it has begun.  It is bound to take only a file
\* whose writer has finished: sizeStable may refuse any other for ever.
FairSpec ==
    /\ Spec
    /\ WF_vars(InsertTaken \/ MarkTaken)
    /\ \A w \in Drops : WF_vars(drop[w] = "whole" /\ TakeDrop(w))

-----------------------------------------------------------------------------
(* Properties.                                                             *)

\* A version the registry lists has its file, unless it was deleted before:
\* a deletion removes the row first and may remove the file of its successor.
ListedHasFile == \A v \in rows \ deleted : file[v] # NoFile

\* A download that is logged as "ok" sent one complete image, unless its version
\* was uploaded again in place, was taken from incoming/ half copied, or was
\* deleted once: a row must not make a file visible before it is complete.
ServedWhole ==
    \A d \in Downloads :
        dpc[d] = "ok" /\ sent[d] = Torn =>
            \/ VersionOf[opened[d]] \in rewritten \cup deleted
            \/ opened[d] \in hasty

\* A file that lies complete in incoming/, or was taken from there before, gets
\* its row, whatever uploads, deletions and restarts come between, unless the
\* hub died just between the rename and the insert.
DropIsRegistered ==
    \A w \in Drops :
        ((w \in incoming /\ drop[w] = "whole") \/ (wpc = "insert" /\ taken = w))
            ~> (VersionOf[w] \in rows \/ w \in orphaned)
=============================================================================
