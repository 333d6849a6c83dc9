------------------------------ MODULE Knowledge ------------------------------
(***************************************************************************)
(* The knowledge sync: every five minutes a document of the network's      *)
(* state is read from the database and takes the place of the one in a     *)
(* collection of Open WebUI.  The scheduler runs one sync at a time.  Each *)
(* request may succeed, fail, or take effect though the answer is lost.    *)
(* The texts are left out: what is read is the version of the database at  *)
(* the time, once per part of the document.                                *)
(***************************************************************************)
EXTENDS Naturals, Sequences, FiniteSets

CONSTANTS
  MaxCommits,    \* bound: commits to the database while a sync reads it
  MaxFiles,      \* bound: uploads
  MaxSyncFaults  \* bound: requests that fail and restarts

KnowledgeAssumption ==
  MaxCommits \in Nat /\ MaxFiles \in Nat /\ MaxSyncFaults \in Nat

(* The parts of the document, in the order they are read; several have     *)
(* more than one session.                                                  *)
Sections == <<"devices", "rules", "alerts", "findings", "trends", "topology">>
NumSections == Len(Sections)

VARIABLES
  db,        \* the database: how many commits it has seen
  content,   \* per uploaded file: its text, << >> when it has none
  attached,  \* per collection: the files in it
  kid,       \* _knowledge_id: the collection in use, 0 when not known
  pc,        \* where the sync is
  doc,       \* the document read so far
  toRemove,  \* the files it has still to remove
  newFile,   \* the file it has uploaded
  syncFaults,
  started,   \* history: db when the sync began
  kept,      \* history: files not removed because something failed
  complete   \* history: the last sync ended with its success message

knowledgeVars == <<db, content, attached, kid, pc, doc, toRemove, newFile, syncFaults,
                   started, kept, complete>>

server == <<content, attached>>
sync   == <<kid, doc, toRemove, newFile>>

Files == DOMAIN content
Texts == UNION {[1..n -> 0..MaxCommits] : n \in 0..NumSections}

KnowledgeTypeOK ==
  /\ db \in 0..MaxCommits
  /\ content \in Seq(Texts) /\ attached \in Seq(SUBSET Files)
  /\ kid \in 0..Len(attached)
  /\ pc \in {"idle", "find", "create", "read", "list", "remove", "upload", "fill",
             "attach", "discard"}
  /\ doc \in Texts /\ toRemove \subseteq Files /\ newFile \in {0} \cup Files
  /\ syncFaults \in 0..MaxSyncFaults
  /\ started \in 0..db /\ kept \subseteq Files /\ complete \in BOOLEAN

KnowledgeInit ==
  /\ db = 0 /\ content = << >> /\ attached = << >> /\ kid = 0 /\ pc = "idle"
  /\ doc = << >> /\ toRemove = {} /\ newFile = 0 /\ syncFaults = 0
  /\ started = 0 /\ kept = {} /\ complete = FALSE

SyncFault == syncFaults < MaxSyncFaults /\ syncFaults' = syncFaults + 1

(* Some other part of the program commits.                                 *)
Commit ==
  /\ db < MaxCommits /\ db' = db + 1
  /\ UNCHANGED <<content, attached, kid, pc, doc, toRemove, newFile, syncFaults, started,
                 kept, complete>>

(* sync_knowledge begins; the document is a new one every time.            *)
(* Mutant: the document is kept like the collection's id.                  *)
BeginKeeping ==
  /\ pc = "idle" /\ Len(content) < MaxFiles
  /\ pc' = IF kid # 0 THEN "read" ELSE "find"
  /\ started' = db /\ complete' = FALSE
  /\ UNCHANGED <<db, server, sync, syncFaults, kept>>
Begin ==
  /\ pc = "idle" /\ Len(content) < MaxFiles
  /\ pc' = IF kid # 0 THEN "read" ELSE "find"
  /\ doc' = << >> /\ toRemove' = {} /\ newFile' = 0
  /\ started' = db /\ complete' = FALSE
  /\ UNCHANGED <<db, server, kid, syncFaults, kept>>

-----------------------------------------------------------------------------
(* _find_or_create_knowledge: the first collection listed under the name   *)
(* is taken, and kept until the process ends.  When the list fails, or     *)
(* shows none, one is created.                                             *)
FindListed ==
  /\ pc = "find"
  /\ IF attached = << >> THEN kid' = 0 /\ pc' = "create"
     ELSE kid' \in DOMAIN attached /\ pc' = "read"
  /\ UNCHANGED <<db, server, doc, toRemove, newFile, syncFaults, started, kept, complete>>

FindFails ==
  /\ pc = "find" /\ SyncFault
  /\ pc' = "create"
  /\ UNCHANGED <<db, server, sync, started, kept, complete>>

Create ==
  /\ pc = "create"
  /\ attached' = Append(attached, {}) /\ kid' = Len(attached')
  /\ pc' = "read"
  /\ UNCHANGED <<db, content, doc, toRemove, newFile, syncFaults, started, kept, complete>>

CreateFails ==
  /\ pc = "create" /\ SyncFault
  /\ attached' \in {attached, Append(attached, {})}
  /\ pc' = "idle"
  /\ UNCHANGED <<db, content, sync, started, kept, complete>>

-----------------------------------------------------------------------------
(* build_network_document: devices; rules and their versions; alerts;      *)
(* findings and their archive; rollups and device metrics; configuration   *)
(* and notes.  Between two parts, others commit.                           *)
Reads(part) ==
  /\ pc = "read" /\ Len(doc) < NumSections /\ Sections[Len(doc) + 1] = part
  /\ doc' = Append(doc, db)
  /\ UNCHANGED <<db, server, kid, pc, toRemove, newFile, syncFaults, started, kept, complete>>

ReadDevices  == Reads("devices")
ReadRules    == Reads("rules")
ReadAlerts   == Reads("alerts")
ReadFindings == Reads("findings")
ReadTrends   == Reads("trends")
ReadTopology == Reads("topology")

(* A section that cannot be read ends the sync: nothing is touched.        *)
ReadFails ==
  /\ pc = "read" /\ SyncFault
  /\ pc' = "idle"
  /\ UNCHANGED <<db, server, sync, started, kept, complete>>

Built ==
  /\ pc = "read" /\ Len(doc) = NumSections
  /\ pc' = "list"
  /\ UNCHANGED <<db, server, sync, syncFaults, started, kept, complete>>

(* The files found in the collection are removed before the new one is     *)
(* uploaded; what cannot be listed or removed stays.                       *)
ListFiles ==
  /\ pc = "list"
  /\ toRemove' = attached[kid] /\ pc' = "remove"
  /\ UNCHANGED <<db, server, kid, doc, newFile, syncFaults, started, kept, complete>>

ListFilesFails ==
  /\ pc = "list" /\ SyncFault
  /\ pc' = "upload" /\ kept' = kept \cup attached[kid]
  /\ UNCHANGED <<db, server, sync, started, complete>>

Remove(f) ==
  /\ pc = "remove" /\ f \in toRemove
  /\ toRemove' = toRemove \ {f}
  /\ attached' = [attached EXCEPT ![kid] = @ \ {f}]
  /\ UNCHANGED <<db, content, kid, pc, doc, newFile, syncFaults, started, kept, complete>>

(* Mutant: the first failure ends the removing.                            *)
RemoveFailsStopping(f) ==
  /\ pc = "remove" /\ f \in toRemove /\ SyncFault
  /\ toRemove' = {} /\ kept' = kept \cup {f}
  /\ UNCHANGED <<db, server, kid, pc, doc, newFile, started, complete>>
RemoveFails(f) ==
  /\ pc = "remove" /\ f \in toRemove /\ SyncFault
  /\ toRemove' = toRemove \ {f} /\ kept' = kept \cup {f}
  /\ attached' \in {attached, [attached EXCEPT ![kid] = @ \ {f}]}
  /\ UNCHANGED <<db, content, kid, pc, doc, newFile, started, complete>>

Removed ==
  /\ pc = "remove" /\ toRemove = {}
  /\ pc' = "upload"
  /\ UNCHANGED <<db, server, sync, syncFaults, started, kept, complete>>

-----------------------------------------------------------------------------
(* The upload, the text of the file, and its place in the collection.      *)
Upload ==
  /\ pc = "upload"
  /\ content' = Append(content, << >>) /\ newFile' = Len(content')
  /\ pc' = "fill"
  /\ UNCHANGED <<db, attached, kid, doc, toRemove, syncFaults, started, kept, complete>>

UploadFails ==
  /\ pc = "upload" /\ SyncFault
  /\ content' \in {content, Append(content, << >>)}
  /\ pc' = "idle"
  /\ UNCHANGED <<db, attached, sync, started, kept, complete>>

Fill ==
  /\ pc = "fill"
  /\ content' = [content EXCEPT ![newFile] = doc] /\ pc' = "attach"
  /\ UNCHANGED <<db, attached, sync, syncFaults, started, kept, complete>>

(* A refused text is passed over, a request that raises ends the sync.     *)
FillFails ==
  /\ pc = "fill" /\ SyncFault
  /\ pc' \in {"attach", "idle"}
  /\ UNCHANGED <<db, server, sync, started, kept, complete>>

Attach ==
  /\ pc = "attach"
  /\ attached' = [attached EXCEPT ![kid] = @ \cup {newFile}]
  /\ pc' = "idle" /\ complete' = TRUE
  /\ UNCHANGED <<db, content, sync, syncFaults, started, kept>>

(* A refusal is answered by deleting the file; a lost answer is not.       *)
AttachRefused ==
  /\ pc = "attach" /\ SyncFault
  /\ pc' = "discard"
  /\ UNCHANGED <<db, server, sync, started, kept, complete>>

AttachLost ==
  /\ pc = "attach" /\ SyncFault
  /\ attached' \in {attached, [attached EXCEPT ![kid] = @ \cup {newFile}]}
  /\ pc' = "idle"
  /\ UNCHANGED <<db, content, sync, started, kept, complete>>

(* The file is deleted, at best: no document shows whether it was.         *)
Discard ==
  /\ pc = "discard"
  /\ pc' = "idle"
  /\ UNCHANGED <<db, server, sync, syncFaults, started, kept, complete>>

(* The process stops; close() and a new process forget the collection.     *)
SyncRestart ==
  /\ SyncFault
  /\ kid' = 0 /\ pc' = "idle" /\ doc' = << >> /\ toRemove' = {} /\ newFile' = 0
  /\ complete' = FALSE
  /\ UNCHANGED <<db, server, started, kept>>

KnowledgeNext ==
  \/ Commit \/ Begin
  \/ FindListed \/ FindFails \/ Create \/ CreateFails
  \/ ReadDevices \/ ReadRules \/ ReadAlerts \/ ReadFindings \/ ReadTrends \/ ReadTopology
  \/ ReadFails \/ Built \/ ListFiles \/ ListFilesFails
  \/ \E f \in toRemove : Remove(f) \/ RemoveFails(f)
  \/ Removed \/ Upload \/ UploadFails \/ Fill \/ FillFails
  \/ Attach \/ AttachRefused \/ AttachLost \/ Discard \/ SyncRestart

KnowledgeSpec == KnowledgeInit /\ [][KnowledgeNext]_knowledgeVars

-----------------------------------------------------------------------------
(* knowledge_sync.py:677-696.  Whatever fails and whenever the process     *)
(* stops, a collection holds besides its newest document only such as a    *)
(* request that failed was to list or remove.                              *)
OldDocumentsHaveAReason ==
  \A c \in DOMAIN attached : \A f, g \in attached[c] \ kept : f = g

(* knowledge_sync.py:670-772.  After a sync that reports success, the      *)
(* collection in use holds a document, and unless its text was refused,    *)
(* every section of it is from the time since the sync began, none older   *)
(* than one before it.                                                     *)
SyncedIsFresh ==
  complete =>
    /\ newFile \in attached[kid]
    /\ LET text == content[newFile] IN
       text # << >> =>
         /\ Len(text) = NumSections
         /\ \A i \in DOMAIN text : text[i] >= started
         /\ \A i, j \in DOMAIN text : i < j => text[i] <= text[j]
=============================================================================
