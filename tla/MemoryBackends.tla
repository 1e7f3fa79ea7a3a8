--------------------------- MODULE MemoryBackends ---------------------------
(***************************************************************************)
(* One team's memory and the copies of it: vectors in Qdrant               *)
(* (memory/qdrant_backend.py), snapshots (memory/s3_sync.py) and           *)
(* incremental backups (archiver.py).  The files are written first and a   *)
(* copy's errors are swallowed, or raised after the copy's list was saved. *)
(*                                                                         *)
(* None of the operations awaits, so each is a step.  Pis and canaries go  *)
(* through the backend; the dreamer and the framework write past it.       *)
(***************************************************************************)
EXTENDS MemorySearch

CONSTANTS MaxWrites, MaxFaults  \* bounds of the model

ASSUME MemoryBackendsAssumption ==
  MaxWrites \in Nat /\ Facts = 1..MaxWrites /\ MaxFaults \in Nat

VARIABLES
  mem,      \* the team's directory
  vec,      \* the points of the team's collection, with the importance they carry
  ready,    \* the collection is in _initialized_collections of this process
  remote,   \* the last snapshot that was uploaded, and whether there is one
  hashes,   \* _last_hashes, as the contents they stand for
  backup,   \* what the incremental backups hold of each entry, newest first
  strayed,  \* history: keys whose vector was not kept in step, by whatever cause
  unsaved,  \* history: keys whose changed file could not be uploaded
  writes, faults

backendVars == <<mem, vec, ready, remote, hashes, backup, strayed, unsaved, writes, faults>>
copies == <<remote, hashes, backup, unsaved>>

BackendsInit ==
  /\ mem = EmptyStore
  /\ vec = Nothing /\ ready = FALSE
  /\ remote = [any |-> FALSE, entries |-> Nothing]
  /\ hashes = Nothing /\ backup = Nothing
  /\ strayed = {} /\ unsaved = {}
  /\ writes = 0 /\ faults = 0

Fact == writes + 1
NewFact == writes < MaxWrites /\ writes' = Fact
Fault == faults < MaxFaults /\ faults' = faults + 1

\* The points of the keys of K, with the importance the index gives them.
Embedded(s, K) == [k \in K |-> IF k \in DOMAIN s.index THEN s.index[k].imp ELSE 0]

\* _upsert_entry for every key of K, which names the collection ready ...
Upserted(s, K) ==
  /\ vec' = Updated(vec, Embedded(s, K))
  /\ ready' = TRUE
  /\ strayed' = strayed \ K
  /\ UNCHANGED faults

\* ... or fails for the keys of L, before or after the collection was found.
UpsertFails(s, K, L) ==
  /\ Fault
  /\ vec' = Updated(vec, Embedded(s, K \ L))
  /\ ready' \in {ready, TRUE} /\ (K # L => ready')
  /\ strayed' = (strayed \ K) \cup L

\* _delete_entry: skipped, without an error, in a process that has not used
\* the collection yet; its failure is swallowed.
Forgotten(k) ==
  \/ /\ vec' = IF ready THEN Without(vec, {k}) ELSE vec
     /\ strayed' = IF ready THEN strayed \ {k}
                   ELSE IF k \in DOMAIN vec THEN strayed \cup {k} ELSE strayed
     /\ UNCHANGED <<ready, faults>>
  \/ /\ ready /\ Fault
     /\ strayed' = strayed \cup {k}
     /\ UNCHANGED <<vec, ready>>

----------------------------------------------------------------------------
(* Writers. *)

\* QdrantBackend.write and append.
BackendWrite(k) ==
  /\ NewFact
  /\ mem' \in {Put(mem, Holding(k, {Fact})), Put(mem, Appended(mem, k, Fact))}
  /\ Upserted(mem', {k}) \/ UpsertFails(mem', {k}, {k})
  /\ UNCHANGED copies

\* QdrantBackend.delete and archive.
BackendDrop(k) ==
  /\ k \in DOMAIN mem.file
  /\ mem' \in {Delete(mem, k), Archive(mem, {k})}
  /\ Forgotten(k)
  /\ UNCHANGED <<copies, writes>>

\* The framework and the dreamer use the manager itself.
DirectWrite(k) ==
  /\ NewFact
  /\ mem' = Put(mem, Holding(k, {Fact}))
  /\ strayed' = IF k \in DOMAIN vec THEN strayed ELSE strayed \cup {k}
  /\ UNCHANGED <<vec, ready, faults, copies>>

DirectArchive(k) ==
  /\ k \in DOMAIN mem.file
  /\ mem' = Archive(mem, {k})
  /\ strayed' = IF k \in DOMAIN vec THEN strayed \cup {k} ELSE strayed
  /\ UNCHANGED <<vec, ready, faults, copies, writes>>

\* The dreamer scores an entry and writes its summary.
DirectScore(k) ==
  /\ k \in DOMAIN mem.index /\ mem.index[k].imp = 0
  /\ mem' = SetMeta(mem, k, mem.index[k].tier, 2)
  /\ UNCHANGED <<vec, ready, strayed, faults, copies, writes>>

\* reindex_team embeds what the index lists and removes nothing; an empty
\* index is left alone, but the collection is made.
Reindex ==
  /\ mem' = WithIndex(mem)
  /\ Upserted(mem', DOMAIN mem'.index)
  /\ UNCHANGED <<copies, writes>>

\* A Pi's prompt: the files of the snippets that have no summary are read.
Recall(task) ==
  /\ \E recall \in Retrievals(mem, vec, task, TRUE) : mem' = Accessed(mem, recall.read)
  /\ ready' = TRUE
  /\ UNCHANGED <<vec, strayed, faults, copies, writes>>

----------------------------------------------------------------------------
(* Snapshots and backups. *)

\* restore_snapshot: the entries are written, then every entry of the index is
\* embedded again; the first failure ends it.
RestoreEntries(entries) ==
  /\ mem' = WithIndex(Restored(mem, entries))
  /\ LET K == DOMAIN mem'.index
     IN  Upserted(mem', K) \/ \E L \in SUBSET K \ {{}} : UpsertFails(mem', K, L)

\* upload_snapshot, of sync_all_teams too: what export_snapshot reads is an access.
UploadSnapshot ==
  /\ remote' = [any |-> TRUE, entries |-> Exported(mem)]
  /\ mem' = Accessed(mem, DOMAIN mem.file)
  /\ UNCHANGED <<vec, ready, strayed, faults, hashes, backup, unsaved, writes>>

RestoreFromS3 ==
  /\ remote.any
  /\ RestoreEntries(remote.entries)
  /\ UNCHANGED <<copies, writes>>

Changed == {k \in DOMAIN mem.file : k \notin DOMAIN hashes \/ hashes[k] # mem.file[k]}

\* A bug: the backup is of what is new, not of what has changed.
BadBackedUp(K) == Updated(backup, [k \in K \ DOMAIN backup |-> mem.file[k]])
BackedUp(K) == Updated(backup, Only(mem.file, K))

\* backup_incremental: the hashes are saved when the changes are listed; the
\* first upload that fails ends it, and the rest counts as uploaded.
BackupIncremental ==
  /\ Changed # {} \/ DOMAIN hashes # DOMAIN mem.file
  /\ hashes' = mem.file
  /\ \/ /\ backup' = BackedUp(Changed)
        /\ unsaved' = unsaved \ Changed
        /\ UNCHANGED faults
     \/ \E L \in SUBSET Changed \ {{}} :
          /\ Fault
          /\ backup' = BackedUp(Changed \ L)
          /\ unsaved' = (unsaved \ Changed) \cup L
  /\ UNCHANGED <<mem, vec, ready, strayed, remote, writes>>

----------------------------------------------------------------------------
BackendsRestart == ready' = FALSE /\ UNCHANGED <<mem, vec, strayed, copies, writes>>

Tasks == {<<w>> : w \in Words} \cup {<<v, w, v>> : v \in Words, w \in Words}

\* The vectors, and everything that writes them or writes past them ...
VectorsNext ==
  \/ \E k \in Keys :
       \/ BackendWrite(k) \/ BackendDrop(k)
       \/ DirectWrite(k) \/ DirectArchive(k) \/ DirectScore(k)
  \/ Reindex \/ (\E task \in Tasks : Recall(task))
  \/ UploadSnapshot \/ RestoreFromS3
  \/ Fault /\ BackendsRestart

\* ... and the incremental backups, for which only the files matter: the
\* hashes are on disk too, and a restart changes nothing.
BackupNext ==
  \/ \E k \in Keys : DirectWrite(k) \/ DirectArchive(k)
  \/ BackupIncremental

----------------------------------------------------------------------------
(* Properties. *)

\* A semantic search shows the entries there are: a key is found exactly if the
\* index lists it, whatever was written, archived, restored and restarted,
\* but for the keys one of the named causes left behind: a call of Qdrant
\* that failed, a write past the backend, a removal by a process that had not
\* used the collection.
VectorsFollowIndex ==
  \A k \in Keys \ strayed : k \in DOMAIN vec <=> k \in DOMAIN WithIndex(mem).index

\* The characters of what was chosen.
Size(sel) ==
  LET sum[n \in 0..Len(sel)] == IF n = 0 THEN 0 ELSE sum[n - 1] + sel[n].size
  IN  sum[Len(sel)]

\* What a Pi is given of its memory fits the budget of its prompt, names no
\* entry twice, and no more than the limit.
RecallFits ==
  \A task \in Tasks, semantic \in BOOLEAN :
    \A recall \in Retrievals(mem, vec, task, semantic) :
      /\ Size(recall.sel) = recall.used /\ recall.used <= Budget /\ Len(recall.sel) <= Limit
      /\ \A i, j \in 1..Len(recall.sel) : recall.sel[i].key = recall.sel[j].key => i = j

\* What the incremental backup takes for saved is saved, as it was when it was
\* listed, unless its upload failed: then nothing uploads it until it changes.
BackupFollowsHashes ==
  \A k \in DOMAIN hashes \ unsaved : k \in DOMAIN backup /\ backup[k] = hashes[k]

\* The copies of a team's memory, vectors and backups, hold what the lists of
\* them say they hold.
CopiesFollow == VectorsFollowIndex /\ BackupFollowsHashes
=============================================================================
