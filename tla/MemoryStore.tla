---------------------------- MODULE MemoryStore ----------------------------
(***************************************************************************)
(* One team's directory under .companest/teams: the entries (one JSON file *)
(* per key), their index (.index.json), and the archive with an index of   *)
(* its own (memory/manager.py).  A store is a record and an operation an   *)
(* operator from store to store, so that a caller that performs several    *)
(* operations without an await (the dreamer, a restored snapshot) is one   *)
(* step of the system.                                                     *)
(*                                                                         *)
(* The content of an entry is the set of facts written to it: a write puts *)
(* one fact, an append adds one, a consolidated entry holds those of the   *)
(* entries it merges.  Of an index entry only what decides its fate is     *)
(* kept: its tier, its importance (0 unscored, 1 below                     *)
(* min_importance_to_keep, 2 above), its count of accesses up to           *)
(* max_access_for_gc, and whether updated_at is older than the dreamer's   *)
(* cutoff.                                                                 *)
(***************************************************************************)
EXTENDS Naturals, FiniteSets

CONSTANTS Keys,          \* the keys of the team's memory
          Facts,         \* what callers may write
          MaxAccess      \* max_access_for_gc: the accesses that save an entry

ASSUME MaxAccessAssumption == MaxAccess \in Nat \ {0}

\* A store has file and aged: the entries' files, those last modified before the
\* cutoff; indexed: .index.json exists; index; arch, archIndex: the archive and
\* its index.
Nothing == << >>
EmptyStore == [file |-> Nothing, aged |-> {}, indexed |-> FALSE, index |-> Nothing,
               arch |-> Nothing, archIndex |-> Nothing]

Without(f, K) == [k \in DOMAIN f \ K |-> f[k]]
Only(f, K) == [k \in DOMAIN f \cap K |-> f[k]]
\* A dictionary of one key, and one updated with another one.
Holding(k, v) == [x \in {k} |-> v]
Updated(f, new) == [k \in DOMAIN new \cup DOMAIN f |-> IF k \in DOMAIN new THEN new[k] ELSE f[k]]

NewMeta(o) == [tier |-> "short", imp |-> 0, acc |-> 0, old |-> o]

\* A bug: a missing index counts as an empty one.
BadWithIndex(s) == IF s.indexed THEN s ELSE [s EXCEPT !.indexed = TRUE]

\* _read_index: a missing index is rebuilt from the files and written.
WithIndex(s) ==
  IF s.indexed THEN s
  ELSE [s EXCEPT !.indexed = TRUE,
                 !.index = [k \in DOMAIN s.file |-> NewMeta(k \in s.aged)]]

\* The entry's file is replaced (os.replace), whatever becomes of the index.
PutFile(s, new) ==
  [s EXCEPT !.file = Updated(s.file, new), !.aged = @ \ DOMAIN new]

\* write_team_memory for every entry of new: the file, then the index; the
\* metadata of a known key is kept but for the time of its last write.
Put(s, new) ==
  LET t == WithIndex(PutFile(s, new))
      touched == [k \in DOMAIN new |->
                    IF k \in DOMAIN t.index THEN [t.index[k] EXCEPT !.old = FALSE]
                                            ELSE NewMeta(FALSE)]
  IN  [t EXCEPT !.index = Updated(t.index, touched)]

\* append_team_memory: what the key should hold with one more fact.
Appended(s, k, f) ==
  Holding(k, {f} \cup IF k \in DOMAIN s.file THEN s.file[k] ELSE {})

\* read_team_memory of every key of K: an access of those that are indexed,
\* and the contents of those that exist.
Accessed(s, K) ==
  LET t == WithIndex(s)
  IN  [t EXCEPT !.index = [k \in DOMAIN t.index |->
         IF k \in K /\ t.index[k].acc < MaxAccess
         THEN [t.index[k] EXCEPT !.acc = @ + 1] ELSE t.index[k]]]

Contents(s, K) == Only(s.file, K)

\* delete_team_memory: the file, then its index entry.
Delete(s, k) ==
  LET t == WithIndex([s EXCEPT !.file = Without(s.file, {k}), !.aged = @ \ {k}])
  IN  [t EXCEPT !.index = Without(t.index, {k})]

\* archive_team_memory of every key of K, up to each of its three writes:
\* the metadata goes to the archive's index, the file is moved, the key leaves
\* the index.
ArchiveMeta(s, K) ==
  LET t == WithIndex(s) IN [t EXCEPT !.archIndex = Updated(t.archIndex, Only(t.index, K))]
\* A bug: the file is removed where it should be moved.
BadArchiveFile(s, K) == [s EXCEPT !.file = Without(s.file, K), !.aged = @ \ K]
ArchiveFile(s, K) ==
  [s EXCEPT !.arch = Updated(s.arch, Only(s.file, K)), !.file = Without(s.file, K), !.aged = @ \ K]
Archive(s, K) ==
  LET t == ArchiveFile(ArchiveMeta(s, K), K) IN [t EXCEPT !.index = Without(t.index, K)]

\* update_entry_meta: refused for a key that is not in the index.
SetMeta(s, k, tier, imp) ==
  LET t == WithIndex(s)
  IN  [t EXCEPT !.index = [t.index EXCEPT ![k].tier = tier, ![k].imp = imp]]

\* The dreamer writes back the index it copied (_restore_index).
PutIndex(s, index) == [s EXCEPT !.indexed = TRUE, !.index = index]

\* FileBackend.export_snapshot; restore_snapshot writes the entries it holds,
\* and leaves those that came later, and all metadata, as they are.
Exported(s) == s.file
Restored(s, entries) == IF entries = Nothing THEN s ELSE Put(s, entries)

----------------------------------------------------------------------------
\* What the system prompt shows of a team's memory: the names of its entries
\* and the summaries of its long-tier ones (build_system_prompt).
View(s) == [names |-> DOMAIN s.file,
            long |-> {k \in DOMAIN WithIndex(s).index : WithIndex(s).index[k].tier = "long"}]
============================================================================
