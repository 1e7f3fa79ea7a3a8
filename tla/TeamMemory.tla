---------------------------- MODULE TeamMemory -----------------------------
(***************************************************************************)
(* The memory of one team at work: Pis write, append and read entries with *)
(* their tools through the backend, the framework writes past it, the two  *)
(* dreams score, merge and archive entries while a model is awaited, and a *)
(* crash may come between the files of one operation (memory/manager.py,   *)
(* memory/dreamer.py).                                                     *)
(*                                                                         *)
(* Everything between two awaits is one step.  Only the dreamer awaits     *)
(* between reading the memory and changing it, so its stages are the       *)
(* states of a process; a night passes only while no dream runs.           *)
(***************************************************************************)
EXTENDS MemoryStore

CONSTANTS UserKeys, NightKeys, DeepKeys,  \* who names an entry: a caller, a dream
          BatchSize,    \* COMPACT_BATCH_SIZE, SCORE_BATCH_SIZE
          DeepMin,      \* a deep dream needs so many long entries (3)
          Companies, NoContext, \* the company_context of a run, or none
          NoPrompt,
          MaxWrites, MaxNights, MaxFaults  \* bounds of the model

ASSUME TeamMemoryAssumption ==
  /\ Facts = 1..MaxWrites
  /\ UserKeys \cup NightKeys \cup DeepKeys = Keys
  /\ BatchSize \in Nat \ {0} /\ DeepMin \in Nat \ {0}
  /\ MaxWrites \in Nat /\ MaxNights \in Nat /\ MaxFaults \in Nat

Kinds == {"night", "deep"}
Names(kind) == IF kind = "night" THEN NightKeys ELSE DeepKeys

VARIABLES
  mem,      \* the team's directory
  dream,    \* what each kind of dream is about: its stage, its copy of the index,
            \* the contents it read and has not dealt with, its latest new key
  prompt,   \* _prompt_cache: the prompt of a Pi of the team and whose it was
  latest,   \* history: what was last written under each key and not deleted
  torn,     \* history: an index write was lost, or an index was put back
  writes, nights, faults

vars == <<mem, dream, prompt, latest, torn, writes, nights, faults>>
counters == <<writes, nights, faults>>

Awake == [stage |-> "idle", snap |-> Nothing, todo |-> Nothing, made |-> {}]

Init ==
  /\ mem = EmptyStore
  /\ dream = [kind \in Kinds |-> Awake]
  /\ prompt = NoPrompt
  /\ latest = Nothing
  /\ torn = FALSE
  /\ writes = 0 /\ nights = 0 /\ faults = 0

----------------------------------------------------------------------------
(* Helpers of the actions. *)

\* A bug: a write leaves the team's prompts in the cache.
BadDropStalePrompts == UNCHANGED prompt

\* Every write below the memory directory changes its mtime, which a cached
\* prompt is compared with (_collect_prompt_dependency_stats), and drops the
\* team's prompts (_invalidate_prompt_cache_for_team).
DropStalePrompts == prompt' = IF mem' = mem THEN prompt ELSE NoPrompt

\* Every write has something new to say.
Fact == writes + 1

Fault == faults < MaxFaults /\ faults' = faults + 1

Entries(s, tier) == {k \in DOMAIN s.index : s.index[k].tier = tier}
Unscored(s) == {k \in Entries(s, "short") : s.index[k].imp = 0}
Expired(s) == {k \in Entries(s, "short") : s.index[k].old}
Worthwhile(s) == {k \in Expired(s) : s.index[k].imp = 2}

----------------------------------------------------------------------------
(* Writers and readers. *)

\* memory_write of a Pi, through the backend.
ToolWrite(k) ==
  /\ writes < MaxWrites
  /\ writes' = writes + 1
  /\ mem' = Put(mem, Holding(k, {Fact}))
  /\ latest' = Updated(latest, Holding(k, {Fact}))
  /\ DropStalePrompts
  /\ UNCHANGED <<dream, torn, nights, faults>>

\* The framework's own writes go to the manager: output sinks, the cost
\* gate's log, cascade metrics, inboxes, a loop's progress.
ManagerWrite(k) ==
  /\ writes < MaxWrites
  /\ writes' = writes + 1
  /\ mem' = Put(mem, Appended(mem, k, Fact))
  /\ latest' = Updated(latest, Appended(mem, k, Fact))
  /\ DropStalePrompts
  /\ UNCHANGED <<dream, torn, nights, faults>>

\* The file is written and the index is not: _update_index_on_write swallows
\* its errors.
WriteLosesIndex(k) ==
  /\ writes < MaxWrites
  /\ mem.indexed
  /\ Fault
  /\ writes' = writes + 1
  /\ mem' = PutFile(mem, Holding(k, {Fact}))
  /\ latest' = Updated(latest, Holding(k, {Fact}))
  /\ torn' = TRUE
  /\ DropStalePrompts
  /\ UNCHANGED <<dream, nights>>

Read(k) ==
  /\ k \in DOMAIN mem.file
  /\ mem' = Accessed(mem, {k})
  /\ DropStalePrompts
  /\ UNCHANGED <<dream, latest, torn, counters>>

\* delete_team_memory, of a finished loop's progress.
Remove(k) ==
  /\ k \in DOMAIN mem.file
  /\ writes < MaxWrites
  /\ writes' = writes + 1
  /\ mem' = Delete(mem, k)
  /\ latest' = Without(latest, {k})
  /\ DropStalePrompts
  /\ UNCHANGED <<dream, torn, nights, faults>>

\* build_system_prompt: a run without a company's context may be answered from
\* the cache; every prompt that is built is cached.
BuildPrompt(c) ==
  /\ c # NoContext \/ prompt = NoPrompt
  /\ mem' = WithIndex(mem)
  /\ prompt' = [ctx |-> c, view |-> View(mem)]
  /\ UNCHANGED <<dream, latest, torn, counters>>

----------------------------------------------------------------------------
(* The dreams. *)

\* A night passes: every entry is now older than short_tier_max_age_hours.
NightFalls ==
  /\ nights < MaxNights
  /\ \A kind \in Kinds : dream[kind] = Awake
  /\ nights' = nights + 1
  /\ mem' = [mem EXCEPT !.aged = DOMAIN mem.file,
                        !.index = [k \in DOMAIN mem.index |-> [mem.index[k] EXCEPT !.old = TRUE]]]
  /\ UNCHANGED <<dream, prompt, latest, torn, writes, faults>>

\* _gc_expired: what is old, of little worth and hardly read goes to the archive.
Collectable(s) ==
  {k \in Expired(s) : s.index[k].imp < 2 /\ s.index[k].acc < MaxAccess}

\* What follows when the last answer of a stage has been dealt with, as a pair
\* of the store and the dream: the collection and the overview ...
ToOverview(d, s) ==
  <<s, IF Entries(s, "long") = {} THEN Awake
       ELSE [d EXCEPT !.stage = "overview", !.todo = Nothing]>>

Collected(d, s) == ToOverview(d, Archive(s, Collectable(s)))

\* ... after the merges, which take what is old and important, read anew.
ToMerge(d, s) ==
  LET read == Contents(s, Worthwhile(s))
  IN  IF read = Nothing THEN Collected(d, Accessed(s, Worthwhile(s)))
      ELSE <<Accessed(s, Worthwhile(s)), [d EXCEPT !.stage = "merge", !.todo = read]>>

\* The dreamer's step on the store and on the dream.
Proceed(kind, next) ==
  /\ mem' = next[1]
  /\ dream' = [dream EXCEPT ![kind] = next[2]]
  /\ DropStalePrompts
  /\ UNCHANGED counters

\* run_team_dream: copy the index, read what has no score.
StartNight ==
  LET s == WithIndex(mem)
      read == Contents(s, Unscored(s))
      d == [Awake EXCEPT !.snap = s.index]
  IN  /\ dream["night"] = Awake
      /\ nights > 0
      /\ Entries(s, "short") # {}
      /\ Proceed("night", IF read = Nothing THEN ToMerge(d, Accessed(s, Unscored(s)))
                          ELSE <<Accessed(s, Unscored(s)),
                                 [d EXCEPT !.stage = "score", !.todo = read]>>)
      /\ UNCHANGED <<latest, torn>>

\* run_deep_consolidation: the contents are read before the index is copied.
StartDeep ==
  LET s == WithIndex(mem)
      read == Contents(s, Entries(s, "long"))
      t == Accessed(s, Entries(s, "long"))
  IN  /\ dream["deep"] = Awake
      /\ nights > 0
      /\ Cardinality(DOMAIN read) >= DeepMin
      /\ Proceed("deep", <<t, [Awake EXCEPT !.stage = "merge", !.snap = t.index, !.todo = read]>>)
      /\ UNCHANGED <<latest, torn>>

Batches(d) ==
  {B \in SUBSET DOMAIN d.todo :
     \/ Cardinality(B) = BatchSize
     \/ B = DOMAIN d.todo /\ Cardinality(B) < BatchSize}

\* _score_importance: an answer that cannot be parsed scores nothing; a score
\* for a key that has left the index meanwhile is skipped.
Scored(s, scores) ==
  [s EXCEPT !.index = [k \in DOMAIN s.index |->
     IF k \in DOMAIN scores THEN [s.index[k] EXCEPT !.imp = scores[k]] ELSE s.index[k]]]

Score ==
  LET d == dream["night"] IN
  /\ d.stage = "score"
  /\ \E B \in Batches(d) : \E scores \in [B -> 0..2] \cup {Nothing} :
       LET rest == Without(d.todo, B)
           s == Scored(WithIndex(mem), scores)
       IN  Proceed("night", IF rest = Nothing THEN ToMerge(d, s)
                            ELSE <<s, [d EXCEPT !.todo = rest]>>)
  /\ UNCHANGED <<latest, torn>>

\* The new key is named after the second: free, or that of the batch before.
NewNames(kind, s) ==
  {n \in Names(kind) : \/ n \notin DOMAIN s.file \cup DOMAIN s.index \cup DOMAIN s.arch
                       \/ n \in dream[kind].made}

Merged(s, n, old) ==
  SetMeta(Put(s, Holding(n, UNION {old[k] : k \in DOMAIN old})), n, "long", 2)

AfterMerge(kind, s, d) ==
  IF d.todo # Nothing THEN <<s, d>>
  ELSE IF kind = "night" THEN Collected(d, s) ELSE ToOverview(d, s)

\* _compact_entries, _deep_compact: the merged entry is written, then the
\* originals are archived; an invalid answer leaves the batch as it is.
Merge(kind) ==
  LET d == dream[kind] IN
  /\ d.stage = "merge"
  /\ \E B \in Batches(d) :
       LET rest == [d EXCEPT !.todo = Without(d.todo, B)] IN
       \/ \E n \in NewNames(kind, mem) :
            LET new == Merged(mem, n, Only(d.todo, B)) IN
            /\ Proceed(kind, AfterMerge(kind, Archive(new, B), [rest EXCEPT !.made = {n}]))
            /\ latest' = Updated(latest, Holding(n, new.file[n]))
       \/ /\ Proceed(kind, AfterMerge(kind, mem, rest))
          /\ UNCHANGED latest
  /\ UNCHANGED torn

\* _generate_overview: its failure is swallowed, and either way the dream ends.
Overview(kind) ==
  /\ dream[kind].stage = "overview"
  /\ Proceed(kind, <<mem, Awake>>)
  /\ UNCHANGED <<latest, torn>>

\* A model call or a write fails before the overview: the copied index is put
\* back over whatever became of it meanwhile.
DreamFails(kind) ==
  /\ dream[kind].stage \in {"score", "merge"}
  /\ Fault
  /\ mem' = PutIndex(mem, dream[kind].snap)
  /\ dream' = [dream EXCEPT ![kind] = Awake]
  /\ torn' = (torn \/ DOMAIN mem'.index # DOMAIN mem'.file)
  /\ DropStalePrompts
  /\ UNCHANGED <<latest, writes, nights>>

----------------------------------------------------------------------------
(* The process ends and another one starts. *)

Restart(s) ==
  /\ Fault
  /\ mem' = s
  /\ dream' = [kind \in Kinds |-> Awake]
  /\ prompt' = NoPrompt
  /\ torn' = (torn \/ (s.indexed /\ DOMAIN s.index # DOMAIN s.file))
  /\ UNCHANGED nights

Crash == Restart(mem) /\ UNCHANGED <<latest, writes>>

\* Between the file and the index of a write.
CrashInWrite(k) ==
  /\ writes < MaxWrites
  /\ writes' = writes + 1
  /\ Restart(PutFile(mem, Holding(k, {Fact})))
  /\ latest' = Updated(latest, Holding(k, {Fact}))

\* While the originals D of a merge are archived one by one, and k after them:
\* between its metadata and its file, or between the file and the index.
CrashInMerge(kind) ==
  LET d == dream[kind] IN
  /\ d.stage = "merge"
  /\ \E B \in Batches(d) : \E n \in NewNames(kind, mem), D \in SUBSET B, k \in B :
       LET new == Merged(mem, n, Only(d.todo, B))
           s == ArchiveMeta(Archive(new, D \ {k}), {k})
       IN  /\ Restart(s) \/ Restart(ArchiveFile(s, {k}))
           /\ latest' = Updated(latest, Holding(n, new.file[n]))
  /\ UNCHANGED writes

Next ==
  \/ \E k \in UserKeys :
       \/ ToolWrite(k) \/ ManagerWrite(k)
       \/ WriteLosesIndex(k) \/ CrashInWrite(k)
  \/ \E k \in Keys : Read(k)
  \/ \E k \in UserKeys : Remove(k)
  \/ \E c \in Companies \cup {NoContext} : BuildPrompt(c)
  \/ NightFalls
  \/ StartNight \/ StartDeep \/ Score
  \/ \E kind \in Kinds :
       Merge(kind) \/ Overview(kind) \/ DreamFails(kind) \/ CrashInMerge(kind)
  \/ Crash

Spec == Init /\ [][Next]_vars

----------------------------------------------------------------------------
(* Properties. *)

\* What was last written under a key and not deleted is in the memory or in
\* the archive, whichever dreams, failures and crashes came since: the dreams
\* archive, they never delete, and no file is ever out of both directories.
NothingForgotten ==
  \A k \in DOMAIN latest :
    \/ k \in DOMAIN mem.file /\ mem.file[k] = latest[k]
    \/ k \in DOMAIN mem.arch /\ mem.arch[k] = latest[k]

\* The index lists exactly the entries there are, unless a crash or a failed
\* write came between the two files or a failed dream put an old index back.
IndexListsFiles ==
  mem.indexed /\ ~torn => DOMAIN mem.index = DOMAIN mem.file

\* The prompt a run without a company's context would be given from the cache
\* shows the memory as it is.
CachedPromptIsCurrent == prompt # NoPrompt => prompt.view = View(mem)

\* "Include company_context in cache key to differentiate prompts": a prompt
\* that a run without a company's context would be given has none in it.
NoForeignContext == prompt # NoPrompt => prompt.ctx = NoContext
============================================================================
