---------------------------- MODULE ConfigWatcher ----------------------------
(***************************************************************************)
(* Hot reload of the configuration (watcher.py): a thread polls the file,  *)
(* or watchdog calls it when the file is modified in place; a change is    *)
(* parsed, validated and handed to the callback that makes a new           *)
(* orchestrator of it.  Editors write the file at any moment, also between *)
(* two looks of one load, the first one of the constructor included, and   *)
(* the wrapper makes its first orchestrator while the thread runs already. *)
(*                                                                         *)
(* A text of the file is a number, 0 is none; Wrong are those that do not  *)
(* validate, which the first load does not ask.  Every write has a         *)
(* modification time of its own.                                           *)
(***************************************************************************)
EXTENDS Naturals

CONSTANTS Texts, Wrong,
          CwMaxWrites \* bound of the model

ASSUME ConfigWatcherAssumption ==
  Texts \subseteq Nat \ {0} /\ Wrong \subseteq Texts /\ CwMaxWrites \in Nat

VARIABLES
  polling,  \* watchdog is not installed
  file,     \* the file: its text and modification time
  current,  \* _current_config: the text it is made of
  noted,    \* _last_modified and the text of _last_hash
  debouncing, \* less than debounce_seconds since _last_reload
  events,   \* what watchdog has not delivered
  reload,   \* the load that runs: "off", "parse", "stat", "hash", "notify"
  orch,     \* the text the orchestrator is made of
  boot,     \* the wrapper's __init__: "loads" the file, "starts" the watcher, "reads"
            \* its configuration, "stores" what it made of it, "done"
  skipped   \* history: since the file was last read, a change of it was hidden from
            \* the watcher, or the orchestrator did not follow (QuietFileIsLoaded)

watcherVars == <<polling, file, current, noted, debouncing, events, reload, orch, boot, skipped>>

\* The constructor has parsed the file; its stat and its hash come next.
WatcherInit ==
  \E t \in Texts :
    /\ polling \in BOOLEAN
    /\ file = [text |-> t, mtime |-> 1]
    /\ current = t /\ noted = [text |-> 0, mtime |-> 0]
    /\ debouncing = FALSE /\ events = 0 /\ reload = "stat"
    /\ orch = 0 /\ boot = [step |-> "loads", text |-> 0]
    /\ skipped = FALSE

Watching == boot.step \in {"reads", "stores", "done"}

\* An editor writes the file in place, or renames another file over it, which
\* watchdog reports as a move that the handler does not take.
EditFile(t) ==
  /\ file.mtime <= CwMaxWrites
  /\ file' = [text |-> t, mtime |-> file.mtime + 1]
  /\ \E inPlace \in BOOLEAN :
       LET told == ~polling /\ inPlace /\ Watching IN
       /\ events' = IF told THEN events + 1 ELSE events
       /\ skipped' = (skipped \/ reload \in {"stat", "hash"} \/ (~polling /\ ~told))
  /\ UNCHANGED <<polling, current, noted, debouncing, reload, orch, boot>>

DebounceEnds == debouncing /\ debouncing' = FALSE
                /\ UNCHANGED <<polling, file, current, noted, events, reload, orch, boot, skipped>>

\* start.
StartWatching ==
  /\ boot.step = "starts" /\ boot' = [boot EXCEPT !.step = "reads"]
  /\ UNCHANGED <<polling, file, current, noted, debouncing, events, reload, orch, skipped>>

\* _check_for_changes.
Changed == file.mtime # noted.mtime /\ file.text # noted.text

\* A bug: the file's time is noted when the change is seen.
BadReloadBegins ==
  /\ Watching /\ reload = "off"
  /\ \/ polling /\ Changed /\ UNCHANGED events
     \/ ~polling /\ events > 0 /\ events' = events - 1
  /\ noted' = [noted EXCEPT !.mtime = file.mtime]
  /\ reload' = IF debouncing THEN "off" ELSE "parse"
  /\ skipped' = (skipped \/ (debouncing /\ ~polling /\ file.text # current))
  /\ UNCHANGED <<polling, file, current, debouncing, orch, boot>>

\* One turn of _poll_loop, or one event of watchdog, up to the parse.
ReloadBegins ==
  /\ Watching /\ reload = "off"
  /\ \/ polling /\ Changed /\ UNCHANGED events
     \/ ~polling /\ events > 0 /\ events' = events - 1
  /\ reload' = IF debouncing THEN "off" ELSE "parse"
  /\ skipped' = (skipped \/ (debouncing /\ ~polling /\ file.text # current))
  /\ UNCHANGED <<polling, file, current, noted, debouncing, orch, boot>>

\* reload, called by hand: the same, changed or not.
ManualReload ==
  /\ boot.step = "done" /\ reload = "off" /\ ~debouncing
  /\ reload' = "parse"
  /\ UNCHANGED <<polling, file, current, noted, debouncing, events, orch, boot, skipped>>

\* _on_file_changed: what the parser reads is validated; what is wrong is left.
ParseFile ==
  /\ reload = "parse"
  /\ IF file.text \in Wrong THEN reload' = "off" /\ UNCHANGED <<current, skipped>>
     ELSE reload' = "stat" /\ current' = file.text /\ skipped' = FALSE
  /\ UNCHANGED <<polling, file, noted, debouncing, events, orch, boot>>

StatFile ==
  /\ reload = "stat" /\ reload' = "hash"
  /\ noted' = [noted EXCEPT !.mtime = file.mtime]
  /\ UNCHANGED <<polling, file, current, debouncing, events, orch, boot, skipped>>

HashFile ==
  /\ reload = "hash"
  /\ noted' = [noted EXCEPT !.text = file.text]
  /\ IF boot.step = "loads"
     THEN reload' = "off" /\ boot' = [boot EXCEPT !.step = "starts"] /\ UNCHANGED debouncing
     ELSE reload' = "notify" /\ debouncing' = TRUE /\ UNCHANGED boot
  /\ UNCHANGED <<polling, file, current, events, orch, skipped>>

\* _handle_reload, called with what was parsed; an orchestrator that cannot be made
\* of it is only logged.
Notify ==
  /\ reload = "notify" /\ reload' = "off"
  /\ \/ orch' = current /\ UNCHANGED skipped
     \/ skipped' = TRUE /\ UNCHANGED orch
  /\ UNCHANGED <<polling, file, current, noted, debouncing, events, boot>>

\* HotReloadOrchestrator.__init__: the watcher runs; its configuration is read
\* under the lock a reload holds, then the orchestrator is made of it and stored.
ReadFirst ==
  /\ boot.step = "reads" /\ reload = "off"
  /\ boot' = [step |-> "stores", text |-> current]
  /\ UNCHANGED <<polling, file, current, noted, debouncing, events, reload, orch, skipped>>

StoreFirst ==
  /\ boot.step = "stores" /\ boot' = [boot EXCEPT !.step = "done"]
  /\ orch' = boot.text
  /\ skipped' = (skipped \/ (boot.text # current /\ reload \in {"off", "parse"}))
  /\ UNCHANGED <<polling, file, current, noted, debouncing, events, reload>>

WatcherNext ==
  \/ \E t \in Texts : EditFile(t)
  \/ DebounceEnds \/ ReloadBegins \/ ManualReload \/ ParseFile \/ StatFile \/ HashFile \/ Notify
  \/ StartWatching \/ ReadFirst \/ StoreFirst

\* The thread turns, time passes, and the constructor ends; the lock it waits for
\* is free for poll_interval between two looks at a file that does not validate.
WatcherFairness ==
  /\ WF_watcherVars(DebounceEnds)
  /\ WF_watcherVars(StartWatching \/ StoreFirst) /\ SF_watcherVars(ReadFirst)
  /\ WF_watcherVars(ReloadBegins)
  /\ WF_watcherVars(ParseFile \/ StatFile \/ HashFile \/ Notify)

----------------------------------------------------------------------------
\* A valid text that stays in the file is loaded, and the orchestrator is made
\* of it, whatever wrong texts came before, whatever was loaded first and however
\* long the debounce.  Unless, since the file was last read,
\*   - it was written between two looks of one load, the constructor's included;
\*   - watchdog was not told: a rename, or a write before the observer started;
\*   - watchdog's event for it was debounced;
\*   - the callback failed, or the reload overtook the wrapper's __init__.
QuietFileIsLoaded ==
  \A t \in Texts \ Wrong :
    <>[](file.text = t /\ ~skipped) => <>[](current = t /\ orch = t)
=============================================================================
