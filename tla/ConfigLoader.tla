---------------------------- MODULE ConfigLoader ----------------------------
(***************************************************************************)
(* The package internal/config in one server process: the backend type is  *)
(* detected, the configuration is loaded and overridden by the             *)
(* environment, and a goroutine reloads it when a file is written, while   *)
(* an operator saves, replaces and removes the files.                      *)
(*                                                                         *)
(* Of a configuration the model keeps its TTL and the file it came from:   *)
(* the TTL is what defaults, validation and overrides disagree about.      *)
(* Detection reads its file in one step, loading finds and reads it in two.*)
(*                                                                         *)
(* The prefix of some names keeps them apart from those of Server and      *)
(* Startup: ServerProofs extends the three.                                *)
(***************************************************************************)
EXTENDS Integers, Sequences, SequencesExt

CONSTANTS
  Candidates,    \* the file names tried in a directory, in this order
  OtherFiles,    \* files of any other name
  Paths,         \* values of -config: "directory", or a file
  Environments,  \* what the process may find in its environment
  Contents,      \* what the operator may save
  DefaultTTL,
  Half,          \* 2^(w-1) for the w bits of the TTL field (w = 32)
  MaxChanges     \* bound: changes the operator makes to the files

Types == {"", "redis", "dynamo", "dynamodb", "scylla", "scylladb", "other"}
FieldTTL == -Half..(Half - 1)
Files == ToSet(Candidates) \cup OtherFiles

Holding(kind, type, ttl) == [kind |-> kind, type |-> type, ttl |-> ttl]
NoFile == Holding("none", "", 0)
Empty == Holding("empty", "", 0)
Garbled == Holding("garbled", "", 0)       \* does not parse
Directory == Holding("directory", "", 0)   \* not a file at all

ASSUME ConfigAssumption ==
  /\ Candidates \in Seq(ToSet(Candidates))
  /\ Paths \subseteq Files \cup {"directory"} /\ {"directory", "none"} \cap Files = {}
  /\ \A e \in Environments : e.type \in Types /\ (e.ttl = <<>> \/ e.ttl[1] \in Int)
  /\ \A c \in Contents :
       c.kind \in {"yaml", "empty", "garbled"} /\ c.type \in Types /\ c.ttl \in FieldTTL
  /\ Half \in Nat \ {0} /\ DefaultTTL \in FieldTTL /\ DefaultTTL > 0
  /\ MaxChanges \in Nat

VARIABLES
  path, env,     \* the flag, and [type, ttl] with ttl = <<>> when it is unset
  file,          \* what each file holds
  saving,        \* the save in progress: <<>> or <<file, content>>
  saved,         \* history: the candidate saved in place, if that was the
                 \* last change and the directory was watched
  changes,       \* counts the operator's changes
  events,        \* writes to files of the watched directory, not handled yet
  mainAt,        \* where main is
  backend,       \* the backend type detected
  chosen,        \* the file that detection, then loading, has chosen
  served,        \* the configuration the server and its store were given
  loop,          \* the goroutine of watchConfig
  event,         \* the file whose write it handles
  current, lastError,  \* fields of ConfigLoader
  told,          \* what the registered watcher was told last, <<>> at first
  closed

operator == <<file, saving, saved, changes>>
flags == <<path, env>>
loader == <<loop, event, current, lastError, told>>
process == <<mainAt, backend, chosen, served, closed>>
loaderVars == <<flags, operator, events, process, loader>>

LoadedConfigs == [source : Files \cup {"defaults"}, ttl : FieldTTL]
NoConfig == [source |-> "defaults", ttl |-> 0]

(* Files of another name are left out unless the flag names them. *)
InUse(f) == f \in ToSet(Candidates) \cup {path}

LoaderTypeOK ==
  /\ path \in Paths /\ env \in Environments
  /\ file \in [Files -> Contents \cup {NoFile, Empty, Garbled, Directory}]
  /\ saving = <<>> \/ saving \in Files \X Contents
  /\ saved \in ToSet(Candidates) \cup {"none"} /\ changes \in 0..MaxChanges
  /\ events \in Seq(ToSet(Candidates))
  /\ mainAt \in {"detect", "find", "read", "watch", "serve", "fatal"}
  /\ backend \in Types
  /\ chosen \in Files \cup {"none"}
  /\ served \in LoadedConfigs /\ current \in LoadedConfigs
  /\ loop \in {"none", "select", "handle", "notify", "ended"}
  /\ event \in Files \cup {"none"}
  /\ lastError \in {"nil", "load", "watch"}
  /\ told = <<>> \/ told[1] \in LoadedConfigs
  /\ closed \in BOOLEAN

LoaderInit ==
  /\ path \in Paths /\ env \in Environments
  /\ file \in [Files -> {NoFile, Directory} \cup Contents]
  /\ \A f \in Files : file[f] # NoFile => InUse(f)
  /\ path # "directory" => file[path] # Directory
  /\ saving = <<>> /\ saved = "none" /\ changes = 0 /\ events = <<>>
  /\ mainAt = "detect" /\ backend = "" /\ chosen = "none" /\ served = NoConfig
  /\ loop = "none" /\ event = "none" /\ current = NoConfig /\ lastError = "nil"
  /\ told = <<>> /\ closed = FALSE

-----------------------------------------------------------------------------
(* The operator.  A file saved in place is truncated and written later.    *)
(* The loop looks at writes to files with a candidate's name only; other   *)
(* events are left out.  The kernel merges an event with an equal one      *)
(* before it.                                                              *)

Watching == mainAt = "serve" /\ ~closed

Emit(f) ==
  events' = IF Watching /\ f \in ToSet(Candidates)
                 /\ (events = <<>> \/ Last(events) # f)
              THEN Append(events, f) ELSE events

Change(f) ==
  /\ InUse(f) /\ file[f] # Directory
  /\ saving = <<>> /\ mainAt # "fatal"
  /\ changes < MaxChanges
  /\ changes' = changes + 1
  /\ saved' = "none"

BeginSave(f, c) ==
  /\ Change(f)
  /\ saving' = <<f, c>>
  /\ \E partly \in {Empty, Garbled} : file' = [file EXCEPT ![f] = partly]
  /\ IF file[f] = NoFile THEN UNCHANGED events ELSE Emit(f)
  /\ UNCHANGED <<flags, process, loader>>

EndSave ==
  /\ saving # <<>>
  /\ saving' = <<>>
  /\ file' = [file EXCEPT ![saving[1]] = saving[2]]
  /\ saved' = IF Watching /\ saving[1] \in ToSet(Candidates) THEN saving[1] ELSE "none"
  /\ Emit(saving[1])
  /\ UNCHANGED <<changes, flags, process, loader>>

(* Another file is renamed onto it, or it is removed: not a write. *)
Replace(f, c) ==
  /\ Change(f)
  /\ file' = [file EXCEPT ![f] = c]
  /\ UNCHANGED <<saving, events, flags, process, loader>>

-----------------------------------------------------------------------------
(* What the code makes of a file. *)

normalizeBackendType(t) ==
  IF t \in {"scylla", "scylladb"} THEN "scylladb"
  ELSE IF t \in {"dynamo", "dynamodb"} THEN "dynamodb" ELSE t

(* The first candidate among those that can be used, or the path itself. *)
FirstOf(usable) ==
  IF path # "directory" THEN IF file[path] # NoFile THEN path ELSE "none"
  ELSE LET found == {i \in DOMAIN Candidates : Candidates[i] \in usable}
       IN  IF found = {} THEN "none" ELSE Candidates[Min(found)]

(* DetectBackendType wants a file, loadFromFile anything of that name. *)
DetectedFile == FirstOf({f \in DOMAIN file : file[f] \notin {NoFile, Directory}})

(* Mutant: the names are tried in another order. *)
ConfigFileReversed ==
  IF path # "directory" THEN IF file[path] # NoFile THEN path ELSE "none"
  ELSE LET found == {i \in DOMAIN Candidates : file[Candidates[i]] # NoFile}
       IN  IF found = {} THEN "none" ELSE Candidates[Max(found)]

ConfigFile == FirstOf({f \in DOMAIN file : file[f] # NoFile})

(* Redis' loader parses but does not validate. *)
Rejected(c) ==
  \/ c.kind \in {"none", "directory", "garbled"}
  \/ c.kind = "yaml" /\ backend \in {"dynamodb", "scylladb"} /\ c.ttl <= 0

(* Mutant: as if the field were as wide as the number. *)
CutNothing(n) == n

(* reflect's SetInt cuts a 64-bit integer to the width of the field. *)
Cut(n) == ((n + Half) % (2 * Half)) - Half

(* Mutant: the file wins over the environment. *)
overrideDefaults(ttl) == IF env.ttl = <<>> \/ ttl # DefaultTTL THEN ttl ELSE Cut(env.ttl[1])

applyEnvironmentOverrides(ttl) == IF env.ttl = <<>> THEN ttl ELSE Cut(env.ttl[1])

Defaults == [source |-> "defaults", ttl |-> applyEnvironmentOverrides(DefaultTTL)]

(* Without data the loaders return their defaults, and no error. *)
Loaded(f) ==
  IF file[f].kind = "empty" THEN Defaults
  ELSE [source |-> f, ttl |-> applyEnvironmentOverrides(file[f].ttl)]

-----------------------------------------------------------------------------
(* main *)

Fatal ==
  /\ mainAt' = "fatal"
  /\ UNCHANGED <<backend, chosen, served, closed, loader>>

Detected(t, f) ==
  /\ backend' = normalizeBackendType(t)
  /\ chosen' = f
  /\ mainAt' = IF backend' \in {"redis", "dynamodb", "scylladb"} THEN "find" ELSE "fatal"
  /\ UNCHANGED <<served, closed, loader>>

DetectBackendType ==
  /\ mainAt = "detect"
  /\ LET f == DetectedFile IN
       IF env.type # "" THEN Detected(env.type, "none")
       ELSE IF f = "none" \/ file[f].kind # "yaml" THEN Fatal
       ELSE Detected(file[f].type, f)     \* no type: "" is no backend either
  /\ UNCHANGED <<flags, operator, events>>

(* loadFromFile: without a file there are the defaults. *)
FindFile ==
  /\ mainAt = "find"
  /\ chosen' = ConfigFile
  /\ IF ConfigFile = "none"
       THEN mainAt' = "watch" /\ current' = Defaults
       ELSE mainAt' = "read" /\ UNCHANGED current
  /\ UNCHANGED <<flags, operator, events, backend, served, closed,
                 loop, event, lastError, told>>

(* A file that is gone by now is an error: it is wrapped, and IsNotExist   *)
(* does not see through that.                                              *)
ReadFile ==
  /\ mainAt = "read"
  /\ IF Rejected(file[chosen])
       THEN Fatal
       ELSE /\ mainAt' = "watch"
            /\ current' = Loaded(chosen)
            /\ UNCHANGED <<backend, chosen, served, closed, loop, event, lastError, told>>
  /\ UNCHANGED <<flags, operator, events>>

(* The directory is watched from here on; the server keeps the             *)
(* configuration it is given now.                                          *)
setupWatcher ==
  /\ mainAt = "watch"
  /\ mainAt' = "serve"
  /\ loop' = "select"
  /\ served' = current
  /\ UNCHANGED <<flags, operator, events, backend, chosen, closed,
                 event, current, lastError, told>>

setupWatcherFails ==
  /\ mainAt = "watch"
  /\ Fatal
  /\ UNCHANGED <<flags, operator, events>>

(* Mutant: Close signals a channel that LoadConfig does not make. *)
CloseStopChan ==
  /\ Watching
  /\ UNCHANGED loaderVars

Close ==
  /\ Watching
  /\ closed' = TRUE
  /\ UNCHANGED <<flags, operator, events, mainAt, backend, chosen, served, loader>>

-----------------------------------------------------------------------------
(* watchConfig *)

TakeEvent ==
  /\ loop = "select" /\ events # <<>>
  /\ loop' = "handle"
  /\ event' = Head(events)
  /\ events' = Tail(events)
  /\ UNCHANGED <<flags, operator, process, current, lastError, told>>

WatcherError ==
  /\ loop = "select" /\ ~closed
  /\ lastError' = "watch"
  /\ UNCHANGED <<flags, operator, events, process, loop, event, current, told>>

resolveConfigPath(eventPath) == IF path = "directory" THEN eventPath ELSE path

(* Mutant: an error of the loader is dropped. *)
handleFileModificationQuietly ==
  /\ loop = "handle"
  /\ IF Rejected(file[resolveConfigPath(event)])
       THEN loop' = "select" /\ UNCHANGED <<current, lastError>>
       ELSE loop' = "notify" /\ current' = Loaded(resolveConfigPath(event)) /\ lastError' = "nil"
  /\ UNCHANGED <<flags, operator, events, process, event, told>>

(* After waitForFileStability, which waits 350 ms at most, whether the     *)
(* file is stable by then or not.                                          *)
handleFileModification ==
  /\ loop = "handle"
  /\ IF Rejected(file[resolveConfigPath(event)])
       THEN loop' = "select" /\ lastError' = "load" /\ UNCHANGED current
       ELSE loop' = "notify" /\ current' = Loaded(resolveConfigPath(event)) /\ lastError' = "nil"
  /\ UNCHANGED <<flags, operator, events, process, event, told>>

notifyWatchers ==
  /\ loop = "notify"
  /\ loop' = "select"
  /\ told' = <<current>>
  /\ UNCHANGED <<flags, operator, events, process, event, current, lastError>>

(* The watcher closes its channels. *)
LoopEnds ==
  /\ loop = "select" /\ closed
  /\ loop' = "ended"
  /\ UNCHANGED <<flags, operator, events, process, event, current, lastError, told>>

-----------------------------------------------------------------------------
Operator ==
  \/ \E f \in Files, c \in Contents : BeginSave(f, c) \/ Replace(f, c)
  \/ \E f \in Files : Replace(f, NoFile)
  \/ EndSave

MainLoads ==
  \/ DetectBackendType \/ FindFile \/ ReadFile \/ setupWatcher \/ setupWatcherFails

Loop == TakeEvent \/ handleFileModification \/ notifyWatchers \/ LoopEnds

LoaderNext == Operator \/ MainLoads \/ Close \/ Loop \/ WatcherError

LoaderSpec == LoaderInit /\ [][LoaderNext]_loaderVars

(* Processes run, saves are finished, and the process is shut down in the  *)
(* end.                                                                    *)
LoaderFairSpec ==
  /\ LoaderSpec
  /\ WF_loaderVars(MainLoads) /\ WF_loaderVars(Loop)
  /\ WF_loaderVars(EndSave) /\ WF_loaderVars(Close)

-----------------------------------------------------------------------------
(* Properties. *)

Settled == loop = "select" /\ events = <<>> /\ saving = <<>> /\ ~closed

(* A save in place is not lost: once its events are handled, the           *)
(* configuration in force, and the one watchers were told, is the one that *)
(* was saved last, or the old one with an error, over events merged,       *)
(* events of a truncated file, and saves during a reload.                  *)
LastSaveWins ==
  Settled /\ saved # "none" =>
    LET f == resolveConfigPath(saved) IN
    /\ IF Rejected(file[f])
         THEN lastError # "nil"
         ELSE current = Loaded(f) /\ lastError # "load"
    /\ told \in {<<>>, <<current>>}

(* Files that nobody touches: the server runs on the file whose backend    *)
(* type was detected.                                                      *)
DetectedFileServed ==
  mainAt = "serve" /\ env.type = "" /\ changes = 0 =>
    DetectedFile # "none" /\ served = Loaded(DetectedFile)

(* Whether at start-up, on a reload or from defaults: a TTL in the         *)
(* environment is the one in force, and otherwise no TTL that validation   *)
(* refuses ever is.                                                        *)
TTLInForce ==
  mainAt \in {"watch", "serve"} =>
    IF env.ttl # <<>> THEN current.ttl = Cut(env.ttl[1])
    ELSE backend # "redis" => current.ttl > 0

(* The goroutine ends with the process' configuration loader, of which     *)
(* LoadConfig leaves stopChan nil.                                         *)
ShutdownEndsLoop == mainAt = "serve" ~> loop = "ended"

-----------------------------------------------------------------------------
(* What the documentation says. *)

(* "Hot-reload capability for configuration changes": the server runs on   *)
(* the configuration that was reloaded.                                    *)
HotReload == Settled => served = current

(* "Always watch the parent directory to catch file creation/deletion/     *)
(* rename": when nothing is left to handle, a file that can be loaded is   *)
(* the one in force.                                                       *)
RenameIsCaught ==
  Settled /\ path # "directory" =>
    Rejected(file[path]) \/ current = Loaded(path)

(* "waitForFileStability": a reload does not come upon a file that is      *)
(* being written, and take it for an empty configuration.                  *)
ReloadsWhatWasSaved ==
  [][loop = "handle" /\ current' # current => current'.source # "defaults"]_loaderVars
=============================================================================
