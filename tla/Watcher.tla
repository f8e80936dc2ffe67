------------------------------- MODULE Watcher -------------------------------
(***************************************************************************)
(* The resource watcher (watcher.rs): one thread that handles one reported *)
(* path after the other.  It takes none of the per-resource locks, so each *)
(* of its steps may fall between any two steps of a request.               *)
(***************************************************************************)
EXTENDS ResourceStore

VARIABLE watcher

watcherVars == <<watcher>>

WatcherPC == {"waiting", "unlisted", "compare", "load", "replace", "publish", "exists",
              "read", "evict", "decide", "infer", "install", "cache", "mark_ready", "fail"}

WatcherState ==
    [pc : WatcherPC, path : {SchemaFile, NoValue} \cup Resource,
     found : SUBSET Resource,       \* new_resources
     previous : SUBSET Resource,    \* previous_resources
     overlay : {NoValue} \cup Overlay,
     value : {NoValue} \cup Snapshot,
     full : BOOLEAN,                \* full_inference_required
     todo : SUBSET Resource, tables : Tables]

WaitingWatcher ==
    [pc |-> "waiting", path |-> NoValue, found |-> {}, previous |-> {},
     overlay |-> NoValue, value |-> NoValue, full |-> FALSE, todo |-> {},
     tables |-> NoTables]

WatcherAt(pc) == watcher.pc = pc
WatcherGoto(pc) == watcher' = [watcher EXCEPT !.pc = pc]
EndOfEvent == watcher' = WaitingWatcher

SchemaTouched == watcher.path = SchemaFile

-----------------------------------------------------------------------------

TakesEvent ==
    /\ WatcherAt("waiting")
    /\ queue # <<>>
    /\ queue' = Tail(queue)
    /\ UNCHANGED <<disk, schemaFile, resources, cache, schema, ready, task>>

\* scan_resources lists the folder.
TakeEvent ==
    /\ TakesEvent
    /\ watcher' = [watcher EXCEPT !.pc = "compare", !.path = Head(queue),
                       !.found = {r \in Resource : disk[r] # Absent}]

\* A folder that cannot be listed: nothing becomes of the event.
ListFails ==
    /\ "scan" \in Faults
    /\ TakesEvent
    /\ watcher' = [watcher EXCEPT !.pc = "unlisted", !.path = Head(queue)]

ReadPrevious ==
    /\ WatcherAt("compare")
    /\ watcher' = [watcher EXCEPT !.pc = IF SchemaTouched THEN "load" ELSE "publish",
                       !.previous = resources]
    /\ UNCHANGED requestVars

\* Mutant: a missing schema file leaves the overlay as it is.
LoadSchemaIfPresent ==
    /\ WatcherAt("load")
    /\ watcher' = CASE schemaFile = Garbage -> [watcher EXCEPT !.pc = "fail"]
                    [] schemaFile = Absent -> [watcher EXCEPT !.pc = "publish"]
                    [] OTHER -> [watcher EXCEPT !.pc = "replace", !.overlay = schemaFile]
    /\ UNCHANGED requestVars

\* load_schema: no schema file is no overlay.
LoadSchema ==
    /\ WatcherAt("load")
    /\ watcher' = IF schemaFile = Garbage THEN [watcher EXCEPT !.pc = "fail"]
                  ELSE [watcher EXCEPT !.pc = "replace",
                           !.overlay = IF schemaFile = Absent THEN NoOverlay
                                       ELSE schemaFile]
    /\ UNCHANGED requestVars

ReplaceOverlay ==
    /\ WatcherAt("replace")
    /\ IF CanReplaceDeclared(schema, watcher.overlay)
       THEN /\ RevisionsLeft(schema, watcher.overlay)
            /\ schema' = ReplaceDeclared(schema, watcher.overlay)
            /\ watcher' = [watcher EXCEPT !.pc = "publish", !.overlay = NoValue]
       ELSE UNCHANGED schema /\ WatcherGoto("fail")
    /\ UNCHANGED <<disk, schemaFile, resources, cache, ready, task, queue>>

\* Mutant: resources are added, never taken away.
PublishResourcesAdding ==
    /\ WatcherAt("publish")
    /\ resources' = resources \cup watcher.found
    /\ WatcherGoto(IF SchemaTouched THEN "decide" ELSE "exists")
    /\ UNCHANGED <<disk, schemaFile, cache, schema, ready, task, queue>>

PublishResources ==
    /\ WatcherAt("publish")
    /\ resources' = watcher.found
    /\ WatcherGoto(IF SchemaTouched THEN "decide" ELSE "exists")
    /\ UNCHANGED <<disk, schemaFile, cache, schema, ready, task, queue>>

\* read_changed_folder_resources: a file that is gone is not a value ...
ChangedExists ==
    /\ WatcherAt("exists")
    /\ WatcherGoto(IF disk[watcher.path] = Absent THEN "decide" ELSE "read")
    /\ UNCHANGED requestVars

\* ... and one that went away since is an error, as is one that does not parse.
ReadChanged ==
    /\ WatcherAt("read")
    /\ watcher' = IF disk[watcher.path] \in Snapshot
                  THEN [watcher EXCEPT !.pc = "decide", !.value = disk[watcher.path]]
                  ELSE [watcher EXCEPT !.pc = "evict"]
    /\ UNCHANGED requestVars

EvictBroken ==
    /\ WatcherAt("evict")
    /\ cache' = [cache EXCEPT ![watcher.path] = NoEntry]
    /\ WatcherGoto("fail")
    /\ UNCHANGED <<disk, schemaFile, resources, schema, ready, task, queue>>

\* Mutants: the server stays ready; the event is handled again.
GiveUpReady ==
    /\ WatcherAt("fail") \/ WatcherAt("unlisted")
    /\ EndOfEvent
    /\ UNCHANGED requestVars
GiveUpRetrying ==
    /\ WatcherAt("fail") \/ WatcherAt("unlisted")
    /\ ready' = FALSE
    /\ IF WatcherAt("fail") THEN WatcherGoto("compare") ELSE EndOfEvent
    /\ UNCHANGED <<disk, schemaFile, resources, cache, schema, task, queue>>

\* mark_not_ready, and on to the next event.
GiveUp ==
    /\ WatcherAt("fail") \/ WatcherAt("unlisted")
    /\ ready' = FALSE
    /\ EndOfEvent
    /\ UNCHANGED <<disk, schemaFile, resources, cache, schema, task, queue>>

\* Mutant: readiness does not matter.
DecideInferenceBySet ==
    /\ WatcherAt("decide")
    /\ LET full == watcher.previous # watcher.found
       IN  watcher' = [watcher EXCEPT !.full = full,
                           !.pc = IF full THEN "infer" ELSE "install",
                           !.todo = IF full THEN watcher.found ELSE {}]
    /\ UNCHANGED requestVars

\* watcher_requires_full_inference
DecideInference ==
    /\ WatcherAt("decide")
    /\ LET full == ~ready \/ watcher.previous # watcher.found
       IN  watcher' = [watcher EXCEPT !.full = full,
                           !.pc = IF full THEN "infer" ELSE "install",
                           !.todo = IF full THEN watcher.found ELSE {}]
    /\ UNCHANGED requestVars

InferFile ==
    /\ WatcherAt("infer")
    /\ \E r \in watcher.todo :
           watcher' = IF disk[r] \in Snapshot
                      THEN [watcher EXCEPT !.todo = @ \ {r},
                                !.tables[r] = InferTable(disk[r]),
                                !.pc = IF watcher.todo = {r} THEN "install" ELSE @]
                      ELSE [watcher EXCEPT !.pc = "fail"]
    /\ UNCHANGED requestVars

InferNothing ==
    /\ WatcherAt("infer")
    /\ watcher.todo = {}
    /\ WatcherGoto("install")
    /\ UNCHANGED requestVars

\* Mutants: only full inference installs tables; the changed table replaces all.
NothingUnlessFull == ~watcher.full
WatchedTablesAlone ==
    IF watcher.full THEN watcher.tables
    ELSE [NoTables EXCEPT ![watcher.path] = InferTable(watcher.value)]

\* The whole inferred schema, or the changed table in the latest one.
NothingToInstall == ~watcher.full /\ watcher.value = NoValue
WatchedTables ==
    IF watcher.full THEN watcher.tables
    ELSE [schema.inferred EXCEPT ![watcher.path] = InferTable(watcher.value)]

InstallTables ==
    /\ WatcherAt("install")
    /\ ~NothingToInstall
    /\ schema' = ReplaceInferred(schema, WatchedTables)
    /\ WatcherGoto(IF Mergeable(schema.declared, WatchedTables) THEN "cache" ELSE "fail")
    /\ UNCHANGED <<disk, schemaFile, resources, cache, ready, task, queue>>

SkipInstall ==
    /\ WatcherAt("install")
    /\ NothingToInstall
    /\ WatcherGoto("cache")
    /\ UNCHANGED requestVars

\* Mutant: a cached snapshot is kept.
RefreshCacheIfAbsent ==
    /\ WatcherAt("cache")
    /\ ArcAvailable
    /\ cache' = IF SchemaTouched \/ cache[watcher.path] # NoEntry THEN cache
                ELSE [cache EXCEPT ![watcher.path] =
                         IF watcher.value = NoValue THEN NoEntry
                         ELSE [arc |-> FreshArc, value |-> watcher.value,
                               rev |-> Unvalidated]]
    /\ IF watcher.full THEN WatcherGoto("mark_ready") ELSE EndOfEvent
    /\ UNCHANGED <<disk, schemaFile, resources, schema, ready, task, queue>>

\* The value read before inference replaces whatever is cached by now.
RefreshCache ==
    /\ WatcherAt("cache")
    /\ ArcAvailable
    /\ cache' = IF SchemaTouched THEN cache
                ELSE [cache EXCEPT ![watcher.path] =
                         IF watcher.value = NoValue THEN NoEntry
                         ELSE [arc |-> FreshArc, value |-> watcher.value,
                               rev |-> Unvalidated]]
    /\ IF watcher.full THEN WatcherGoto("mark_ready") ELSE EndOfEvent
    /\ UNCHANGED <<disk, schemaFile, resources, schema, ready, task, queue>>

WatcherMarksReady ==
    /\ WatcherAt("mark_ready")
    /\ ready' = TRUE
    /\ EndOfEvent
    /\ UNCHANGED <<disk, schemaFile, resources, cache, schema, task, queue>>

Watch ==
    \/ TakeEvent \/ ListFails \/ ReadPrevious \/ LoadSchema \/ ReplaceOverlay
    \/ PublishResources \/ ChangedExists \/ ReadChanged \/ EvictBroken \/ GiveUp
    \/ DecideInference \/ InferFile \/ InferNothing \/ InstallTables
    \/ SkipInstall \/ RefreshCache \/ WatcherMarksReady
=============================================================================
