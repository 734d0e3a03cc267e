----------------------------- MODULE Discography -----------------------------
(***************************************************************************)
(* The discography: songs in a cache in memory and a database, fed from    *)
(* MediaStore.  Any thread that loads songs calls getOrAddSong; a worker   *)
(* of BeatDetectionService writes its result back with removeSongById and  *)
(* addSong; additions and synchronisations are asynchronous tasks, which   *)
(* run one at a time.  removeSongById takes the cache out of step with the *)
(* database for a moment; unless its caller holds the cache's lock,        *)
(* others run in between.                                                  *)
(*                                                                         *)
(* A song is an id and a version (path and dates); its tempo, artist and   *)
(* album are left out.                                                     *)
(***************************************************************************)
EXTENDS Naturals, Sequences, FiniteSets

CONSTANTS
    Id,
    Version,    \* of the files of songs
    Genre,
    GenreOf,    \* of each song, the versions of its file, each with its genre
    Absent,     \* no version, no song, no list
    MaxCalls,   \* bound of the model: calls and tasks under way or waiting at once
    MaxRows     \* bound of the model: rows of a song when the process is killed

ASSUME GenreAssumption ==
    /\ IsFiniteSet(Genre) /\ DOMAIN GenreOf = Id
    /\ \A id \in Id : \E vs \in SUBSET Version : GenreOf[id] \in [vs -> Genre]
ASSUME AbsentAssumption ==
    /\ Absent \notin Version /\ Absent \notin Genre
    /\ \A s \in [id : Id, version : Version] : s # Absent
    /\ \A i \in 0 .. Cardinality(Genre) : i # Absent
    /\ \A ids \in SUBSET Id : ids # Absent

VARIABLES
    mediaStore,     \* version of each song
    changed,        \* listeners are still to hear of a change
    cache,          \* songsById
    genreIds,       \* genresByName
    songsByGenreId,
    db,             \* rows of each song
    tasks,          \* tasks of the AsyncTask executor
    syncing,        \* step of the synchronisation that runs, or "no"
    remaining,      \* what it has still to look at
    allSongIds,     \* what it saw in MediaStore
    pc, holding,    \* step of each thread, and the song it works with
    left,           \* history: orphans the last synchronisation left
    raced,          \* history: songs added between the two steps of a removal
    late,           \* history: songs whose outdated version was added
    reused          \* history: a genre got an id in use

index == <<genreIds, songsByGenreId>>
sync == <<syncing, remaining, allSongIds>>
threads == <<pc, holding>>
history == <<left, raced, late, reused>>
vars == <<mediaStore, changed, cache, index, db, tasks, sync, threads, history>>

Threads == {"loader", "worker", "executor"}
Versions(id) == DOMAIN GenreOf[id]
Song == { s \in [id : Id, version : Version] : s.version \in Versions(s.id) }

(* The song of a cursor over MediaStore. *)
Loaded(id) == [id |-> id, version |-> mediaStore[id]]
MediaIds == { id \in Id : mediaStore[id] # Absent }
CacheIds == { id \in Id : cache[id] # Absent }

-----------------------------------------------------------------------------
(* MemCache's genres: the id of a new one is the number of genres. *)

GenreId(s, ids) ==
    LET g == GenreOf[s.id][s.version] IN
    IF ids[g] # Absent THEN ids[g] ELSE Cardinality({ h \in Genre : ids[h] # Absent })

addToGenre(s) ==
    LET g == GenreOf[s.id][s.version]
        new == genreIds[g] = Absent
        i == GenreId(s, genreIds)
        list == IF new THEN {} ELSE songsByGenreId[i]
    IN  /\ genreIds' = [genreIds EXCEPT ![g] = i]
        /\ songsByGenreId' = [songsByGenreId EXCEPT ![i] =
                                 IF list = Absent THEN Absent ELSE list \cup {s.id}]
        /\ reused' = (reused \/ (new /\ songsByGenreId[i] # Absent))

(* ids and lists after s is removed. *)
IdsWithout(s, ids, lists) ==
    LET g == GenreOf[s.id][s.version] IN
    IF ids[g] # Absent /\ lists[ids[g]] # Absent /\ lists[ids[g]] \subseteq {s.id}
    THEN [ids EXCEPT ![g] = Absent] ELSE ids
ListsKept(s, ids, lists) == lists
ListsWithout(s, ids, lists) ==
    LET g == GenreOf[s.id][s.version]
        i == ids[g]
    IN  IF i = Absent \/ lists[i] = Absent THEN lists
        ELSE [lists EXCEPT ![i] = IF @ \subseteq {s.id} THEN Absent ELSE @ \ {s.id}]

removeFromCache(id) ==
    /\ cache' = [cache EXCEPT ![id] = Absent]
    /\ IF cache[id] = Absent THEN UNCHANGED index
       ELSE /\ genreIds' = IdsWithout(cache[id], genreIds, songsByGenreId)
            /\ songsByGenreId' = ListsWithout(cache[id], genreIds, songsByGenreId)

-----------------------------------------------------------------------------
(* The process starts with the songs of the database: of two rows the first *)
(* counts; genres are numbered as they come.                                *)
GenreIds == 0 .. Cardinality(Genre)
Fetch(rows) ==
    /\ cache' = [id \in Id |-> IF rows[id] = <<>> THEN Absent ELSE Head(rows[id])]
    /\ LET genreOf(id) == GenreOf[id][Head(rows[id]).version]
           ids == { id \in Id : rows[id] # <<>> }
           genres == { genreOf(id) : id \in ids }
       IN  \E number \in [genres -> 0 .. Cardinality(genres) - 1] :
              /\ \A g, h \in genres : number[g] = number[h] => g = h
              /\ genreIds' = [g \in Genre |-> IF g \in genres THEN number[g] ELSE Absent]
              /\ songsByGenreId' =
                    [i \in GenreIds |->
                        IF \E g \in genres : number[g] = i
                        THEN { id \in ids : number[genreOf(id)] = i } ELSE Absent]

Sync(reset) == [op |-> "sync", reset |-> reset]
Add(s) == [op |-> "add", song |-> s]

(* startService: the first thing is a synchronisation. *)
Init ==
    /\ mediaStore \in [Id -> Version \cup {Absent}] /\ changed = FALSE
    /\ \A id \in Id : mediaStore[id] \in Versions(id) \cup {Absent}
    /\ cache = [id \in Id |-> Absent] /\ genreIds = [g \in Genre |-> Absent]
    /\ songsByGenreId = [i \in GenreIds |-> Absent]
    /\ db = [id \in Id |-> <<>>]
    /\ tasks = <<Sync(FALSE)>>
    /\ syncing = "no" /\ remaining = {} /\ allSongIds = {}
    /\ pc = [t \in Threads |-> "idle"] /\ holding = [t \in Threads |-> Absent]
    /\ left = {} /\ raced = {} /\ late = {} /\ reused = FALSE

(* The process is killed and started again. *)
Restart ==
    /\ \A id \in Id : Len(db[id]) <= MaxRows
    /\ Fetch(db)
    /\ tasks' = <<Sync(FALSE)>> /\ changed' = FALSE
    /\ syncing' = "no" /\ remaining' = {} /\ allSongIds' = {}
    /\ pc' = [t \in Threads |-> "idle"] /\ holding' = [t \in Threads |-> Absent]
    /\ left' = {} /\ late' = {} /\ reused' = FALSE
    /\ raced' = { id \in Id : Len(db[id]) > 1 }
    /\ UNCHANGED <<mediaStore, db>>

-----------------------------------------------------------------------------
(* MediaStore *)

(* A file is added, changed or removed, once between two notifications: a   *)
(* bound of the model.                                                      *)
Change(id) ==
    /\ ~changed
    /\ \E v \in (Versions(id) \cup {Absent}) \ {mediaStore[id]} :
          mediaStore' = [mediaStore EXCEPT ![id] = v]
    /\ changed' = TRUE
    /\ UNCHANGED <<cache, index, db, tasks, sync, threads, left, raced, late, reused>>

hasRoom ==
    Len(tasks) + Cardinality({ t \in Threads : pc[t] # "idle" })
        + (IF syncing = "no" THEN 0 ELSE 1) < MaxCalls

triggerSyncWithMediaStore(reset) ==
    /\ hasRoom
    /\ changed \/ reset
    /\ tasks' = Append(tasks, Sync(reset))
    /\ changed' = IF reset THEN changed ELSE FALSE
    /\ UNCHANGED <<mediaStore, cache, index, db, sync, threads, left, raced, late, reused>>

-----------------------------------------------------------------------------
(* getOrAddSong and updateSongInDatabase, on any thread *)

Step(t, label, s) == pc' = [pc EXCEPT ![t] = label] /\ holding' = [holding EXCEPT ![t] = s]

(* synchronized (cache), while orphans are removed. *)
isLocked == syncing = "clean"

(* getSong and the comparison with what MediaStore gave. *)
Look(t, s) ==
    LET same == cache[s.id] # Absent /\ cache[s.id].version = s.version IN
    IF same THEN UNCHANGED threads
    ELSE Step(t, IF cache[s.id] # Absent THEN "remove" ELSE "post", s)

getOrAddSong(id) ==
    /\ pc["loader"] = "idle" /\ hasRoom /\ id \in MediaIds /\ ~isLocked
    /\ Look("loader", Loaded(id))
    /\ UNCHANGED <<mediaStore, changed, cache, index, db, tasks, sync, history>>

RemoveFromCache(t) ==
    /\ pc[t] = "remove" /\ ~isLocked
    /\ removeFromCache(holding[t].id)
    /\ Step(t, "delete", holding[t])
    /\ UNCHANGED <<mediaStore, changed, db, tasks, sync, history>>

(* The rows go, also those of a song added since. *)
RemoveFromDatabase(t) ==
    /\ pc[t] = "delete"
    /\ LET id == holding[t].id IN
       /\ db' = [db EXCEPT ![id] = <<>>]
       /\ raced' = IF cache[id] = Absent THEN raced \ {id} ELSE raced \cup {id}
    /\ Step(t, "post", holding[t])
    /\ UNCHANGED <<mediaStore, changed, cache, index, tasks, sync, left, late, reused>>

addSongHolding(t) ==
    /\ pc[t] = "post"
    /\ tasks' = Append(tasks, Add(holding[t]))
    /\ late' = IF holding[t].version = mediaStore[holding[t].id] THEN late
               ELSE late \cup {holding[t].id}
    /\ pc' = [pc EXCEPT ![t] = "idle"]
    /\ UNCHANGED <<mediaStore, changed, cache, index, db, sync, holding, left, raced, reused>>

addSong(t) ==
    /\ pc[t] = "post"
    /\ tasks' = Append(tasks, Add(holding[t]))
    /\ late' = IF holding[t].version = mediaStore[holding[t].id] THEN late
               ELSE late \cup {holding[t].id}
    /\ Step(t, "idle", Absent)
    /\ UNCHANGED <<mediaStore, changed, cache, index, db, sync, left, raced, reused>>

(* A worker takes a song, and has a result for it. *)
Detect(id) ==
    /\ pc["worker"] = "idle" /\ hasRoom
    /\ cache[id] # Absent
    /\ Step("worker", "detect", cache[id])
    /\ UNCHANGED <<mediaStore, changed, cache, index, db, tasks, sync, history>>

updateSongInDatabase ==
    /\ pc["worker"] = "detect"
    /\ Step("worker", "remove", holding["worker"])
    /\ UNCHANGED <<mediaStore, changed, cache, index, db, tasks, sync, history>>

removeSongByPathFromCache(id) ==
    /\ ~isLocked
    /\ cache[id] # Absent
    /\ removeFromCache(id)
    /\ changed' = TRUE
    /\ UNCHANGED <<mediaStore, db, tasks, sync, threads, history>>

(* The tag editor, before it has the file scanned again. *)
removeSongByPath(id) ==
    /\ ~isLocked
    /\ cache[id] # Absent
    /\ removeFromCache(id)
    /\ db' = [db EXCEPT ![id] = <<>>] /\ raced' = raced \ {id}
    /\ changed' = TRUE
    /\ UNCHANGED <<mediaStore, tasks, sync, threads, left, late, reused>>

-----------------------------------------------------------------------------
(* The executor *)

atRest == syncing = "no" /\ pc["executor"] = "idle"
NextTask(op) == atRest /\ tasks # <<>> /\ Head(tasks).op = op /\ tasks' = Tail(tasks)

(* "Race condition check: If the song has been added -> skip". *)
isThere(s) == cache[s.id] # Absent

addSongImpl ==
    /\ NextTask("add")
    /\ LET s == Head(tasks).song IN
       IF isThere(s) THEN UNCHANGED <<cache, index, db, raced, reused>>
       ELSE /\ cache' = [cache EXCEPT ![s.id] = s]
            /\ addToGenre(s)
            /\ db' = [db EXCEPT ![s.id] = Append(@, s)]
            /\ raced' = IF db[s.id] = <<>> THEN raced \ {s.id} ELSE raced \cup {s.id}
    /\ UNCHANGED <<mediaStore, changed, sync, threads, left, late>>

StartSync ==
    /\ NextTask("sync")
    /\ syncing' = IF Head(tasks).reset THEN "clearDatabase" ELSE "load"
    /\ UNCHANGED <<mediaStore, changed, cache, index, db, remaining, allSongIds, threads,
                   history>>

ClearDatabase ==
    /\ syncing = "clearDatabase" /\ syncing' = "clearCache"
    /\ db' = [id \in Id |-> <<>>]
    /\ raced' = CacheIds
    /\ UNCHANGED <<mediaStore, changed, cache, index, tasks, remaining, allSongIds, threads,
                   left, late, reused>>

ClearCache ==
    /\ syncing = "clearCache" /\ syncing' = "load"
    /\ cache' = [id \in Id |-> Absent] /\ genreIds' = [g \in Genre |-> Absent]
    /\ songsByGenreId' = [i \in GenreIds |-> Absent]
    /\ raced' = {} /\ reused' = FALSE
    /\ UNCHANGED <<mediaStore, changed, db, tasks, remaining, allSongIds, threads,
                   left, late>>

(* The cursor of SongLoader.getAllSongs. *)
Load ==
    /\ syncing = "load" /\ syncing' = "query"
    /\ remaining' = { Loaded(id) : id \in MediaIds } /\ allSongIds' = MediaIds
    /\ late' = { id \in late : \E i \in 1 .. Len(tasks) :
                                 tasks[i].op = "add" /\ tasks[i].song.id = id }
    /\ UNCHANGED <<mediaStore, changed, cache, index, db, tasks, threads, left, raced, reused>>

Query ==
    /\ syncing = "query" /\ pc["executor"] = "idle"
    /\ \E s \in remaining :
          /\ remaining' = remaining \ {s}
          /\ Look("executor", s)
    /\ UNCHANGED <<mediaStore, changed, cache, index, db, tasks, syncing, allSongIds, history>>

NoOrphansAmong(ids) == {}

(* With the cache locked: orphans go, if any other song is there. *)
OrphansAmong(ids) == IF ids \cap allSongIds # {} THEN ids \ allSongIds ELSE {}

StartClean ==
    /\ syncing = "query" /\ remaining = {} /\ pc["executor"] = "idle"
    /\ syncing' = "clean"
    /\ remaining' = { cache[id] : id \in OrphansAmong(CacheIds) }
    /\ left' = IF CacheIds \cap allSongIds = {} THEN CacheIds ELSE {}
    /\ UNCHANGED <<mediaStore, changed, cache, index, db, tasks, allSongIds, threads,
                   raced, late, reused>>

Clean ==
    /\ syncing = "clean"
    /\ \E s \in remaining :
          /\ remaining' = remaining \ {s}
          /\ removeFromCache(s.id)
          /\ db' = [db EXCEPT ![s.id] = <<>>] /\ raced' = raced \ {s.id}
    /\ UNCHANGED <<mediaStore, changed, tasks, syncing, allSongIds, threads, left,
                   late, reused>>

FinishSync ==
    /\ syncing = "clean" /\ remaining = {}
    /\ syncing' = "no" /\ allSongIds' = {}
    /\ UNCHANGED <<mediaStore, changed, cache, index, db, tasks, remaining, threads, history>>

-----------------------------------------------------------------------------
Executor ==
    \/ addSongImpl \/ StartSync \/ ClearDatabase \/ ClearCache
    \/ Load \/ Query \/ StartClean \/ Clean \/ FinishSync

Callers ==
    \/ \E id \in Id : getOrAddSong(id) \/ Detect(id) \/ removeSongByPath(id)
    \/ \E reset \in BOOLEAN : triggerSyncWithMediaStore(reset)

Next ==
    \/ Executor \/ Callers \/ updateSongInDatabase \/ Restart
    \/ \E t \in Threads : RemoveFromCache(t) \/ RemoveFromDatabase(t) \/ addSong(t)
    \/ \E id \in Id : Change(id)

Spec == Init /\ [][Next]_vars

-----------------------------------------------------------------------------
FilesOK ==
    /\ mediaStore \in [Id -> Version \cup {Absent}] /\ changed \in BOOLEAN
    /\ \A id \in Id : mediaStore[id] \in Versions(id) \cup {Absent}
SongsOK ==
    /\ cache \in [Id -> Song \cup {Absent}] /\ db \in [Id -> Seq(Song)]
    /\ \A id \in Id : /\ cache[id] # Absent => cache[id].id = id
                      /\ \A i \in 1 .. Len(db[id]) : db[id][i].id = id
GenresOK ==
    /\ genreIds \in [Genre -> GenreIds \cup {Absent}]
    /\ songsByGenreId \in [GenreIds -> (SUBSET Id) \cup {Absent}]
Tasks == { Sync(r) : r \in BOOLEAN } \cup { Add(s) : s \in Song }
SyncOK ==
    /\ tasks \in Seq(Tasks)
    /\ syncing \in {"no", "clearDatabase", "clearCache", "load", "query", "clean"}
    /\ remaining \subseteq Song /\ allSongIds \subseteq Id
ThreadsOK ==
    /\ pc \in [Threads -> {"idle", "detect", "remove", "delete", "post"}]
    /\ holding \in [Threads -> Song \cup {Absent}]
    /\ \A t \in Threads : pc[t] = "idle" <=> holding[t] = Absent
HistoryOK == left \subseteq Id /\ raced \subseteq Id /\ late \subseteq Id /\ reused \in BOOLEAN

(* Every variable has its type, songs are under their own ids, and a thread *)
(* holds a song exactly while it works.                                     *)
TypeOK == FilesOK /\ SongsOK /\ GenresOK /\ SyncOK /\ ThreadsOK /\ HistoryOK

Quiet ==
    /\ tasks = <<>> /\ syncing = "no" /\ ~changed
    /\ \A t \in Threads : pc[t] = "idle"

(* Whatever loads, detections, edits, synchronisations and restarts came    *)
(* together, at rest the database holds what the cache holds, one row a     *)
(* song, so that the next start shows the same.  Excepted are songs added   *)
(* between the two steps of removeSongById.                                 *)
QuietCacheMatchesDatabase ==
    Quiet => \A id \in Id \ raced :
                db[id] = IF cache[id] = Absent THEN <<>> ELSE <<cache[id]>>

(* The synchronisations started by changes catch up with them: at rest the  *)
(* songs are those of MediaStore, each in its version there, unless a       *)
(* thread added an outdated one since, and an orphan stays only if no       *)
(* cached song was in MediaStore (syncWithMediaStore).                      *)
MediaStoreIsShown ==
    Quiet =>
        \A id \in Id \ late :
           IF mediaStore[id] = Absent THEN id \in left \/ cache[id] = Absent
           ELSE cache[id] # Absent /\ cache[id].version = mediaStore[id]

(* Each genre lists the cached songs of that genre and is there as long as  *)
(* one is, until a new genre takes an id in use (MemCache).                 *)
GenresListTheirSongs ==
    reused \/ \A g \in Genre :
        LET songs == { id \in CacheIds : GenreOf[id][cache[id].version] = g } IN
        IF genreIds[g] = Absent THEN songs = {}
        ELSE songs # {} /\ songsByGenreId[genreIds[g]] = songs

=============================================================================
