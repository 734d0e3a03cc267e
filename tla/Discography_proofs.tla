------------------------- MODULE Discography_proofs -------------------------
(***************************************************************************)
(* Proofs about Discography, for any songs, versions and genres: type      *)
(* correctness, that the database follows the cache, that each genre lists *)
(* its songs, and that the songs shown are those of MediaStore.            *)
(***************************************************************************)
EXTENDS Discography, FiniteSetTheorems, TLAPS

-----------------------------------------------------------------------------
(* Songs, genres and their ids.                                             *)

LEMMA SongType ==
    ASSUME NEW s \in Song
    PROVE  /\ s # Absent /\ s.id \in Id /\ s.version \in Version
           /\ s.version \in Versions(s.id) /\ GenreOf[s.id][s.version] \in Genre
<1>1. s \in [id : Id, version : Version] /\ s.version \in DOMAIN GenreOf[s.id]
  BY DEF Song, Versions
<1>2. PICK vs \in SUBSET Version : GenreOf[s.id] \in [vs -> Genre]
  BY <1>1, GenreAssumption
<1> QED BY <1>1, <1>2, AbsentAssumption DEF Versions

LEMMA VersionsType == ASSUME NEW id \in Id PROVE Versions(id) \subseteq Version
<1>1. PICK vs \in SUBSET Version : GenreOf[id] \in [vs -> Genre]
  BY GenreAssumption
<1> QED BY <1>1 DEF Versions

LEMMA LoadedType ==
    ASSUME FilesOK, NEW id \in MediaIds
    PROVE  Loaded(id) \in Song
<1>1. id \in Id /\ mediaStore[id] \in Versions(id)
  BY DEF MediaIds, FilesOK
<1>2. mediaStore[id] \in Version
  BY <1>1, VersionsType
<1> QED BY <1>1, <1>2 DEF Loaded, Song

LEMMA CachedType ==
    ASSUME SongsOK, NEW id \in Id, cache[id] # Absent
    PROVE  cache[id] \in Song /\ cache[id].id = id
  BY DEF SongsOK

LEMMA FewGenres ==
    ASSUME NEW S \in SUBSET Genre
    PROVE  /\ IsFiniteSet(S) /\ Cardinality(S) \in Nat /\ Cardinality(S) \in GenreIds
           /\ 0 .. Cardinality(S) - 1 \subseteq GenreIds
<1>1. IsFiniteSet(Genre) /\ IsFiniteSet(S) /\ Cardinality(S) <= Cardinality(Genre)
  BY GenreAssumption, FS_Subset
<1>2. Cardinality(S) \in Nat /\ Cardinality(Genre) \in Nat
  BY <1>1, FS_CardinalityType
<1> QED BY <1>1, <1>2 DEF GenreIds

LEMMA GenresAdd ==
    ASSUME GenresOK, NEW s \in Song, addToGenre(s), reused \in BOOLEAN
    PROVE  GenresOK' /\ reused' \in BOOLEAN
<1> DEFINE g == GenreOf[s.id][s.version]
           i == GenreId(s, genreIds)
           list == IF genreIds[g] = Absent THEN {} ELSE songsByGenreId[i]
<1>1. g \in Genre /\ s.id \in Id
  BY SongType
<1>2. i \in GenreIds
  <2>1. { h \in Genre : genreIds[h] # Absent } \in SUBSET Genre
    OBVIOUS
  <2> QED BY <1>1, <2>1, FewGenres DEF GenreId, GenresOK
<1>3. list \in (SUBSET Id) \cup {Absent}
  BY <1>2 DEF GenresOK
<1>4. (IF list = Absent THEN Absent ELSE list \cup {s.id}) \in (SUBSET Id) \cup {Absent}
  BY <1>1, <1>3
<1>5. /\ genreIds' = [genreIds EXCEPT ![g] = i]
      /\ songsByGenreId' = [songsByGenreId EXCEPT ![i] =
                               IF list = Absent THEN Absent ELSE list \cup {s.id}]
      /\ reused' = (reused \/ (genreIds[g] = Absent /\ songsByGenreId[i] # Absent))
  BY DEF addToGenre
<1> HIDE DEF g, i, list
<1>6. genreIds' \in [Genre -> GenreIds \cup {Absent}]
  BY <1>1, <1>2, <1>5 DEF GenresOK
<1>7. songsByGenreId' \in [GenreIds -> (SUBSET Id) \cup {Absent}]
  BY <1>2, <1>4, <1>5 DEF GenresOK
<1>8. reused' \in BOOLEAN
  BY <1>5
<1> QED BY <1>6, <1>7, <1>8 DEF GenresOK

LEMMA GenresRemove ==
    ASSUME SongsOK, GenresOK, NEW id \in Id, removeFromCache(id)
    PROVE  GenresOK'
<1>1. CASE cache[id] = Absent
  BY <1>1 DEF removeFromCache, GenresOK, index
<1>2. CASE cache[id] # Absent
  <2>1. cache[id] \in Song
    BY <1>2, CachedType
  <2>2. GenreOf[cache[id].id][cache[id].version] \in Genre
    BY <2>1, SongType
  <2>3. genreIds' \in [Genre -> GenreIds \cup {Absent}]
    BY <1>2, <2>2 DEF removeFromCache, IdsWithout, GenresOK
  <2>4. songsByGenreId' \in [GenreIds -> (SUBSET Id) \cup {Absent}]
    BY <1>2, <2>2 DEF removeFromCache, ListsWithout, GenresOK
  <2> QED BY <2>3, <2>4 DEF GenresOK
<1> QED BY <1>1, <1>2

LEMMA SongsRemove ==
    ASSUME SongsOK, NEW id \in Id, removeFromCache(id),
           db' = db \/ db' = [db EXCEPT ![id] = <<>>]
    PROVE  SongsOK'
<1>1. cache' \in [Id -> Song \cup {Absent}] /\ db' \in [Id -> Seq(Song)]
  <2>1. <<>> \in Seq(Song)
    OBVIOUS
  <2>2. db' \in [Id -> Seq(Song)]
    BY <2>1 DEF SongsOK
  <2>3. cache' \in [Id -> Song \cup {Absent}]
    BY DEF removeFromCache, SongsOK
  <2> QED BY <2>2, <2>3
<1>2. \A j \in Id : cache'[j] # Absent => cache'[j].id = j
  BY DEF removeFromCache, SongsOK
<1>3. \A j \in Id : \A i \in 1 .. Len(db'[j]) : db'[j][i].id = j
  <2> SUFFICES ASSUME NEW j \in Id, NEW i \in 1 .. Len(db'[j]) PROVE db'[j][i].id = j
    OBVIOUS
  <2>1. db'[j] = db[j] \/ db'[j] = <<>>
    BY DEF SongsOK
  <2>2. db'[j] # <<>>
    OBVIOUS
  <2> QED BY <2>1, <2>2 DEF SongsOK
<1> QED BY <1>1, <1>2, <1>3 DEF SongsOK

LEMMA FetchType ==
    ASSUME SongsOK, Fetch(db), db' = db
    PROVE  SongsOK' /\ GenresOK'
<1> DEFINE genreOf(id) == GenreOf[id][Head(db[id]).version]
           ids == { id \in Id : db[id] # <<>> }
           genres == { genreOf(id) : id \in ids }
<1>1. \A id \in ids : Head(db[id]) \in Song /\ Head(db[id]).id = id
  <2> SUFFICES ASSUME NEW id \in ids PROVE Head(db[id]) \in Song /\ Head(db[id]).id = id
    OBVIOUS
  <2>1. id \in Id /\ db[id] \in Seq(Song) /\ db[id] # <<>>
    BY DEF SongsOK
  <2>2. Head(db[id]) = db[id][1] /\ 1 \in 1 .. Len(db[id]) /\ Head(db[id]) \in Song
    BY <2>1
  <2> QED BY <2>1, <2>2 DEF SongsOK
<1>2. genres \in SUBSET Genre
  BY <1>1, SongType
<1>3. SongsOK'
  <2>1. cache' = [id \in Id |-> IF db[id] = <<>> THEN Absent ELSE Head(db[id])]
    BY DEF Fetch
  <2>2. \A id \in Id : /\ cache'[id] \in Song \cup {Absent}
                       /\ cache'[id] # Absent => cache'[id].id = id
    BY <1>1, <2>1
  <2> QED BY <2>1, <2>2 DEF SongsOK
<1>4. PICK number \in [genres -> 0 .. Cardinality(genres) - 1] :
        /\ genreIds' = [g \in Genre |-> IF g \in genres THEN number[g] ELSE Absent]
        /\ songsByGenreId' = [i \in GenreIds |->
                                IF \E g \in genres : number[g] = i
                                THEN { id \in ids : number[genreOf(id)] = i } ELSE Absent]
  BY DEF Fetch
<1>5. 0 .. Cardinality(genres) - 1 \subseteq GenreIds
  BY <1>2, FewGenres
<1> HIDE DEF genres
<1>6. genreIds' \in [Genre -> GenreIds \cup {Absent}]
  BY <1>4, <1>5
<1>7. songsByGenreId' \in [GenreIds -> (SUBSET Id) \cup {Absent}]
  BY <1>4
<1> QED BY <1>3, <1>6, <1>7 DEF GenresOK

LEMMA OneElement ==
    ASSUME NEW T, NEW e \in T
    PROVE  <<e>> \in Seq(T)
  OBVIOUS

LEMMA OneSync == <<Sync(FALSE)>> \in Seq(Tasks)
<1>1. Sync(FALSE) \in { Sync(r) : r \in BOOLEAN }
  BY Zenon
<1>2. Sync(FALSE) \in Tasks
  BY <1>1 DEF Tasks
<1> QED BY <1>2, OneElement

LEMMA TaskTypes ==
    ASSUME SyncOK
    PROVE  /\ \A s \in Song : Append(tasks, Add(s)) \in Seq(Tasks)
           /\ \A r \in BOOLEAN : Append(tasks, Sync(r)) \in Seq(Tasks)
           /\ tasks # <<>> => Tail(tasks) \in Seq(Tasks)
           /\ tasks # <<>> /\ Head(tasks).op = "add" => Head(tasks).song \in Song
<1>1. tasks \in Seq(Tasks)
  BY DEF SyncOK
<1>2. \A s \in Song : Add(s) \in Tasks
  BY DEF Tasks
<1>3. \A r \in BOOLEAN : Sync(r) \in Tasks
  BY DEF Tasks
<1>4. \A m \in Tasks : m.op = "add" => m.song \in Song
  BY DEF Tasks, Sync, Add
<1>5. tasks # <<>> => Tail(tasks) \in Seq(Tasks) /\ Head(tasks) \in Tasks
  BY <1>1
<1> QED BY <1>1, <1>2, <1>3, <1>4, <1>5

LEMMA LookType ==
    ASSUME ThreadsOK, NEW t \in Threads, NEW s \in Song, Look(t, s)
    PROVE  ThreadsOK'
<1>1. s # Absent
  BY SongType
<1> QED BY <1>1 DEF Look, Step, ThreadsOK, threads

LEMMA HeldSong ==
    ASSUME ThreadsOK, NEW t \in Threads, pc[t] # "idle"
    PROVE  holding[t] \in Song /\ holding[t].id \in Id
<1>1. holding[t] \in Song
  BY DEF ThreadsOK
<1> QED BY <1>1, SongType

-----------------------------------------------------------------------------
(* Type correctness, one lemma per action.                                  *)

LEMMA TypeInit == Init => TypeOK
<1> SUFFICES ASSUME Init PROVE TypeOK
  OBVIOUS
<1>1. FilesOK
  BY DEF Init, FilesOK
<1>2. SongsOK
  BY DEF Init, SongsOK
<1>3. GenresOK
  BY DEF Init, GenresOK
<1>4. SyncOK
  BY OneSync DEF Init, SyncOK
<1>5. ThreadsOK
  BY DEF Init, ThreadsOK
<1>6. HistoryOK
  BY DEF Init, HistoryOK
<1> QED BY <1>1, <1>2, <1>3, <1>4, <1>5, <1>6 DEF TypeOK

LEMMA Type_getOrAddSong ==
    ASSUME TypeOK, NEW id \in Id, getOrAddSong(id)
    PROVE  TypeOK'
<1>1. FilesOK' /\ SongsOK' /\ GenresOK' /\ SyncOK' /\ HistoryOK'
  BY DEF TypeOK, FilesOK, SongsOK, GenresOK, SyncOK, HistoryOK, getOrAddSong, index, sync,
     history
<1>2. ThreadsOK'
  <2>1. Loaded(id) \in Song
    BY LoadedType DEF TypeOK, getOrAddSong
  <2> QED BY <2>1, LookType DEF TypeOK, getOrAddSong, Threads
<1> QED BY <1>1, <1>2 DEF TypeOK

LEMMA Type_Detect ==
    ASSUME TypeOK, NEW id \in Id, Detect(id)
    PROVE  TypeOK'
<1>1. FilesOK' /\ SongsOK' /\ GenresOK' /\ SyncOK' /\ HistoryOK'
  BY DEF TypeOK, FilesOK, SongsOK, GenresOK, SyncOK, HistoryOK, Detect, index, sync, history
<1>2. ThreadsOK'
  <2>1. cache[id] \in Song
    BY CachedType DEF TypeOK, Detect
  <2>2. cache[id] # Absent
    BY DEF Detect
  <2> QED BY <2>1, <2>2 DEF TypeOK, ThreadsOK, Threads, Detect, Step
<1> QED BY <1>1, <1>2 DEF TypeOK

LEMMA Type_removeSongByPath ==
    ASSUME TypeOK, NEW id \in Id, removeSongByPath(id)
    PROVE  TypeOK'
<1>1. SyncOK' /\ ThreadsOK'
  BY DEF TypeOK, SyncOK, ThreadsOK, removeSongByPath, sync, threads
<1>2. FilesOK'
  BY DEF TypeOK, FilesOK, removeSongByPath
<1>3. SongsOK'
  BY SongsRemove DEF TypeOK, removeSongByPath
<1>4. GenresOK'
  BY GenresRemove DEF TypeOK, removeSongByPath
<1>5. HistoryOK'
  BY DEF TypeOK, HistoryOK, removeSongByPath
<1> QED BY <1>1, <1>2, <1>3, <1>4, <1>5 DEF TypeOK

LEMMA Type_triggerSyncWithMediaStore ==
    ASSUME TypeOK, NEW reset \in BOOLEAN, triggerSyncWithMediaStore(reset)
    PROVE  TypeOK'
<1>1. SongsOK' /\ GenresOK' /\ ThreadsOK' /\ HistoryOK'
  BY DEF TypeOK, SongsOK, GenresOK, ThreadsOK, HistoryOK, triggerSyncWithMediaStore, index,
     threads
<1>2. FilesOK'
  BY DEF TypeOK, FilesOK, triggerSyncWithMediaStore
<1>3. SyncOK'
  BY TaskTypes DEF TypeOK, SyncOK, triggerSyncWithMediaStore, sync
<1> QED BY <1>1, <1>2, <1>3 DEF TypeOK

LEMMA Type_addSongImpl ==
    ASSUME TypeOK, addSongImpl
    PROVE  TypeOK'
<1>1. FilesOK' /\ ThreadsOK'
  BY DEF TypeOK, FilesOK, ThreadsOK, addSongImpl, threads
<1>2. SongsOK'
  <2>1. Head(tasks).song \in Song /\ Head(tasks).song.id \in Id
    BY TaskTypes, SongType DEF TypeOK, addSongImpl, NextTask
  <2>2. CASE isThere(Head(tasks).song)
    BY <2>2 DEF TypeOK, SongsOK, addSongImpl
  <2>3. CASE ~isThere(Head(tasks).song)
    <3> DEFINE s == Head(tasks).song
    <3>1. cache' = [cache EXCEPT ![s.id] = s] /\ db' = [db EXCEPT ![s.id] = Append(db[s.id], s)]
      BY <2>3 DEF addSongImpl
    <3>2. s \in Song /\ s.id \in Id
      BY <2>1
    <3> HIDE DEF s
    <3>3. cache' \in [Id -> Song \cup {Absent}] /\ db' \in [Id -> Seq(Song)]
      BY <3>1, <3>2 DEF TypeOK, SongsOK
    <3>4. \A j \in Id : cache'[j] # Absent => cache'[j].id = j
      BY <3>1, <3>2 DEF TypeOK, SongsOK
    <3>5. \A j \in Id : \A i \in 1 .. Len(db'[j]) : db'[j][i].id = j
      <4> SUFFICES ASSUME NEW j \in Id, NEW i \in 1 .. Len(db'[j]) PROVE db'[j][i].id = j
        OBVIOUS
      <4>1. db[j] \in Seq(Song) /\ \A k \in 1 .. Len(db[j]) : db[j][k].id = j
        BY DEF TypeOK, SongsOK
      <4>2. CASE j # s.id
        BY <3>1, <3>2, <4>1, <4>2 DEF TypeOK, SongsOK
      <4>3. CASE j = s.id
        <5>1. db'[j] = Append(db[j], s)
          BY <3>1, <3>2, <4>3 DEF TypeOK, SongsOK
        <5> QED BY <3>2, <4>1, <4>3, <5>1
      <4> QED BY <4>2, <4>3
    <3> QED BY <3>3, <3>4, <3>5 DEF SongsOK
  <2> QED BY <2>2, <2>3
<1>3. GenresOK' /\ HistoryOK'
  <2>1. Head(tasks).song \in Song /\ Head(tasks).song.id \in Id
    BY TaskTypes, SongType DEF TypeOK, addSongImpl, NextTask
  <2>2. CASE isThere(Head(tasks).song)
    BY <2>2 DEF TypeOK, GenresOK, HistoryOK, addSongImpl, index
  <2>3. CASE ~isThere(Head(tasks).song)
    <3>1. GenresOK' /\ reused' \in BOOLEAN
      BY <2>1, <2>3, GenresAdd DEF TypeOK, HistoryOK, addSongImpl
    <3>2. raced' \subseteq Id /\ left' \subseteq Id /\ late' \subseteq Id
      BY <2>1, <2>3 DEF TypeOK, HistoryOK, addSongImpl
    <3> QED BY <3>1, <3>2 DEF HistoryOK
  <2> QED BY <2>2, <2>3
<1>4. SyncOK'
  BY TaskTypes DEF TypeOK, SyncOK, addSongImpl, NextTask, sync
<1> QED BY <1>1, <1>2, <1>3, <1>4 DEF TypeOK

LEMMA Type_StartSync ==
    ASSUME TypeOK, StartSync
    PROVE  TypeOK'
<1>1. FilesOK' /\ SongsOK' /\ GenresOK' /\ ThreadsOK' /\ HistoryOK'
  BY DEF TypeOK, FilesOK, SongsOK, GenresOK, ThreadsOK, HistoryOK, StartSync, index,
     threads, history
<1>2. SyncOK'
  BY TaskTypes DEF TypeOK, SyncOK, StartSync, NextTask
<1> QED BY <1>1, <1>2 DEF TypeOK

LEMMA Type_ClearDatabase ==
    ASSUME TypeOK, ClearDatabase
    PROVE  TypeOK'
<1>1. FilesOK' /\ GenresOK' /\ ThreadsOK'
  BY DEF TypeOK, FilesOK, GenresOK, ThreadsOK, ClearDatabase, index, threads
<1>2. SongsOK'
  BY DEF TypeOK, SongsOK, ClearDatabase
<1>3. SyncOK'
  BY DEF TypeOK, SyncOK, ClearDatabase
<1>4. HistoryOK'
  BY DEF TypeOK, HistoryOK, ClearDatabase, CacheIds
<1> QED BY <1>1, <1>2, <1>3, <1>4 DEF TypeOK

LEMMA Type_ClearCache ==
    ASSUME TypeOK, ClearCache
    PROVE  TypeOK'
<1>1. FilesOK' /\ ThreadsOK'
  BY DEF TypeOK, FilesOK, ThreadsOK, ClearCache, threads
<1>2. SongsOK'
  BY DEF TypeOK, SongsOK, ClearCache
<1>3. GenresOK'
  BY DEF TypeOK, GenresOK, ClearCache
<1>4. SyncOK'
  BY DEF TypeOK, SyncOK, ClearCache
<1>5. HistoryOK'
  BY DEF TypeOK, HistoryOK, ClearCache
<1> QED BY <1>1, <1>2, <1>3, <1>4, <1>5 DEF TypeOK

LEMMA Type_Load ==
    ASSUME TypeOK, Load
    PROVE  TypeOK'
<1>1. FilesOK' /\ SongsOK' /\ GenresOK' /\ ThreadsOK'
  BY DEF TypeOK, FilesOK, SongsOK, GenresOK, ThreadsOK, Load, index, threads
<1>2. SyncOK'
  BY LoadedType DEF TypeOK, SyncOK, Load, MediaIds
<1>3. HistoryOK'
  BY DEF TypeOK, HistoryOK, Load
<1> QED BY <1>1, <1>2, <1>3 DEF TypeOK

LEMMA Type_Query ==
    ASSUME TypeOK, Query
    PROVE  TypeOK'
<1>1. FilesOK' /\ SongsOK' /\ GenresOK' /\ HistoryOK'
  BY DEF TypeOK, FilesOK, SongsOK, GenresOK, HistoryOK, Query, index, history
<1>2. SyncOK'
  BY DEF TypeOK, SyncOK, Query
<1>3. ThreadsOK'
  BY LookType DEF TypeOK, SyncOK, Query, Threads
<1> QED BY <1>1, <1>2, <1>3 DEF TypeOK

LEMMA Type_StartClean ==
    ASSUME TypeOK, StartClean
    PROVE  TypeOK'
<1>1. FilesOK' /\ SongsOK' /\ GenresOK' /\ ThreadsOK'
  BY DEF TypeOK, FilesOK, SongsOK, GenresOK, ThreadsOK, StartClean, index, threads
<1>2. SyncOK'
  BY CachedType DEF TypeOK, SyncOK, StartClean, OrphansAmong, CacheIds
<1>3. HistoryOK'
  BY DEF TypeOK, HistoryOK, StartClean, CacheIds
<1> QED BY <1>1, <1>2, <1>3 DEF TypeOK

LEMMA Type_Clean ==
    ASSUME TypeOK, Clean
    PROVE  TypeOK'
<1>0. PICK s \in remaining :
        /\ remaining' = remaining \ {s} /\ removeFromCache(s.id)
        /\ db' = [db EXCEPT ![s.id] = <<>>] /\ raced' = raced \ {s.id}
  BY DEF Clean
<1>a. s \in Song /\ s.id \in Id
  BY SongType DEF TypeOK, SyncOK
<1>1. FilesOK' /\ ThreadsOK'
  BY DEF TypeOK, FilesOK, ThreadsOK, Clean, threads
<1>2. SongsOK'
  BY <1>0, <1>a, SongsRemove DEF TypeOK
<1>3. GenresOK'
  BY <1>0, <1>a, GenresRemove DEF TypeOK
<1>4. SyncOK'
  BY <1>0 DEF TypeOK, SyncOK, Clean
<1>5. HistoryOK'
  BY <1>0 DEF TypeOK, HistoryOK, Clean
<1> QED BY <1>1, <1>2, <1>3, <1>4, <1>5 DEF TypeOK

LEMMA Type_FinishSync ==
    ASSUME TypeOK, FinishSync
    PROVE  TypeOK'
<1>1. FilesOK' /\ SongsOK' /\ GenresOK' /\ ThreadsOK' /\ HistoryOK'
  BY DEF TypeOK, FilesOK, SongsOK, GenresOK, ThreadsOK, HistoryOK, FinishSync, index,
     threads, history
<1>2. SyncOK'
  BY DEF TypeOK, SyncOK, FinishSync
<1> QED BY <1>1, <1>2 DEF TypeOK

LEMMA Type_updateSongInDatabase ==
    ASSUME TypeOK, updateSongInDatabase
    PROVE  TypeOK'
<1>1. FilesOK' /\ SongsOK' /\ GenresOK' /\ SyncOK' /\ HistoryOK'
  BY DEF TypeOK, FilesOK, SongsOK, GenresOK, SyncOK, HistoryOK, updateSongInDatabase, index,
     sync, history
<1>2. ThreadsOK'
  BY DEF TypeOK, ThreadsOK, updateSongInDatabase, Threads, Step
<1> QED BY <1>1, <1>2 DEF TypeOK

LEMMA Type_RemoveFromCache ==
    ASSUME TypeOK, NEW t \in Threads, RemoveFromCache(t)
    PROVE  TypeOK'
<1>0. holding[t] \in Song /\ holding[t].id \in Id
  BY HeldSong DEF TypeOK, RemoveFromCache
<1>1. FilesOK' /\ SyncOK' /\ HistoryOK'
  BY DEF TypeOK, FilesOK, SyncOK, HistoryOK, RemoveFromCache, sync, history
<1>2. SongsOK'
  BY <1>0, SongsRemove DEF TypeOK, RemoveFromCache
<1>3. GenresOK'
  BY <1>0, GenresRemove DEF TypeOK, RemoveFromCache
<1>4. ThreadsOK'
  BY <1>0, SongType DEF TypeOK, ThreadsOK, RemoveFromCache, Step
<1> QED BY <1>1, <1>2, <1>3, <1>4 DEF TypeOK

LEMMA Type_RemoveFromDatabase ==
    ASSUME TypeOK, NEW t \in Threads, RemoveFromDatabase(t)
    PROVE  TypeOK'
<1>0. holding[t] \in Song /\ holding[t].id \in Id
  BY HeldSong DEF TypeOK, RemoveFromDatabase
<1>1. FilesOK' /\ GenresOK' /\ SyncOK'
  BY DEF TypeOK, FilesOK, GenresOK, SyncOK, RemoveFromDatabase, index, sync
<1>2. SongsOK'
  BY <1>0 DEF TypeOK, SongsOK, RemoveFromDatabase
<1>3. ThreadsOK'
  BY <1>0, SongType DEF TypeOK, ThreadsOK, RemoveFromDatabase, Step
<1>4. HistoryOK'
  BY <1>0 DEF TypeOK, HistoryOK, RemoveFromDatabase
<1> QED BY <1>1, <1>2, <1>3, <1>4 DEF TypeOK

LEMMA Type_addSong ==
    ASSUME TypeOK, NEW t \in Threads, addSong(t)
    PROVE  TypeOK'
<1>0. holding[t] \in Song /\ holding[t].id \in Id
  BY HeldSong DEF TypeOK, addSong
<1>1. FilesOK' /\ SongsOK' /\ GenresOK'
  BY DEF TypeOK, FilesOK, SongsOK, GenresOK, addSong, index
<1>2. SyncOK'
  BY <1>0, TaskTypes DEF TypeOK, SyncOK, addSong, sync
<1>3. ThreadsOK'
  BY DEF TypeOK, ThreadsOK, addSong, Step
<1>4. HistoryOK'
  BY <1>0 DEF TypeOK, HistoryOK, addSong
<1> QED BY <1>1, <1>2, <1>3, <1>4 DEF TypeOK

LEMMA Type_Change ==
    ASSUME TypeOK, NEW id \in Id, Change(id)
    PROVE  TypeOK'
<1>1. SongsOK' /\ GenresOK' /\ SyncOK' /\ ThreadsOK' /\ HistoryOK'
  BY DEF TypeOK, SongsOK, GenresOK, SyncOK, ThreadsOK, HistoryOK, Change, index, sync,
     threads
<1>2. FilesOK'
  BY VersionsType DEF TypeOK, FilesOK, Change
<1> QED BY <1>1, <1>2 DEF TypeOK

LEMMA Type_Restart ==
    ASSUME TypeOK, Restart
    PROVE  TypeOK'
<1>0. SongsOK' /\ GenresOK'
  BY FetchType DEF TypeOK, Restart
<1>1. FilesOK'
  BY DEF TypeOK, FilesOK, Restart
<1>2. SongsOK' /\ GenresOK'
  BY <1>0
<1>3. SyncOK'
  BY OneSync DEF SyncOK, Restart
<1>4. ThreadsOK'
  BY DEF TypeOK, ThreadsOK, Restart
<1>5. HistoryOK'
  BY DEF TypeOK, HistoryOK, Restart
<1> QED BY <1>1, <1>2, <1>3, <1>4, <1>5 DEF TypeOK

LEMMA TypeStep == TypeOK /\ [Next]_vars => TypeOK'
<1> SUFFICES ASSUME TypeOK, [Next]_vars PROVE TypeOK'
  OBVIOUS
<1>1. CASE UNCHANGED vars
  BY <1>1 DEF TypeOK, FilesOK, SongsOK, GenresOK, SyncOK, ThreadsOK, HistoryOK, vars, index,
     sync, threads, history
<1>2. CASE Executor
  BY <1>2, Type_addSongImpl, Type_StartSync, Type_ClearDatabase, Type_ClearCache, Type_Load,
     Type_Query, Type_StartClean, Type_Clean, Type_FinishSync DEF Executor
<1>3. CASE Callers
  BY <1>3, Type_getOrAddSong, Type_Detect, Type_removeSongByPath,
     Type_triggerSyncWithMediaStore DEF Callers
<1>4. CASE updateSongInDatabase \/ Restart
  BY <1>4, Type_updateSongInDatabase, Type_Restart
<1>5. ASSUME NEW t \in Threads, RemoveFromCache(t) \/ RemoveFromDatabase(t) \/ addSong(t)
      PROVE  TypeOK'
  BY <1>5, Type_RemoveFromCache, Type_RemoveFromDatabase, Type_addSong
<1>6. ASSUME NEW id \in Id, Change(id)
      PROVE  TypeOK'
  BY <1>6, Type_Change
<1> QED BY <1>1, <1>2, <1>3, <1>4, <1>5, <1>6 DEF Next

(* Every variable keeps its type: songs are under their ids, a genre's id   *)
(* is below the number of genres, and a thread holds a song while it works. *)
THEOREM TypeCorrect == Spec => []TypeOK
<1> QED BY TypeInit, TypeStep, PTL DEF Spec

-----------------------------------------------------------------------------
(* The database follows the cache.                                          *)

(* What the database should hold of a song. *)
Expected(id) == IF cache[id] = Absent THEN <<>> ELSE <<cache[id]>>

(* A song taken out of the cache whose rows are still to go. *)
Removing(id) == \E t \in Threads : pc[t] = "delete" /\ holding[t].id = id

InStep ==
    \A id \in Id \ raced : db[id] = Expected(id) \/ (cache[id] = Absent /\ Removing(id))

(* A synchronisation with reset clears the cache after the database. *)
Emptied == syncing = "clearCache" => \A id \in Id : db[id] = <<>>

StoreInv == TypeOK /\ InStep /\ Emptied

LEMMA Store_getOrAddSong ==
    ASSUME StoreInv, NEW id \in Id, getOrAddSong(id)
    PROVE  InStep' /\ Emptied'
<1>1. UNCHANGED <<cache, db>> /\ raced' = raced
  BY DEF getOrAddSong, history
<1>2. \A t \in Threads : pc[t] = "delete" => pc'[t] = "delete" /\ holding'[t] = holding[t]
  BY DEF StoreInv, TypeOK, ThreadsOK, Threads, getOrAddSong, threads, Look, Step
<1>3. InStep'
  BY <1>1, <1>2 DEF StoreInv, InStep, Expected, Removing
<1>4. Emptied'
  BY <1>1 DEF StoreInv, Emptied, getOrAddSong, sync
<1> QED BY <1>3, <1>4

LEMMA Store_Detect ==
    ASSUME StoreInv, NEW id \in Id, Detect(id)
    PROVE  InStep' /\ Emptied'
<1>1. UNCHANGED <<cache, db>> /\ raced' = raced
  BY DEF Detect, history
<1>2. \A t \in Threads : pc[t] = "delete" => pc'[t] = "delete" /\ holding'[t] = holding[t]
  BY DEF StoreInv, TypeOK, ThreadsOK, Threads, Detect, Step
<1>3. InStep'
  BY <1>1, <1>2 DEF StoreInv, InStep, Expected, Removing
<1>4. Emptied'
  BY <1>1 DEF StoreInv, Emptied, Detect, sync
<1> QED BY <1>3, <1>4

LEMMA Store_removeSongByPath ==
    ASSUME StoreInv, NEW id \in Id, removeSongByPath(id)
    PROVE  InStep' /\ Emptied'
<1>1. /\ cache' = [cache EXCEPT ![id] = Absent] /\ db' = [db EXCEPT ![id] = <<>>]
      /\ raced' = raced \ {id} /\ UNCHANGED <<pc, holding, syncing>>
  BY DEF removeSongByPath, removeFromCache, threads, sync
<1>2. InStep'
  <2> SUFFICES ASSUME NEW j \in Id \ raced'
      PROVE (db[j] = Expected(j) \/ (cache[j] = Absent /\ Removing(j)))'
    BY DEF InStep
  <2>1. CASE j = id
    BY <1>1, <2>1 DEF StoreInv, TypeOK, SongsOK, Expected
  <2>2. CASE j # id
    BY <1>1, <2>2 DEF StoreInv, TypeOK, SongsOK, InStep, Expected, Removing
  <2> QED BY <2>1, <2>2
<1>3. Emptied'
  BY <1>1 DEF StoreInv, TypeOK, SongsOK, Emptied
<1> QED BY <1>2, <1>3

LEMMA Store_triggerSyncWithMediaStore ==
    ASSUME StoreInv, NEW reset \in BOOLEAN, triggerSyncWithMediaStore(reset)
    PROVE  InStep' /\ Emptied'
<1>1. UNCHANGED <<cache, db>> /\ raced' = raced
  BY DEF triggerSyncWithMediaStore
<1>2. \A t \in Threads : pc[t] = "delete" => pc'[t] = "delete" /\ holding'[t] = holding[t]
  BY DEF StoreInv, TypeOK, ThreadsOK, Threads, triggerSyncWithMediaStore, threads
<1>3. InStep'
  BY <1>1, <1>2 DEF StoreInv, InStep, Expected, Removing
<1>4. Emptied'
  BY <1>1 DEF StoreInv, Emptied, triggerSyncWithMediaStore, sync
<1> QED BY <1>3, <1>4

LEMMA Store_addSongImpl ==
    ASSUME StoreInv, addSongImpl
    PROVE  InStep' /\ Emptied'
<1> DEFINE s == Head(tasks).song
<1>1. s \in Song /\ s.id \in Id /\ s # Absent
  BY TaskTypes, SongType DEF StoreInv, TypeOK, addSongImpl, NextTask
<1>2. UNCHANGED <<pc, holding, syncing>> /\ syncing = "no"
  BY DEF addSongImpl, NextTask, atRest, threads, sync
<1>3. CASE isThere(s)
  <2>1. UNCHANGED <<cache, db, raced>>
    BY <1>3 DEF addSongImpl
  <2> QED BY <1>2, <2>1 DEF StoreInv, InStep, Emptied, Expected, Removing
<1>4. CASE ~isThere(s)
  <2>1. /\ cache' = [cache EXCEPT ![s.id] = s] /\ db' = [db EXCEPT ![s.id] = Append(db[s.id], s)]
        /\ raced' = IF db[s.id] = <<>> THEN raced \ {s.id} ELSE raced \cup {s.id}
    BY <1>4 DEF addSongImpl
  <2> HIDE DEF s
  <2>2. InStep'
    <3> SUFFICES ASSUME NEW j \in Id \ raced'
        PROVE (db[j] = Expected(j) \/ (cache[j] = Absent /\ Removing(j)))'
      BY DEF InStep
    <3>1. CASE j = s.id
      <4>1. db[j] = <<>> /\ db'[j] = Append(db[j], s) /\ cache'[j] = s
        BY <1>1, <2>1, <3>1 DEF StoreInv, TypeOK, SongsOK
      <4> QED BY <1>1, <4>1 DEF Expected
    <3>2. CASE j # s.id
      BY <1>1, <1>2, <2>1, <3>2 DEF StoreInv, TypeOK, SongsOK, InStep, Expected, Removing
    <3> QED BY <3>1, <3>2
  <2>3. Emptied'
    BY <1>2 DEF Emptied
  <2> QED BY <2>2, <2>3
<1> QED BY <1>3, <1>4

LEMMA Store_StartSync ==
    ASSUME StoreInv, StartSync
    PROVE  InStep' /\ Emptied'
<1>1. UNCHANGED <<cache, db>> /\ raced' = raced
  BY DEF StartSync, history
<1>2. \A t \in Threads : pc[t] = "delete" => pc'[t] = "delete" /\ holding'[t] = holding[t]
  BY DEF StoreInv, TypeOK, ThreadsOK, Threads, StartSync, threads
<1>3. InStep'
  BY <1>1, <1>2 DEF StoreInv, InStep, Expected, Removing
<1>4. Emptied'
  BY <1>1 DEF StoreInv, Emptied, StartSync, sync
<1> QED BY <1>3, <1>4

LEMMA Store_ClearDatabase ==
    ASSUME StoreInv, ClearDatabase
    PROVE  InStep' /\ Emptied'
<1>1. /\ db' = [id \in Id |-> <<>>] /\ raced' = CacheIds /\ UNCHANGED cache
  BY DEF ClearDatabase
<1>2. InStep'
  BY <1>1 DEF InStep, Expected, CacheIds
<1>3. Emptied'
  BY <1>1 DEF Emptied
<1> QED BY <1>2, <1>3

LEMMA Store_ClearCache ==
    ASSUME StoreInv, ClearCache
    PROVE  InStep' /\ Emptied'
<1>1. /\ cache' = [id \in Id |-> Absent] /\ UNCHANGED db
      /\ syncing = "clearCache" /\ syncing' = "load"
  BY DEF ClearCache
<1>2. InStep'
  BY <1>1 DEF StoreInv, Emptied, InStep, Expected
<1>3. Emptied'
  BY <1>1 DEF Emptied
<1> QED BY <1>2, <1>3

LEMMA Store_Load ==
    ASSUME StoreInv, Load
    PROVE  InStep' /\ Emptied'
<1>1. UNCHANGED <<cache, db>> /\ raced' = raced
  BY DEF Load
<1>2. \A t \in Threads : pc[t] = "delete" => pc'[t] = "delete" /\ holding'[t] = holding[t]
  BY DEF StoreInv, TypeOK, ThreadsOK, Threads, Load, threads
<1>3. InStep'
  BY <1>1, <1>2 DEF StoreInv, InStep, Expected, Removing
<1>4. Emptied'
  BY <1>1 DEF StoreInv, Emptied, Load
<1> QED BY <1>3, <1>4

LEMMA Store_Query ==
    ASSUME StoreInv, Query
    PROVE  InStep' /\ Emptied'
<1>1. UNCHANGED <<cache, db>> /\ raced' = raced
  BY DEF Query, history
<1>2. \A t \in Threads : pc[t] = "delete" => pc'[t] = "delete" /\ holding'[t] = holding[t]
  BY DEF StoreInv, TypeOK, ThreadsOK, Threads, Query, threads, Look, Step
<1>3. InStep'
  BY <1>1, <1>2 DEF StoreInv, InStep, Expected, Removing
<1>4. Emptied'
  BY <1>1 DEF StoreInv, Emptied, Query
<1> QED BY <1>3, <1>4

LEMMA Store_StartClean ==
    ASSUME StoreInv, StartClean
    PROVE  InStep' /\ Emptied'
<1>1. UNCHANGED <<cache, db>> /\ raced' = raced
  BY DEF StartClean
<1>2. \A t \in Threads : pc[t] = "delete" => pc'[t] = "delete" /\ holding'[t] = holding[t]
  BY DEF StoreInv, TypeOK, ThreadsOK, Threads, StartClean, threads
<1>3. InStep'
  BY <1>1, <1>2 DEF StoreInv, InStep, Expected, Removing
<1>4. Emptied'
  BY <1>1 DEF StoreInv, Emptied, StartClean
<1> QED BY <1>3, <1>4

LEMMA Store_Clean ==
    ASSUME StoreInv, Clean
    PROVE  InStep' /\ Emptied'
<1>1. PICK s \in remaining :
        /\ cache' = [cache EXCEPT ![s.id] = Absent] /\ db' = [db EXCEPT ![s.id] = <<>>]
        /\ raced' = raced \ {s.id}
  BY DEF Clean, removeFromCache
<1>2. s.id \in Id /\ UNCHANGED <<pc, holding, syncing>>
  BY SongType DEF StoreInv, TypeOK, SyncOK, Clean, threads
<1>3. InStep'
  <2> SUFFICES ASSUME NEW j \in Id \ raced'
      PROVE (db[j] = Expected(j) \/ (cache[j] = Absent /\ Removing(j)))'
    BY DEF InStep
  <2>1. CASE j = s.id
    BY <1>1, <1>2, <2>1 DEF StoreInv, TypeOK, SongsOK, Expected
  <2>2. CASE j # s.id
    BY <1>1, <1>2, <2>2 DEF StoreInv, TypeOK, SongsOK, InStep, Expected, Removing
  <2> QED BY <2>1, <2>2
<1>4. Emptied'
  BY <1>1, <1>2 DEF StoreInv, TypeOK, SongsOK, Emptied
<1> QED BY <1>3, <1>4

LEMMA Store_FinishSync ==
    ASSUME StoreInv, FinishSync
    PROVE  InStep' /\ Emptied'
<1>1. UNCHANGED <<cache, db>> /\ raced' = raced
  BY DEF FinishSync, history
<1>2. \A t \in Threads : pc[t] = "delete" => pc'[t] = "delete" /\ holding'[t] = holding[t]
  BY DEF StoreInv, TypeOK, ThreadsOK, Threads, FinishSync, threads
<1>3. InStep'
  BY <1>1, <1>2 DEF StoreInv, InStep, Expected, Removing
<1>4. Emptied'
  BY <1>1 DEF StoreInv, Emptied, FinishSync
<1> QED BY <1>3, <1>4

LEMMA Store_updateSongInDatabase ==
    ASSUME StoreInv, updateSongInDatabase
    PROVE  InStep' /\ Emptied'
<1>1. UNCHANGED <<cache, db>> /\ raced' = raced
  BY DEF updateSongInDatabase, history
<1>2. \A t \in Threads : pc[t] = "delete" => pc'[t] = "delete" /\ holding'[t] = holding[t]
  BY DEF StoreInv, TypeOK, ThreadsOK, Threads, updateSongInDatabase, Step
<1>3. InStep'
  BY <1>1, <1>2 DEF StoreInv, InStep, Expected, Removing
<1>4. Emptied'
  BY <1>1 DEF StoreInv, Emptied, updateSongInDatabase, sync
<1> QED BY <1>3, <1>4

LEMMA Store_RemoveFromCache ==
    ASSUME StoreInv, NEW t \in Threads, RemoveFromCache(t)
    PROVE  InStep' /\ Emptied'
<1>1. holding[t] \in Song /\ holding[t].id \in Id
  BY HeldSong DEF StoreInv, TypeOK, RemoveFromCache
<1>2. /\ cache' = [cache EXCEPT ![holding[t].id] = Absent] /\ raced' = raced
      /\ UNCHANGED <<db, syncing>>
      /\ pc' = [pc EXCEPT ![t] = "delete"] /\ holding' = holding
  BY DEF StoreInv, TypeOK, ThreadsOK, RemoveFromCache, removeFromCache, Step, history, sync
<1>3. InStep'
  <2> SUFFICES ASSUME NEW id \in Id \ raced
      PROVE (db[id] = Expected(id) \/ (cache[id] = Absent /\ Removing(id)))'
    BY <1>2 DEF InStep
  <2>0. db[id] = Expected(id) \/ (cache[id] = Absent /\ Removing(id))
    BY DEF StoreInv, InStep
  <2>1. Removing(id) => Removing(id)'
    BY <1>2 DEF StoreInv, TypeOK, ThreadsOK, Removing
  <2>2. CASE id = holding[t].id
    BY <1>1, <1>2, <2>2 DEF StoreInv, TypeOK, SongsOK, ThreadsOK, Removing
  <2>3. CASE id # holding[t].id
    BY <1>1, <1>2, <2>0, <2>1, <2>3 DEF StoreInv, TypeOK, SongsOK, Expected
  <2> QED BY <2>2, <2>3
<1>4. Emptied'
  BY <1>2 DEF StoreInv, Emptied
<1> QED BY <1>3, <1>4

LEMMA Store_RemoveFromDatabase ==
    ASSUME StoreInv, NEW t \in Threads, RemoveFromDatabase(t)
    PROVE  InStep' /\ Emptied'
<1>1. holding[t] \in Song /\ holding[t].id \in Id
  BY HeldSong DEF StoreInv, TypeOK, RemoveFromDatabase
<1>2. /\ db' = [db EXCEPT ![holding[t].id] = <<>>] /\ UNCHANGED <<cache, syncing>>
      /\ raced' = IF cache[holding[t].id] = Absent THEN raced \ {holding[t].id}
                  ELSE raced \cup {holding[t].id}
      /\ pc' = [pc EXCEPT ![t] = "post"] /\ holding' = holding
  BY DEF StoreInv, TypeOK, ThreadsOK, RemoveFromDatabase, Step, sync
<1>3. InStep'
  <2> SUFFICES ASSUME NEW id \in Id \ raced'
      PROVE (db[id] = Expected(id) \/ (cache[id] = Absent /\ Removing(id)))'
    BY DEF InStep
  <2>1. CASE id = holding[t].id
    BY <1>1, <1>2, <2>1 DEF StoreInv, TypeOK, SongsOK, Expected
  <2>2. CASE id # holding[t].id
    <3>1. id \notin raced /\ db'[id] = db[id]
      BY <1>1, <1>2, <2>2 DEF StoreInv, TypeOK, SongsOK
    <3>2. Removing(id) => Removing(id)'
      BY <1>2, <2>2 DEF StoreInv, TypeOK, ThreadsOK, Removing
    <3> QED BY <1>2, <3>1, <3>2 DEF StoreInv, InStep, Expected
  <2> QED BY <2>1, <2>2
<1>4. Emptied'
  BY <1>1, <1>2 DEF StoreInv, TypeOK, SongsOK, Emptied
<1> QED BY <1>3, <1>4

LEMMA Store_addSong ==
    ASSUME StoreInv, NEW t \in Threads, addSong(t)
    PROVE  InStep' /\ Emptied'
<1>1. UNCHANGED <<cache, db>> /\ raced' = raced
  BY DEF addSong
<1>2. \A o \in Threads : pc[o] = "delete" => pc'[o] = "delete" /\ holding'[o] = holding[o]
  BY DEF StoreInv, TypeOK, ThreadsOK, Threads, addSong, Step
<1>3. InStep'
  BY <1>1, <1>2 DEF StoreInv, InStep, Expected, Removing
<1>4. Emptied'
  BY <1>1 DEF StoreInv, Emptied, addSong, sync
<1> QED BY <1>3, <1>4

LEMMA Store_Change ==
    ASSUME StoreInv, NEW id \in Id, Change(id)
    PROVE  InStep' /\ Emptied'
<1>1. UNCHANGED <<cache, db>> /\ raced' = raced
  BY DEF Change
<1>2. \A t \in Threads : pc[t] = "delete" => pc'[t] = "delete" /\ holding'[t] = holding[t]
  BY DEF StoreInv, TypeOK, ThreadsOK, Threads, Change, threads
<1>3. InStep'
  BY <1>1, <1>2 DEF StoreInv, InStep, Expected, Removing
<1>4. Emptied'
  BY <1>1 DEF StoreInv, Emptied, Change, sync
<1> QED BY <1>3, <1>4

LEMMA Store_Restart ==
    ASSUME StoreInv, Restart
    PROVE  InStep' /\ Emptied'
<1>1. /\ cache' = [id \in Id |-> IF db[id] = <<>> THEN Absent ELSE Head(db[id])] /\ db' = db
      /\ raced' = { id \in Id : Len(db[id]) > 1 } /\ syncing' = "no"
  BY DEF Restart, Fetch
<1>2. InStep'
  <2> SUFFICES ASSUME NEW id \in Id \ raced' PROVE db'[id] = Expected(id)'
    BY DEF InStep
  <2>1. db[id] \in Seq(Song) /\ ~(Len(db[id]) > 1)
    BY <1>1 DEF StoreInv, TypeOK, SongsOK
  <2>2. CASE db[id] = <<>>
    BY <1>1, <2>2 DEF Expected
  <2>3. CASE db[id] # <<>>
    <3>1. db[id] = <<Head(db[id])>> /\ Head(db[id]) \in Song
      BY <2>1, <2>3
    <3>2. cache'[id] = Head(db[id]) /\ cache'[id] # Absent
      BY <1>1, <2>3, <3>1, SongType
    <3> QED BY <1>1, <3>1, <3>2 DEF Expected
  <2> QED BY <2>2, <2>3
<1>3. Emptied'
  BY <1>1 DEF Emptied
<1> QED BY <1>2, <1>3

LEMMA StoreStep == StoreInv /\ [Next]_vars => StoreInv'
<1> SUFFICES ASSUME StoreInv, [Next]_vars PROVE InStep' /\ Emptied'
  BY TypeStep DEF StoreInv
<1>1. CASE UNCHANGED vars
  BY <1>1 DEF StoreInv, InStep, Emptied, Expected, Removing, vars, sync, threads, history
<1>2. CASE Executor
  BY <1>2, Store_addSongImpl, Store_StartSync, Store_ClearDatabase, Store_ClearCache,
     Store_Load, Store_Query, Store_StartClean, Store_Clean, Store_FinishSync DEF Executor
<1>3. CASE Callers
  BY <1>3, Store_getOrAddSong, Store_Detect, Store_removeSongByPath,
     Store_triggerSyncWithMediaStore DEF Callers
<1>4. CASE updateSongInDatabase \/ Restart
  BY <1>4, Store_updateSongInDatabase, Store_Restart
<1>5. ASSUME NEW t \in Threads, RemoveFromCache(t) \/ RemoveFromDatabase(t) \/ addSong(t)
      PROVE  InStep' /\ Emptied'
  BY <1>5, Store_RemoveFromCache, Store_RemoveFromDatabase, Store_addSong
<1>6. ASSUME NEW id \in Id, Change(id)
      PROVE  InStep' /\ Emptied'
  BY <1>6, Store_Change
<1> QED BY <1>1, <1>2, <1>3, <1>4, <1>5, <1>6 DEF Next

(* Whatever was loaded, detected, edited, synchronised or killed, at rest   *)
(* the database holds what the cache holds, except of the songs added       *)
(* between the two steps of removeSongById.                                 *)
THEOREM DatabaseFollowsCache == Spec => []QuietCacheMatchesDatabase
<1>1. Init => StoreInv
  BY TypeInit DEF Init, StoreInv, InStep, Emptied, Expected
<1>2. StoreInv => QuietCacheMatchesDatabase
  BY DEF StoreInv, InStep, QuietCacheMatchesDatabase, Quiet, Expected, Removing
<1> QED BY <1>1, <1>2, StoreStep, PTL DEF Spec

-----------------------------------------------------------------------------
(* The genres list their songs.                                             *)
(*                                                                          *)
(* Until an id is reused no two genres share one, so that what is done to   *)
(* the list of one genre leaves those of the others alone.                  *)

GenreOfCached(id) == GenreOf[id][cache[id].version]
SongsOf(g) == { id \in CacheIds : GenreOfCached(id) = g }

ListOf(g) == IF genreIds[g] = Absent THEN SongsOf(g) = {}
             ELSE SongsOf(g) # {} /\ songsByGenreId[genreIds[g]] = SongsOf(g)

Listed == \A g \in Genre : ListOf(g)

IdsDiffer == \A g, h \in Genre : genreIds[g] = genreIds[h] /\ genreIds[g] # Absent => g = h

GenreInv == TypeOK /\ (reused \/ (Listed /\ IdsDiffer))

LEMMA NotAbsent ==
    /\ \A i \in GenreIds : i # Absent
    /\ \A ids \in SUBSET Id : ids # Absent
  BY AbsentAssumption DEF GenreIds

LEMMA GenreUntouched ==
    ASSUME GenreInv, TypeOK', UNCHANGED <<cache, index, reused>>
    PROVE  GenreInv'
<1>1. \A g \in Genre : SongsOf(g)' = SongsOf(g)
  BY DEF SongsOf, CacheIds, GenreOfCached
<1> QED BY <1>1 DEF GenreInv, Listed, ListOf, IdsDiffer, index

LEMMA GenreEmptied ==
    ASSUME TypeOK', cache' = [id \in Id |-> Absent], genreIds' = [g \in Genre |-> Absent]
    PROVE  GenreInv'
<1>1. \A g \in Genre : SongsOf(g)' = {}
  BY DEF SongsOf, CacheIds
<1> QED BY <1>1 DEF GenreInv, Listed, ListOf, IdsDiffer

LEMMA GenreOfSongs ==
    ASSUME SongsOK, NEW id \in CacheIds
    PROVE  /\ id \in Id /\ cache[id] \in Song /\ cache[id].id = id
           /\ GenreOfCached(id) \in Genre
           /\ GenreOf[cache[id].id][cache[id].version] = GenreOfCached(id)
<1>1. id \in Id /\ cache[id] \in Song /\ cache[id].id = id
  BY CachedType DEF CacheIds
<1> QED BY <1>1, SongType DEF GenreOfCached

(* The cache gets a song it does not have.                                  *)
LEMMA GenreAdded ==
    ASSUME GenreInv, TypeOK', NEW s \in Song, cache[s.id] = Absent,
           cache' = [cache EXCEPT ![s.id] = s], addToGenre(s)
    PROVE  GenreInv'
<1> DEFINE g == GenreOf[s.id][s.version]
           i == GenreId(s, genreIds)
           list == IF genreIds[g] = Absent THEN {} ELSE songsByGenreId[i]
           newList == IF list = Absent THEN Absent ELSE list \cup {s.id}
<1>1. s # Absent /\ s.id \in Id /\ g \in Genre
  BY SongType
<1>2. /\ genreIds' = [genreIds EXCEPT ![g] = i]
      /\ songsByGenreId' = [songsByGenreId EXCEPT ![i] = newList]
      /\ reused' = (reused \/ (genreIds[g] = Absent /\ songsByGenreId[i] # Absent))
  BY DEF addToGenre
<1>3. i \in GenreIds /\ (genreIds[g] # Absent => i = genreIds[g])
  <2>1. { h \in Genre : genreIds[h] # Absent } \in SUBSET Genre
    OBVIOUS
  <2> QED BY <1>1, <2>1, FewGenres DEF GenreId, GenreInv, TypeOK, GenresOK
<1> SUFFICES ASSUME ~reused' PROVE Listed' /\ IdsDiffer'
  BY DEF GenreInv
<1>4. ~reused /\ (genreIds[g] = Absent => songsByGenreId[i] = Absent)
  BY <1>2
<1>5. Listed /\ IdsDiffer
  BY <1>4 DEF GenreInv
<1>6. /\ genreIds \in [Genre -> GenreIds \cup {Absent}]
      /\ songsByGenreId \in [GenreIds -> (SUBSET Id) \cup {Absent}]
  BY DEF GenreInv, TypeOK, GenresOK
<1>7. /\ SongsOf(g)' = SongsOf(g) \cup {s.id}
      /\ \A h \in Genre : h # g => SongsOf(h)' = SongsOf(h)
  <2>1. \A id \in Id : cache'[id] = IF id = s.id THEN s ELSE cache[id]
    BY <1>1 DEF GenreInv, TypeOK, SongsOK
  <2> QED BY <1>1, <2>1 DEF SongsOf, CacheIds, GenreOfCached
<1>8. \A h \in Genre : SongsOf(h) \in SUBSET Id
  BY DEF SongsOf, CacheIds
(* No other genre has the id.                                               *)
<1>9. ASSUME NEW h \in Genre, h # g, genreIds[h] # Absent
      PROVE  genreIds[h] # i
  <2>1. CASE genreIds[g] # Absent
    BY <1>1, <1>3, <1>5, <1>9, <2>1 DEF IdsDiffer
  <2>2. CASE genreIds[g] = Absent
    <3>1. songsByGenreId[genreIds[h]] = SongsOf(h)
      BY <1>5, <1>9 DEF Listed, ListOf
    <3>2. songsByGenreId[genreIds[h]] # Absent
      BY <1>8, <3>1, NotAbsent
    <3> QED BY <1>4, <2>2, <3>2
  <2> QED BY <2>1, <2>2
<1>10. list = SongsOf(g)
  BY <1>1, <1>3, <1>5 DEF Listed, ListOf
<1>11. newList = SongsOf(g) \cup {s.id}
  <2>1. list # Absent
    BY <1>1, <1>8, <1>10, NotAbsent
  <2> HIDE DEF list
  <2> QED BY <1>10, <2>1
<1> HIDE DEF g, i, list, newList
<1>12. /\ genreIds'[g] = i /\ songsByGenreId'[i] = newList /\ i # Absent
       /\ \A h \in Genre : h # g => genreIds'[h] = genreIds[h]
       /\ \A j \in GenreIds : j # i => songsByGenreId'[j] = songsByGenreId[j]
  BY <1>1, <1>2, <1>3, <1>6, NotAbsent
<1>13. ASSUME NEW h \in Genre PROVE ListOf(h)'
  <2>1. CASE h = g
    BY <1>7, <1>11, <1>12, <2>1 DEF ListOf
  <2>2. CASE h # g /\ genreIds[h] = Absent
    BY <1>5, <1>7, <1>12, <2>2 DEF Listed, ListOf
  <2>3. CASE h # g /\ genreIds[h] # Absent
    <3>1. genreIds[h] # i /\ genreIds[h] \in GenreIds
      BY <1>6, <1>9, <2>3
    <3>2. /\ genreIds'[h] = genreIds[h] /\ SongsOf(h)' = SongsOf(h)
          /\ songsByGenreId'[genreIds[h]] = songsByGenreId[genreIds[h]]
      BY <1>7, <1>12, <2>3, <3>1
    <3> QED BY <1>5, <2>3, <3>2 DEF Listed, ListOf
  <2> QED BY <2>1, <2>2, <2>3
<1>14. IdsDiffer'
  <2> SUFFICES ASSUME NEW h \in Genre, NEW k \in Genre, genreIds'[h] = genreIds'[k],
                      genreIds'[h] # Absent
               PROVE  h = k
    BY DEF IdsDiffer
  <2> QED BY <1>5, <1>9, <1>12 DEF IdsDiffer
<1> QED BY <1>13, <1>14 DEF Listed

LEMMA GenreRemoved ==
    ASSUME GenreInv, TypeOK', NEW id \in Id, removeFromCache(id), reused' = reused
    PROVE  GenreInv'
<1>1. CASE cache[id] = Absent
  <2>1. cache' = cache /\ UNCHANGED index
    BY <1>1 DEF removeFromCache, GenreInv, TypeOK, SongsOK
  <2> QED BY <2>1, GenreUntouched
<1>2. CASE cache[id] # Absent
  <2>0. PICK g, i : g = GenreOfCached(id) /\ i = genreIds[g]
    OBVIOUS
  <2> SUFFICES ASSUME ~reused PROVE Listed' /\ IdsDiffer'
    BY DEF GenreInv
  <2>1. Listed /\ IdsDiffer
    BY DEF GenreInv
  <2>2. /\ genreIds \in [Genre -> GenreIds \cup {Absent}]
        /\ songsByGenreId \in [GenreIds -> (SUBSET Id) \cup {Absent}]
        /\ SongsOK
    BY DEF GenreInv, TypeOK, GenresOK
  <2>3. id \in CacheIds /\ g \in Genre /\ cache[id].id = id
        /\ GenreOf[cache[id].id][cache[id].version] = g
    <3>1. id \in CacheIds
      BY <1>2 DEF CacheIds
    <3> QED BY <2>0, <2>2, <3>1, GenreOfSongs
  <2>4. id \in SongsOf(g) /\ \A h \in Genre : SongsOf(h) \in SUBSET Id
    BY <2>0, <2>3 DEF SongsOf, CacheIds
  <2>5. i # Absent /\ i \in GenreIds /\ songsByGenreId[i] = SongsOf(g)
    BY <2>0, <2>1, <2>2, <2>3, <2>4 DEF Listed, ListOf
  <2>6. songsByGenreId[i] # Absent /\ SongsOf(g) \in SUBSET Id
    BY <2>3, <2>4, <2>5, NotAbsent
  <2>7. /\ genreIds' = IdsWithout(cache[id], genreIds, songsByGenreId)
        /\ songsByGenreId' = ListsWithout(cache[id], genreIds, songsByGenreId)
        /\ cache' = [cache EXCEPT ![id] = Absent]
    BY <1>2 DEF removeFromCache
  <2>8. genreIds' = IF SongsOf(g) \subseteq {id} THEN [genreIds EXCEPT ![g] = Absent]
                    ELSE genreIds
    BY <2>0, <2>3, <2>5, <2>6, <2>7 DEF IdsWithout
  <2>9. songsByGenreId' = [songsByGenreId EXCEPT ![i] =
              IF SongsOf(g) \subseteq {id} THEN Absent ELSE SongsOf(g) \ {id}]
    BY <2>0, <2>3, <2>5, <2>6, <2>7 DEF ListsWithout
  <2>10. \A j \in Id : cache'[j] = IF j = id THEN Absent ELSE cache[j]
    BY <2>2, <2>7 DEF SongsOK
  <2>11. SongsOf(g)' = SongsOf(g) \ {id}
    BY <2>10 DEF SongsOf, CacheIds, GenreOfCached
  <2>12. ASSUME NEW h \in Genre, h # g PROVE SongsOf(h)' = SongsOf(h)
    <3>1. GenreOfCached(id) # h
      BY <2>0, <2>12
    <3> QED BY <2>10, <3>1 DEF SongsOf, CacheIds, GenreOfCached
  <2>13. ASSUME NEW h \in Genre, h # g, genreIds[h] # Absent
         PROVE  genreIds[h] # i /\ genreIds[h] \in GenreIds
    BY <2>0, <2>1, <2>2, <2>3, <2>5, <2>13 DEF IdsDiffer
  <2>14. ASSUME NEW h \in Genre, h # g PROVE ListOf(h)'
    <3>1. genreIds'[h] = genreIds[h]
      BY <2>2, <2>8, <2>14
    <3>2. CASE genreIds[h] = Absent
      BY <2>1, <2>12, <2>14, <3>1, <3>2 DEF Listed, ListOf
    <3>3. CASE genreIds[h] # Absent
      <4>1. songsByGenreId'[genreIds[h]] = songsByGenreId[genreIds[h]]
        BY <2>2, <2>9, <2>13, <2>14, <3>3
      <4>2. SongsOf(h)' = SongsOf(h) /\ ListOf(h)
        BY <2>1, <2>12, <2>14 DEF Listed
      <4> QED BY <3>1, <3>3, <4>1, <4>2 DEF ListOf
    <3> QED BY <3>2, <3>3
  <2>15. ListOf(g)'
    <3>1. CASE SongsOf(g) \subseteq {id}
      <4>1. genreIds'[g] = Absent
        BY <2>2, <2>3, <2>8, <3>1
      <4>2. SongsOf(g)' = {}
        BY <2>11, <3>1
      <4> QED BY <4>1, <4>2 DEF ListOf
    <3>2. CASE ~(SongsOf(g) \subseteq {id})
      <4>1. genreIds'[g] = i /\ songsByGenreId'[i] = SongsOf(g) \ {id}
        BY <2>0, <2>2, <2>5, <2>8, <2>9, <3>2
      <4>2. SongsOf(g) \ {id} # {}
        BY <3>2
      <4> QED BY <2>5, <2>11, <4>1, <4>2 DEF ListOf
    <3> QED BY <3>1, <3>2
  <2>16. IdsDiffer'
    <3>1. \A h \in Genre : genreIds'[h] = genreIds[h] \/ genreIds'[h] = Absent
      BY <2>2, <2>8
    <3> QED BY <2>1, <3>1 DEF IdsDiffer
  <2> QED BY <2>14, <2>15, <2>16 DEF Listed
<1> QED BY <1>1, <1>2

LEMMA GenreFetched ==
    ASSUME SongsOK, TypeOK', Fetch(db)
    PROVE  GenreInv'
<1> DEFINE genreOf(id) == GenreOf[id][Head(db[id]).version]
           ids == { id \in Id : db[id] # <<>> }
           genres == { genreOf(id) : id \in ids }
<1>1. \A id \in ids : Head(db[id]) \in Song /\ Head(db[id]).id = id
  <2> SUFFICES ASSUME NEW id \in ids PROVE Head(db[id]) \in Song /\ Head(db[id]).id = id
    OBVIOUS
  <2>1. id \in Id /\ db[id] \in Seq(Song) /\ db[id] # <<>>
    BY DEF SongsOK
  <2>2. Head(db[id]) = db[id][1] /\ 1 \in 1 .. Len(db[id]) /\ Head(db[id]) \in Song
    BY <2>1
  <2> QED BY <2>1, <2>2 DEF SongsOK
<1>2. \A id \in ids : genreOf(id) \in Genre /\ genreOf(id) \in genres /\ Head(db[id]) # Absent
  BY <1>1, SongType
<1>3. cache' = [id \in Id |-> IF db[id] = <<>> THEN Absent ELSE Head(db[id])]
  BY DEF Fetch
<1>4. PICK number \in [genres -> 0 .. Cardinality(genres) - 1] :
        /\ \A g, h \in genres : number[g] = number[h] => g = h
        /\ genreIds' = [g \in Genre |-> IF g \in genres THEN number[g] ELSE Absent]
        /\ songsByGenreId' = [i \in GenreIds |->
                                IF \E g \in genres : number[g] = i
                                THEN { id \in ids : number[genreOf(id)] = i } ELSE Absent]
  BY DEF Fetch
<1>5. genres \in SUBSET Genre
  BY <1>2
<1>6. 0 .. Cardinality(genres) - 1 \subseteq GenreIds
  BY <1>5, FewGenres
<1>7. \A g \in genres : number[g] \in GenreIds /\ number[g] # Absent
  <2> HIDE DEF genres
  <2> QED BY <1>4, <1>6, NotAbsent
<1>8. \A g \in Genre : SongsOf(g)' = { id \in ids : genreOf(id) = g }
  <2> SUFFICES ASSUME NEW g \in Genre PROVE SongsOf(g)' = { id \in ids : genreOf(id) = g }
    OBVIOUS
  <2>1. \A id \in Id : /\ cache'[id] # Absent <=> id \in ids
                       /\ id \in ids => cache'[id] = Head(db[id])
    BY <1>2, <1>3
  <2> QED BY <2>1 DEF SongsOf, CacheIds, GenreOfCached
<1>9. ASSUME NEW g \in Genre PROVE ListOf(g)'
  <2>1. CASE g \in genres
    <3>1. genreIds'[g] = number[g] /\ number[g] # Absent /\ number[g] \in GenreIds
      BY <1>4, <1>7, <2>1
    <3>2. songsByGenreId'[number[g]] = { id \in ids : number[genreOf(id)] = number[g] }
      BY <1>4, <2>1, <3>1
    <3>3. { id \in ids : number[genreOf(id)] = number[g] } = { id \in ids : genreOf(id) = g }
      BY <1>2, <1>4, <2>1
    <3>4. { id \in ids : genreOf(id) = g } # {}
      BY <2>1
    <3> QED BY <1>8, <3>1, <3>2, <3>3, <3>4 DEF ListOf
  <2>2. CASE g \notin genres
    <3>1. genreIds'[g] = Absent /\ SongsOf(g)' = {}
      BY <1>2, <1>4, <1>8, <2>2
    <3> QED BY <3>1 DEF ListOf
  <2> QED BY <2>1, <2>2
<1>10. IdsDiffer'
  <2> SUFFICES ASSUME NEW g \in Genre, NEW h \in Genre, genreIds'[g] = genreIds'[h],
                      genreIds'[g] # Absent
               PROVE  g = h
    BY DEF IdsDiffer
  <2>1. g \in genres /\ h \in genres
    BY <1>4
  <2> QED BY <1>4, <2>1
<1> QED BY <1>9, <1>10 DEF GenreInv, Listed

LEMMA GenreStep == GenreInv /\ [Next]_vars => GenreInv'
<1> SUFFICES ASSUME GenreInv, [Next]_vars PROVE GenreInv'
  OBVIOUS
<1>0. TypeOK'
  BY TypeStep DEF GenreInv
<1>1. CASE UNCHANGED <<cache, index, reused>>
  BY <1>0, <1>1, GenreUntouched
<1>2. CASE addSongImpl
  <2> DEFINE s == Head(tasks).song
  <2>1. CASE isThere(s)
    BY <1>1, <1>2, <2>1 DEF addSongImpl
  <2>2. CASE ~isThere(s)
    <3>1. PICK t : t = s
      OBVIOUS
    <3>2. t \in Song /\ cache[t.id] = Absent
      BY <1>2, <2>2, <3>1, TaskTypes DEF GenreInv, TypeOK, addSongImpl, NextTask, isThere
    <3>3. cache' = [cache EXCEPT ![t.id] = t] /\ addToGenre(t)
      BY <1>2, <2>2, <3>1 DEF addSongImpl
    <3> QED BY <1>0, <3>2, <3>3, GenreAdded
  <2> QED BY <2>1, <2>2
<1>3. CASE ClearCache
  BY <1>0, <1>3, GenreEmptied DEF ClearCache
<1>4. CASE Clean
  <2>1. PICK s \in remaining : removeFromCache(s.id) /\ reused' = reused
    BY <1>4 DEF Clean
  <2>2. s.id \in Id
    BY <2>1, SongType DEF GenreInv, TypeOK, SyncOK
  <2> QED BY <1>0, <2>1, <2>2, GenreRemoved
<1>5. ASSUME NEW id \in Id, removeSongByPath(id)
      PROVE  GenreInv'
  BY <1>0, <1>5, GenreRemoved DEF removeSongByPath
<1>6. ASSUME NEW t \in Threads, RemoveFromCache(t)
      PROVE  GenreInv'
  <2>1. PICK id : id = holding[t].id
    OBVIOUS
  <2>2. id \in Id /\ removeFromCache(id) /\ reused' = reused
    BY <1>6, <2>1, HeldSong DEF GenreInv, TypeOK, RemoveFromCache, history
  <2> QED BY <1>0, <2>2, GenreRemoved
<1>7. CASE Restart
  BY <1>0, <1>7, GenreFetched DEF GenreInv, TypeOK, Restart
<1>8. CASE UNCHANGED vars
  BY <1>1, <1>8 DEF vars, history
<1>9. CASE Executor
  BY <1>1, <1>2, <1>3, <1>4, <1>9 DEF Executor, StartSync, ClearDatabase, Load, Query,
     StartClean, FinishSync, history
<1>10. CASE Callers
  BY <1>1, <1>5, <1>10 DEF Callers, getOrAddSong, Detect, triggerSyncWithMediaStore, history
<1>11. CASE updateSongInDatabase
  BY <1>1, <1>11 DEF updateSongInDatabase, history
<1>12. ASSUME NEW t \in Threads, RemoveFromDatabase(t) \/ addSong(t)
       PROVE  GenreInv'
  BY <1>1, <1>12 DEF RemoveFromDatabase, addSong
<1>13. ASSUME NEW id \in Id, Change(id)
       PROVE  GenreInv'
  BY <1>1, <1>13 DEF Change
<1> QED BY <1>6, <1>7, <1>8, <1>9, <1>10, <1>11, <1>12, <1>13 DEF Next

(* For any songs, versions and genres: each genre lists the cached songs of *)
(* that genre, and is there as long as one is, until an id is reused.       *)
THEOREM GenresAlwaysListTheirSongs == Spec => []GenresListTheirSongs
<1>1. Init => GenreInv
  <2> SUFFICES ASSUME Init PROVE GenreInv
    OBVIOUS
  <2>1. \A g \in Genre : SongsOf(g) = {} /\ genreIds[g] = Absent
    BY DEF Init, SongsOf, CacheIds
  <2> QED BY <2>1, TypeInit DEF GenreInv, Listed, ListOf, IdsDiffer
<1>2. GenreInv => GenresListTheirSongs
  BY DEF GenreInv, Listed, ListOf, SongsOf, GenreOfCached, GenresListTheirSongs
<1> QED BY <1>1, <1>2, GenreStep, PTL DEF Spec

-----------------------------------------------------------------------------
(* The songs of MediaStore.                                                 *)
(*                                                                          *)
(* While a synchronisation is still to load, nothing need be right.  After  *)
(* it has loaded, a file that is not shown is still looked at, worked with  *)
(* or waiting to be added, and an outdated song or an orphan is about to be *)
(* removed.  An outdated song among the tasks is known to be late, or a     *)
(* synchronisation is to come after it.                                     *)

Shown(id) == cache[id] # Absent /\ cache[id].version = mediaStore[id]

IsSync(i) == i \in 1 .. Len(tasks) /\ tasks[i].op = "sync"
IsAdd(i) == i \in 1 .. Len(tasks) /\ tasks[i].op = "add"

SyncIsToCome ==
    \/ changed
    \/ syncing \in {"clearDatabase", "clearCache", "load"}
    \/ \E i \in Nat : IsSync(i)

AddsAreCurrent ==
    \A i \in Nat : IsAdd(i) =>
        \/ tasks[i].song.version = mediaStore[tasks[i].song.id]
        \/ tasks[i].song.id \in late
        \/ changed
        \/ \E j \in Nat : j > i /\ IsSync(j)

SyncSawFiles ==
    /\ syncing \in {"query", "clean"} /\ ~SyncIsToCome => allSongIds = MediaIds
    /\ syncing = "clean" => \A s \in remaining : s.id \notin allSongIds

ToLook(id) == syncing = "query" /\ Loaded(id) \in remaining
Held(id, labels) == \E t \in Threads : pc[t] \in labels /\ holding[t].id = id
ToAdd(id) == \E i \in Nat : IsAdd(i) /\ tasks[i].song.id = id

FileIsComing(id) ==
    Shown(id) \/ ToLook(id) \/ Held(id, {"remove", "delete", "post"}) \/ ToAdd(id)

OutdatedIsGoing(id) ==
    cache[id] = Absent \/ Shown(id) \/ ToLook(id) \/ Held(id, {"remove"})

OrphanIsGoing(id) ==
    \/ cache[id] = Absent \/ id \in left \/ syncing = "query"
    \/ syncing = "clean" /\ \E s \in remaining : s.id = id

Caught(id) ==
    IF mediaStore[id] = Absent THEN OrphanIsGoing(id)
    ELSE FileIsComing(id) /\ OutdatedIsGoing(id)

FilesInv ==
    /\ TypeOK /\ AddsAreCurrent /\ SyncSawFiles
    /\ SyncIsToCome \/ \A id \in Id \ late : Caught(id)

(* Where tasks are after one is added or taken.                             *)
Appended(m) == SyncOK /\ tasks' = Append(tasks, m)
Taken == SyncOK /\ tasks # <<>> /\ tasks' = Tail(tasks)

LEMMA TasksAppended ==
    ASSUME NEW m, Appended(m)
    PROVE  /\ \A i \in Nat : IsAdd(i) => IsAdd(i)' /\ tasks'[i] = tasks[i]
           /\ \A i \in Nat : IsSync(i) => IsSync(i)'
           /\ \A i \in Nat : IsAdd(i)' => /\ i <= Len(tasks) + 1
                                          /\ IsAdd(i) \/ tasks'[i] = m
           /\ Len(tasks) + 1 \in Nat
           /\ \A i \in Nat : i = Len(tasks) + 1 => tasks'[i] = m
           /\ \A i \in Nat : i = Len(tasks) + 1 /\ m.op = "sync" => IsSync(i)'
           /\ \A i \in Nat : i = Len(tasks) + 1 /\ m.op = "add" => IsAdd(i)'
<1>1. tasks \in Seq(Tasks)
  BY DEF SyncOK, Appended
<1>2. /\ Len(tasks) \in Nat /\ Len(tasks') = Len(tasks) + 1
      /\ tasks'[Len(tasks) + 1] = m
      /\ \A i \in 1 .. Len(tasks) : tasks'[i] = tasks[i]
  <2>1. tasks' = Append(tasks, m)
    BY DEF Appended
  <2> QED BY <1>1, <2>1
<1>0. PICK last : last = Len(tasks) + 1
  OBVIOUS
<1>3. \A i \in Nat : i \in 1 .. Len(tasks') <=> i \in 1 .. Len(tasks) \/ i = last
  BY <1>0, <1>2
<1>4. last \in Nat /\ last \in 1 .. Len(tasks') /\ tasks'[last] = m
  BY <1>0, <1>2
<1>5. \A i \in 1 .. Len(tasks) : i <= last
  BY <1>0, <1>2
<1>6. \A i \in 1 .. Len(tasks) : tasks'[i] = tasks[i]
  BY <1>2
<1>7. \A i \in Nat : IsAdd(i) => IsAdd(i)' /\ tasks'[i] = tasks[i]
  BY <1>3, <1>6 DEF IsAdd
<1>8. \A i \in Nat : IsSync(i) => IsSync(i)'
  BY <1>3, <1>6 DEF IsSync
<1>9. \A i \in Nat : IsAdd(i)' => i <= last /\ (IsAdd(i) \/ tasks'[i] = m)
  <2> SUFFICES ASSUME NEW i \in Nat, IsAdd(i)'
               PROVE  i <= last /\ (IsAdd(i) \/ tasks'[i] = m)
    OBVIOUS
  <2>1. CASE i = last
    BY <1>4, <2>1
  <2>2. CASE i # last
    <3>1. i \in 1 .. Len(tasks)
      BY <1>3, <2>2 DEF IsAdd
    <3> QED BY <1>5, <1>6, <3>1 DEF IsAdd
  <2> QED BY <2>1, <2>2
<1>10. (m.op = "sync" => IsSync(last)') /\ (m.op = "add" => IsAdd(last)')
  BY <1>4 DEF IsSync, IsAdd
<1> QED BY <1>0, <1>4, <1>7, <1>8, <1>9, <1>10

LEMMA TasksTaken ==
    ASSUME Taken
    PROVE  /\ \A i \in Nat : IsAdd(i)' => IsAdd(i + 1) /\ tasks'[i] = tasks[i + 1]
           /\ \A i \in Nat : i > 1 /\ IsSync(i) => i - 1 \in Nat /\ IsSync(i - 1)'
           /\ \A i \in Nat : i > 1 /\ IsAdd(i) => /\ i - 1 \in Nat /\ IsAdd(i - 1)'
                                                /\ tasks'[i - 1] = tasks[i]
           /\ \A i \in Nat : IsAdd(i) \/ IsSync(i) => i >= 1
           /\ tasks[1] = Head(tasks)
           /\ Head(tasks).op = "add" => IsAdd(1) /\ ~IsSync(1)
<1>1. tasks \in Seq(Tasks) /\ tasks # <<>> /\ tasks' = Tail(tasks)
  BY DEF SyncOK, Taken
<1>2. /\ Len(tasks) \in Nat /\ Len(tasks) >= 1 /\ Len(tasks') = Len(tasks) - 1
      /\ \A i \in 1 .. Len(tasks) - 1 : tasks'[i] = tasks[i + 1]
      /\ tasks[1] = Head(tasks)
  BY <1>1
<1> QED BY <1>2 DEF IsAdd, IsSync

LEMMA TakenAdds ==
    ASSUME FilesInv, Taken, UNCHANGED <<mediaStore, changed, late>>
    PROVE  AddsAreCurrent'
<1> SUFFICES ASSUME NEW i \in Nat, IsAdd(i)',
                    tasks'[i].song.version # mediaStore[tasks'[i].song.id],
                    tasks'[i].song.id \notin late, ~changed
             PROVE  \E j \in Nat : j > i /\ IsSync(j)'
  BY DEF AddsAreCurrent
<1>2. i + 1 \in Nat /\ IsAdd(i + 1) /\ tasks'[i] = tasks[i + 1]
  BY TasksTaken
<1>3. PICK j \in Nat : j > i + 1 /\ IsSync(j)
  BY <1>2 DEF FilesInv, AddsAreCurrent
<1>4. j - 1 \in Nat /\ IsSync(j - 1)'
  BY <1>3, TasksTaken
<1> QED BY <1>3, <1>4

LEMMA SameTasks ==
    ASSUME UNCHANGED tasks
    PROVE  /\ \A i \in Nat : (IsAdd(i)' <=> IsAdd(i)) /\ (IsSync(i)' <=> IsSync(i))
           /\ \A id \in Id : ToAdd(id)' <=> ToAdd(id)
  BY DEF IsAdd, IsSync, ToAdd

LEMMA SameAdds ==
    ASSUME FilesInv, UNCHANGED <<tasks, mediaStore, changed, late>>
    PROVE  AddsAreCurrent'
<1> SUFFICES ASSUME NEW i \in Nat, IsAdd(i)',
                    tasks'[i].song.version # mediaStore[tasks'[i].song.id],
                    tasks'[i].song.id \notin late, ~changed
             PROVE  \E j \in Nat : j > i /\ IsSync(j)'
  BY DEF AddsAreCurrent
<1>1. IsAdd(i) /\ tasks'[i] = tasks[i]
  BY SameTasks
<1>2. \E j \in Nat : j > i /\ IsSync(j)
  BY <1>1 DEF FilesInv, AddsAreCurrent
<1> QED BY <1>2, SameTasks

LEMMA SameSyncs ==
    ASSUME UNCHANGED <<tasks, changed>>,
           syncing' = syncing \/ {syncing, syncing'} \subseteq {"no", "query", "clean"}
    PROVE  SyncIsToCome' <=> SyncIsToCome
<1>1. \A i \in Nat : IsSync(i)' <=> IsSync(i)
  BY SameTasks
<1> QED BY <1>1 DEF SyncIsToCome

-----------------------------------------------------------------------------
(* Steps after which a synchronisation is to come.                          *)

LEMMA FilesChanged ==
    ASSUME FilesInv, TypeOK', changed' = TRUE, UNCHANGED sync
    PROVE  FilesInv'
<1>1. SyncIsToCome' /\ AddsAreCurrent'
  BY DEF SyncIsToCome, AddsAreCurrent
<1>2. SyncSawFiles'
  BY <1>1 DEF FilesInv, SyncSawFiles, sync
<1> QED BY <1>1, <1>2 DEF FilesInv

LEMMA FilesTriggered ==
    ASSUME FilesInv, TypeOK', NEW reset \in BOOLEAN, triggerSyncWithMediaStore(reset)
    PROVE  FilesInv'
<1>0. PICK m, last : m = Sync(reset) /\ last = Len(tasks) + 1
  OBVIOUS
<1>1. Appended(m) /\ m.op = "sync"
  BY <1>0 DEF FilesInv, TypeOK, triggerSyncWithMediaStore, Sync, Appended
<1>2. last \in Nat /\ IsSync(last)' /\ tasks'[last] = m
  <2>1. last \in Nat
    BY <1>0, <1>1, TasksAppended
  <2>2. IsSync(last)'
    BY <1>0, <1>1, <2>1, TasksAppended
  <2>3. tasks'[last] = m
    BY <1>0, <1>1, <2>1, TasksAppended
  <2> QED BY <2>1, <2>2, <2>3
<1>3. SyncIsToCome'
  BY <1>2 DEF SyncIsToCome
<1>4. ASSUME NEW i \in Nat, IsAdd(i)'
      PROVE  last > i
  <2>1. tasks'[i].op = "add"
    BY <1>4 DEF IsAdd
  <2>2. i <= last
    BY <1>0, <1>1, <1>4, TasksAppended
  <2>3. i # last
    BY <1>1, <1>2, <2>1
  <2> QED BY <1>2, <2>2, <2>3
<1>5. AddsAreCurrent'
  <2> SUFFICES ASSUME NEW i \in Nat, IsAdd(i)' PROVE \E j \in Nat : j > i /\ IsSync(j)'
    BY DEF AddsAreCurrent
  <2>1. last > i
    BY <1>4
  <2> QED BY <1>2, <2>1
<1>6. SyncSawFiles'
  BY <1>3 DEF FilesInv, SyncSawFiles, triggerSyncWithMediaStore, sync
<1> QED BY <1>3, <1>5, <1>6 DEF FilesInv

LEMMA FilesStartSync ==
    ASSUME FilesInv, TypeOK', StartSync
    PROVE  FilesInv'
<1>1. syncing' \in {"clearDatabase", "load"}
  BY DEF StartSync
<1>2. AddsAreCurrent'
  BY TakenAdds DEF FilesInv, TypeOK, StartSync, NextTask, Taken, history
<1> QED BY <1>1, <1>2 DEF FilesInv, SyncIsToCome, SyncSawFiles

LEMMA FilesCleared ==
    ASSUME FilesInv, TypeOK', ClearDatabase \/ ClearCache
    PROVE  FilesInv'
<1>1. syncing' \in {"clearCache", "load"}
  BY DEF ClearDatabase, ClearCache
<1>2. AddsAreCurrent'
  BY SameAdds DEF ClearDatabase, ClearCache
<1> QED BY <1>1, <1>2 DEF FilesInv, SyncIsToCome, SyncSawFiles

LEMMA FilesRestart ==
    ASSUME TypeOK', Restart
    PROVE  FilesInv'
<1>1. tasks' = <<Sync(FALSE)>> /\ syncing' = "no"
  BY DEF Restart
<1>2. Len(tasks') = 1 /\ tasks'[1].op = "sync"
  BY <1>1 DEF Sync
<1>3. IsSync(1)' /\ \A i \in Nat : ~IsAdd(i)'
  <2>1. \A i \in Nat : IsAdd(i)' => i = 1
    BY <1>2 DEF IsAdd
  <2>2. ~IsAdd(1)'
    BY <1>2 DEF IsAdd
  <2>3. IsSync(1)'
    BY <1>2 DEF IsSync
  <2> QED BY <2>1, <2>2, <2>3
<1>4. SyncIsToCome' /\ AddsAreCurrent'
  BY <1>3 DEF SyncIsToCome, AddsAreCurrent
<1>5. SyncSawFiles'
  BY <1>1 DEF SyncSawFiles
<1> QED BY <1>4, <1>5 DEF FilesInv

-----------------------------------------------------------------------------
(* Steps after which what was caught must be again.                         *)

LEMMA FilesLoad ==
    ASSUME FilesInv, TypeOK', Load
    PROVE  FilesInv'
<1>1. /\ syncing' = "query" /\ remaining' = { Loaded(id) : id \in MediaIds }
      /\ allSongIds' = MediaIds /\ UNCHANGED <<mediaStore, changed, cache, tasks>>
      /\ late' = { id \in late : \E i \in 1 .. Len(tasks) :
                                   tasks[i].op = "add" /\ tasks[i].song.id = id }
  BY DEF Load
<1>2. AddsAreCurrent'
  <2> SUFFICES ASSUME NEW i \in Nat, IsAdd(i)',
                      tasks'[i].song.version # mediaStore'[tasks'[i].song.id],
                      tasks'[i].song.id \notin late', ~changed'
               PROVE  \E j \in Nat : j > i /\ IsSync(j)'
    BY DEF AddsAreCurrent
  <2>1. IsAdd(i) /\ tasks'[i] = tasks[i]
    BY <1>1, SameTasks
  <2>2. tasks[i].song.id \notin late
    BY <1>1, <2>1 DEF IsAdd
  <2>3. \E j \in Nat : j > i /\ IsSync(j)
    BY <1>1, <2>1, <2>2 DEF FilesInv, AddsAreCurrent
  <2> QED BY <1>1, <2>3, SameTasks
<1>3. SyncSawFiles'
  BY <1>1 DEF SyncSawFiles, MediaIds
<1>4. ASSUME NEW id \in Id PROVE Caught(id)'
  <2>1. CASE mediaStore[id] = Absent
    BY <1>1, <2>1 DEF Caught, OrphanIsGoing
  <2>2. CASE mediaStore[id] # Absent
    <3>1. Loaded(id)' = Loaded(id) /\ Loaded(id) \in remaining'
      BY <1>1, <2>2 DEF Loaded, MediaIds
    <3>2. ToLook(id)'
      BY <1>1, <3>1 DEF ToLook
    <3> QED BY <1>1, <2>2, <3>2 DEF Caught, FileIsComing, OutdatedIsGoing
  <2> QED BY <2>1, <2>2
<1> QED BY <1>2, <1>3, <1>4 DEF FilesInv

(* Steps of threads that leave songs and tasks alone.                       *)
StaysHeld ==
    \A t \in Threads : pc[t] \in {"remove", "delete", "post"} =>
        /\ holding'[t] = holding[t]
        /\ pc'[t] \in {"remove", "delete", "post"} /\ (pc[t] = "remove" => pc'[t] = "remove")

LEMMA HeldStays ==
    ASSUME StaysHeld, NEW id
    PROVE  /\ Held(id, {"remove", "delete", "post"}) => Held(id, {"remove", "delete", "post"})'
           /\ Held(id, {"remove"}) => Held(id, {"remove"})'
  BY DEF StaysHeld, Held

(* What is caught stays so, if each of its reasons does.                    *)
Kept(id) ==
    /\ UNCHANGED mediaStore
    /\ Shown(id) => Shown(id)'
    /\ ToLook(id) => ToLook(id)' \/ Shown(id)'
    /\ ToAdd(id) => ToAdd(id)'
    /\ Held(id, {"remove", "delete", "post"}) => Held(id, {"remove", "delete", "post"})'
    /\ Held(id, {"remove"}) => Held(id, {"remove"})'
    /\ cache[id] = Absent => cache'[id] = Absent

LEMMA KeptCaught ==
    ASSUME NEW id \in Id, mediaStore[id] # Absent, Caught(id), Kept(id)
    PROVE  Caught(id)'
<1>1. FileIsComing(id) /\ OutdatedIsGoing(id)
  BY DEF Caught
<1>2. FileIsComing(id)'
  BY <1>1 DEF Kept, FileIsComing
<1>3. OutdatedIsGoing(id)'
  BY <1>1 DEF Kept, OutdatedIsGoing
<1>4. mediaStore'[id] # Absent
  BY DEF Kept
<1> QED BY <1>2, <1>3, <1>4 DEF Caught

LEMMA FilesHeld ==
    ASSUME FilesInv, TypeOK', StaysHeld,
           UNCHANGED <<mediaStore, changed, cache, tasks, sync, late, left>>
    PROVE  FilesInv'
<1>1. AddsAreCurrent' /\ (SyncIsToCome' <=> SyncIsToCome)
  BY SameAdds, SameSyncs DEF sync
<1>2. SyncSawFiles'
  BY <1>1 DEF FilesInv, SyncSawFiles, MediaIds, sync
<1>3. ASSUME NEW id \in Id, Caught(id) PROVE Caught(id)'
  <2>1. /\ Shown(id)' <=> Shown(id)
        /\ ToLook(id)' <=> ToLook(id)
        /\ OrphanIsGoing(id)' <=> OrphanIsGoing(id)
    BY DEF Shown, ToLook, Loaded, OrphanIsGoing, sync
  <2>2. ToAdd(id)' <=> ToAdd(id)
    BY SameTasks
  <2> QED BY <1>3, <2>1, <2>2, HeldStays DEF Caught, FileIsComing, OutdatedIsGoing
<1> QED BY <1>1, <1>2, <1>3 DEF FilesInv

(* What a look at a song of MediaStore leads to.                            *)
LEMMA Looked ==
    ASSUME ThreadsOK, NEW t \in Threads, NEW s \in Song, Look(t, s), pc[t] = "idle"
    PROVE  /\ StaysHeld
           /\ \/ cache[s.id] # Absent /\ cache[s.id].version = s.version
              \/ cache[s.id] # Absent /\ Held(s.id, {"remove"})'
              \/ cache[s.id] = Absent /\ Held(s.id, {"post"})'
<1>1. CASE cache[s.id] # Absent /\ cache[s.id].version = s.version
  BY <1>1 DEF Look, threads, StaysHeld
<1>2. CASE ~(cache[s.id] # Absent /\ cache[s.id].version = s.version)
  <2>1. /\ pc' = [pc EXCEPT ![t] = IF cache[s.id] # Absent THEN "remove" ELSE "post"]
        /\ holding' = [holding EXCEPT ![t] = s]
    BY <1>2 DEF Look, Step
  <2>2. /\ pc'[t] = (IF cache[s.id] # Absent THEN "remove" ELSE "post") /\ holding'[t] = s
        /\ \A u \in Threads : u # t => pc'[u] = pc[u] /\ holding'[u] = holding[u]
    BY <2>1 DEF ThreadsOK
  <2>3. StaysHeld
    BY <2>2 DEF StaysHeld
  <2>4. PICK id : id = s.id
    OBVIOUS
  <2>5. CASE cache[s.id] # Absent
    <3>1. Held(id, {"remove"})'
      BY <2>2, <2>4, <2>5 DEF Held
    <3> QED BY <2>3, <2>4, <2>5, <3>1 DEF Held
  <2>6. CASE cache[s.id] = Absent
    <3>1. Held(id, {"post"})'
      BY <2>2, <2>4, <2>6 DEF Held
    <3> QED BY <2>3, <2>4, <2>6, <3>1 DEF Held
  <2> QED BY <2>5, <2>6
<1> QED BY <1>1, <1>2

LEMMA FilesQuery ==
    ASSUME FilesInv, TypeOK', Query
    PROVE  FilesInv'
<1>1. PICK s \in remaining : remaining' = remaining \ {s} /\ Look("executor", s)
  BY DEF Query
<1>2. /\ UNCHANGED <<mediaStore, changed, cache, tasks, syncing, allSongIds, late, left>>
      /\ syncing = "query" /\ pc["executor"] = "idle"
  BY DEF Query, history
<1>3. s \in Song /\ ThreadsOK /\ "executor" \in Threads
  BY DEF FilesInv, TypeOK, SyncOK, Threads
<1>4. StaysHeld
  BY <1>1, <1>2, <1>3, Looked
<1>5. AddsAreCurrent' /\ (SyncIsToCome' <=> SyncIsToCome)
  BY <1>2, SameAdds, SameSyncs
<1>6. SyncSawFiles'
  BY <1>2, <1>5 DEF FilesInv, SyncSawFiles, MediaIds
<1>7. ASSUME NEW id \in Id, Caught(id) PROVE Caught(id)'
  <2>1. CASE mediaStore[id] = Absent
    BY <1>2, <2>1 DEF Caught, OrphanIsGoing
  <2>2. CASE mediaStore[id] # Absent
    <3>1. /\ Shown(id)' <=> Shown(id)
          /\ Loaded(id)' = Loaded(id)
          /\ ToAdd(id)' <=> ToAdd(id)
      BY <1>2, SameTasks DEF Shown, Loaded
    <3>2. CASE s = Loaded(id)
      <4>1. s.id = id /\ s.version = mediaStore[id]
        BY <3>2 DEF Loaded
      <4>2. \/ Shown(id)
            \/ cache[id] # Absent /\ Held(id, {"remove"})'
            \/ cache[id] = Absent /\ Held(id, {"post"})'
        <5>1. PICK x : x = s.id
          OBVIOUS
        <5> QED BY <1>1, <1>2, <1>3, <4>1, Looked DEF Shown, Held
      <4>3. /\ Held(id, {"remove"})' => Held(id, {"remove", "delete", "post"})'
            /\ Held(id, {"post"})' => Held(id, {"remove", "delete", "post"})'
        BY DEF Held
      <4>4. FileIsComing(id)'
        BY <3>1, <4>2, <4>3 DEF FileIsComing
      <4>5. cache'[id] = cache[id] /\ mediaStore'[id] = mediaStore[id]
        BY <1>2
      <4>6. OutdatedIsGoing(id)'
        BY <3>1, <4>2, <4>5 DEF OutdatedIsGoing
      <4> QED BY <2>2, <4>4, <4>5, <4>6 DEF Caught
    <3>3. CASE s # Loaded(id)
      <4>1. ToLook(id)' <=> ToLook(id)
        <5>1. Loaded(id)' = Loaded(id) /\ syncing' = syncing
          BY <1>2, <3>1
        <5>2. Loaded(id) \in remaining' <=> Loaded(id) \in remaining
          BY <1>1, <3>3
        <5> QED BY <5>1, <5>2 DEF ToLook
      <4>2. /\ Held(id, {"remove", "delete", "post"}) => Held(id, {"remove", "delete", "post"})'
            /\ Held(id, {"remove"}) => Held(id, {"remove"})'
        BY <1>4, HeldStays
      <4>3. UNCHANGED mediaStore /\ (cache[id] = Absent => cache'[id] = Absent)
        BY <1>2
      <4>4. Kept(id)
        BY <3>1, <4>1, <4>2, <4>3 DEF Kept
      <4> QED BY <1>7, <2>2, <4>4, KeptCaught
    <3> QED BY <3>2, <3>3
  <2> QED BY <2>1, <2>2
<1> QED BY <1>2, <1>5, <1>6, <1>7 DEF FilesInv

LEMMA FilesStartClean ==
    ASSUME FilesInv, TypeOK', StartClean
    PROVE  FilesInv'
<1>1. /\ UNCHANGED <<mediaStore, changed, cache, tasks, allSongIds, late, pc, holding>>
      /\ syncing = "query" /\ syncing' = "clean" /\ remaining = {}
      /\ remaining' = { cache[id] : id \in OrphansAmong(CacheIds) }
      /\ left' = IF CacheIds \cap allSongIds = {} THEN CacheIds ELSE {}
  BY DEF StartClean, threads
<1>2. AddsAreCurrent' /\ (SyncIsToCome' <=> SyncIsToCome)
  BY <1>1, SameAdds, SameSyncs
<1>3. \A id \in CacheIds : id \in Id /\ cache[id].id = id
  BY CachedType DEF FilesInv, TypeOK, CacheIds
<1>4. \A s \in remaining' : s.id \notin allSongIds
  BY <1>1, <1>3 DEF OrphansAmong
<1>5. ~SyncIsToCome => allSongIds = MediaIds
  BY <1>1 DEF FilesInv, SyncSawFiles
<1>6. SyncSawFiles'
  BY <1>1, <1>2, <1>4, <1>5 DEF SyncSawFiles, MediaIds
<1>7. ASSUME NEW id \in Id, Caught(id), ~SyncIsToCome PROVE Caught(id)'
  <2>1. CASE mediaStore[id] = Absent
    <3>1. id \notin allSongIds
      BY <1>5, <1>7, <2>1 DEF MediaIds
    <3>2. CASE id \notin CacheIds
      BY <1>1, <2>1, <3>2 DEF Caught, OrphanIsGoing, CacheIds
    <3>3. CASE id \in CacheIds /\ CacheIds \cap allSongIds = {}
      BY <1>1, <2>1, <3>3 DEF Caught, OrphanIsGoing
    <3>4. CASE id \in CacheIds /\ CacheIds \cap allSongIds # {}
      <4>1. cache[id] \in remaining' /\ cache[id].id = id
        BY <1>1, <1>3, <3>1, <3>4 DEF OrphansAmong
      <4> QED BY <1>1, <2>1, <4>1 DEF Caught, OrphanIsGoing
    <3> QED BY <3>2, <3>3, <3>4
  <2>2. CASE mediaStore[id] # Absent
    <3>1. /\ Shown(id)' <=> Shown(id)
          /\ ~ToLook(id)
          /\ ToAdd(id)' <=> ToAdd(id)
      BY <1>1, SameTasks DEF Shown, ToLook
    <3>2. StaysHeld
      BY <1>1 DEF StaysHeld
    <3>3. /\ Held(id, {"remove", "delete", "post"}) => Held(id, {"remove", "delete", "post"})'
          /\ Held(id, {"remove"}) => Held(id, {"remove"})'
      BY <3>2, HeldStays
    <3>4. UNCHANGED mediaStore /\ (cache[id] = Absent => cache'[id] = Absent)
      BY <1>1
    <3>5. Kept(id)
      BY <3>1, <3>3, <3>4 DEF Kept
    <3> QED BY <1>7, <2>2, <3>5, KeptCaught
  <2> QED BY <2>1, <2>2
<1> QED BY <1>1, <1>2, <1>6, <1>7 DEF FilesInv

LEMMA FilesClean ==
    ASSUME FilesInv, TypeOK', Clean
    PROVE  FilesInv'
<1>1. PICK s \in remaining : /\ remaining' = remaining \ {s}
                            /\ cache' = [cache EXCEPT ![s.id] = Absent]
  BY DEF Clean, removeFromCache
<1>2. /\ UNCHANGED <<mediaStore, changed, tasks, syncing, allSongIds, late, left, pc, holding>>
      /\ syncing = "clean"
  BY DEF Clean, threads
<1>3. s.id \in Id /\ s.id \notin allSongIds
  <2>1. s \in Song /\ s.id \notin allSongIds
    BY <1>2 DEF FilesInv, TypeOK, SyncOK, SyncSawFiles
  <2> QED BY <2>1, SongType
<1>4. AddsAreCurrent' /\ (SyncIsToCome' <=> SyncIsToCome)
  BY <1>2, SameAdds, SameSyncs
<1>5. SyncSawFiles'
  BY <1>1, <1>2, <1>4 DEF FilesInv, SyncSawFiles, MediaIds
<1>6. ASSUME NEW id \in Id, Caught(id), ~SyncIsToCome PROVE Caught(id)'
  <2>0. cache'[id] = IF id = s.id THEN Absent ELSE cache[id]
    BY <1>1, <1>3 DEF FilesInv, TypeOK, SongsOK
  <2>1. CASE mediaStore[id] = Absent
    BY <1>1, <1>2, <1>6, <2>0, <2>1 DEF Caught, OrphanIsGoing
  <2>2. CASE mediaStore[id] # Absent
    <3>1. id # s.id
      BY <1>2, <1>3, <1>6, <2>2 DEF FilesInv, SyncSawFiles, MediaIds
    <3>2. /\ Shown(id)' <=> Shown(id)
          /\ ToAdd(id)' <=> ToAdd(id)
          /\ ~ToLook(id)
      BY <1>2, <2>0, <3>1, SameTasks DEF Shown, ToLook
    <3> QED BY <1>2, <1>6, <2>0, <2>2, <3>1, <3>2
            DEF Caught, FileIsComing, OutdatedIsGoing, Held
  <2> QED BY <2>1, <2>2
<1> QED BY <1>2, <1>4, <1>5, <1>6 DEF FilesInv

LEMMA FilesFinishSync ==
    ASSUME FilesInv, TypeOK', FinishSync
    PROVE  FilesInv'
<1>1. /\ UNCHANGED <<mediaStore, changed, cache, tasks, late, left, pc, holding>>
      /\ syncing = "clean" /\ syncing' = "no" /\ remaining = {}
  BY DEF FinishSync, threads, history
<1>2. AddsAreCurrent' /\ (SyncIsToCome' <=> SyncIsToCome)
  BY <1>1, SameAdds, SameSyncs
<1>3. SyncSawFiles'
  BY <1>1 DEF SyncSawFiles
<1>4. ASSUME NEW id \in Id, Caught(id) PROVE Caught(id)'
  <2>1. /\ Shown(id)' <=> Shown(id)
        /\ ~ToLook(id)
        /\ ToAdd(id)' <=> ToAdd(id)
    BY <1>1, SameTasks DEF Shown, ToLook
  <2>2. StaysHeld
    BY <1>1 DEF StaysHeld
  <2>3. /\ Held(id, {"remove", "delete", "post"}) => Held(id, {"remove", "delete", "post"})'
        /\ Held(id, {"remove"}) => Held(id, {"remove"})'
    BY <2>2, HeldStays
  <2>4. UNCHANGED mediaStore /\ (cache[id] = Absent => cache'[id] = Absent)
    BY <1>1
  <2>5. CASE mediaStore[id] = Absent
    <3>1. OrphanIsGoing(id)
      BY <1>4, <2>5 DEF Caught
    <3>2. OrphanIsGoing(id)'
      BY <1>1, <3>1 DEF OrphanIsGoing
    <3> QED BY <2>4, <2>5, <3>2 DEF Caught
  <2>6. CASE mediaStore[id] # Absent
    <3>1. Kept(id)
      BY <2>1, <2>3, <2>4 DEF Kept
    <3> QED BY <1>4, <2>6, <3>1, KeptCaught
  <2> QED BY <2>5, <2>6
<1> QED BY <1>1, <1>2, <1>3, <1>4 DEF FilesInv

LEMMA FilesRemoveFromCache ==
    ASSUME FilesInv, TypeOK', NEW t \in Threads, RemoveFromCache(t)
    PROVE  FilesInv'
<1>0. PICK x : x = holding[t].id
  OBVIOUS
<1>1. /\ UNCHANGED <<mediaStore, changed, tasks, syncing, remaining, allSongIds, late, left>>
      /\ pc[t] = "remove" /\ pc' = [pc EXCEPT ![t] = "delete"]
      /\ holding' = [holding EXCEPT ![t] = holding[t]]
      /\ cache' = [cache EXCEPT ![x] = Absent]
  BY <1>0 DEF RemoveFromCache, removeFromCache, Step, sync, history
<1>2. x \in Id
  BY <1>0, <1>1, HeldSong DEF FilesInv, TypeOK
<1>3. /\ pc'[t] = "delete" /\ holding' = holding
      /\ \A u \in Threads : u # t => pc'[u] = pc[u]
  BY <1>1 DEF FilesInv, TypeOK, ThreadsOK
<1>4. AddsAreCurrent' /\ (SyncIsToCome' <=> SyncIsToCome)
  BY <1>1, SameAdds, SameSyncs
<1>5. SyncSawFiles'
  BY <1>1, <1>4 DEF FilesInv, SyncSawFiles, MediaIds
<1>6. ASSUME NEW id \in Id, Caught(id) PROVE Caught(id)'
  <2>0. cache'[id] = IF id = x THEN Absent ELSE cache[id]
    BY <1>1, <1>2 DEF FilesInv, TypeOK, SongsOK
  <2>1. CASE mediaStore[id] = Absent
    BY <1>1, <1>6, <2>0, <2>1 DEF Caught, OrphanIsGoing
  <2>2. CASE mediaStore[id] # Absent /\ id = x
    <3>1. Held(id, {"remove", "delete", "post"})'
      BY <1>0, <1>3, <2>2 DEF Held
    <3> QED BY <1>1, <2>0, <2>2, <3>1 DEF Caught, FileIsComing, OutdatedIsGoing
  <2>3. CASE mediaStore[id] # Absent /\ id # x
    <3>1. /\ Shown(id)' <=> Shown(id)
          /\ ToAdd(id)' <=> ToAdd(id)
          /\ ToLook(id)' <=> ToLook(id)
      BY <1>1, <2>0, <2>3, SameTasks DEF Shown, ToLook, Loaded
    <3>2. /\ Held(id, {"remove"}) => Held(id, {"remove"})'
          /\ Held(id, {"remove", "delete", "post"}) => Held(id, {"remove", "delete", "post"})'
      BY <1>0, <1>3, <2>3 DEF Held
    <3> QED BY <1>1, <1>6, <2>0, <2>3, <3>1, <3>2 DEF Caught, FileIsComing, OutdatedIsGoing
  <2> QED BY <2>1, <2>2, <2>3
<1> QED BY <1>1, <1>4, <1>5, <1>6 DEF FilesInv

-----------------------------------------------------------------------------
(* Songs are posted to the executor, and added by it.                       *)

LEMMA FilesAddSong ==
    ASSUME FilesInv, TypeOK', NEW t \in Threads, addSong(t)
    PROVE  FilesInv'
<1>1. PICK s, m, last : s = holding[t] /\ m = Add(s) /\ last = Len(tasks) + 1
  OBVIOUS
<1>2. /\ pc[t] = "post" /\ Appended(m) /\ m.op = "add" /\ m.song = s
      /\ UNCHANGED <<mediaStore, changed, cache, syncing, remaining, allSongIds, left>>
      /\ late' = IF s.version = mediaStore[s.id] THEN late ELSE late \cup {s.id}
      /\ pc' = [pc EXCEPT ![t] = "idle"] /\ holding' = [holding EXCEPT ![t] = Absent]
  BY <1>1 DEF addSong, Step, Appended, Add, sync, FilesInv, TypeOK
<1>3. \A u \in Threads : u # t => pc'[u] = pc[u] /\ holding'[u] = holding[u]
  BY <1>2 DEF FilesInv, TypeOK, ThreadsOK
<1>4. ASSUME NEW id
      PROVE  /\ Held(id, {"remove"}) => Held(id, {"remove"})'
             /\ Held(id, {"remove", "delete", "post"}) =>
                    Held(id, {"remove", "delete", "post"})' \/ id = s.id
  BY <1>1, <1>2, <1>3 DEF Held
<1>5. /\ \A i \in Nat : IsSync(i) => IsSync(i)'
      /\ \A i \in Nat : IsAdd(i) => IsAdd(i)' /\ tasks'[i] = tasks[i]
      /\ \A i \in Nat : IsAdd(i)' => IsAdd(i) \/ tasks'[i] = m
  BY <1>2, TasksAppended
<1>6. last \in Nat /\ IsAdd(last)' /\ tasks'[last] = m
  BY <1>1, <1>2, TasksAppended
<1>7. SyncIsToCome => SyncIsToCome'
  BY <1>2, <1>5 DEF SyncIsToCome
<1>8. SyncSawFiles'
  BY <1>2, <1>7 DEF FilesInv, SyncSawFiles, MediaIds
<1>9. AddsAreCurrent'
  <2> SUFFICES ASSUME NEW i \in Nat, IsAdd(i)',
                      tasks'[i].song.version # mediaStore[tasks'[i].song.id],
                      tasks'[i].song.id \notin late', ~changed
               PROVE  \E j \in Nat : j > i /\ IsSync(j)'
    BY <1>2 DEF AddsAreCurrent
  <2>1. tasks'[i] # m
    BY <1>2
  <2>2. IsAdd(i) /\ tasks'[i] = tasks[i]
    BY <1>5, <2>1
  <2>3. tasks[i].song.id \notin late
    BY <1>2, <2>2
  <2>4. \E j \in Nat : j > i /\ IsSync(j)
    BY <2>2, <2>3 DEF FilesInv, AddsAreCurrent
  <2> QED BY <1>5, <2>4
<1>10. ASSUME NEW id \in Id, Caught(id) PROVE Caught(id)'
  <2>1. CASE mediaStore[id] = Absent
    BY <1>2, <1>10, <2>1 DEF Caught, OrphanIsGoing
  <2>2. CASE mediaStore[id] # Absent
    <3>1. FileIsComing(id) /\ OutdatedIsGoing(id)
      BY <1>10, <2>2 DEF Caught
    <3>2. Shown(id) => Shown(id)'
      BY <1>2 DEF Shown
    <3>3. ToLook(id) => ToLook(id)'
      BY <1>2 DEF ToLook, Loaded
    <3>4. ToAdd(id) => ToAdd(id)'
      BY <1>5 DEF ToAdd
    <3>5. id = s.id => ToAdd(id)'
      BY <1>2, <1>6 DEF ToAdd
    <3>6. FileIsComing(id)'
      BY <1>4, <3>1, <3>2, <3>3, <3>4, <3>5 DEF FileIsComing
    <3>7. OutdatedIsGoing(id)'
      BY <1>2, <1>4, <3>1, <3>2, <3>3 DEF OutdatedIsGoing
    <3> QED BY <1>2, <2>2, <3>6, <3>7 DEF Caught
  <2> QED BY <2>1, <2>2
<1>11. late \subseteq late'
  BY <1>2
<1> QED BY <1>7, <1>8, <1>9, <1>10, <1>11 DEF FilesInv

LEMMA FilesAddSongImpl ==
    ASSUME FilesInv, TypeOK', addSongImpl
    PROVE  FilesInv'
<1>1. PICK s : s = Head(tasks).song
  OBVIOUS
<1>2. /\ Taken /\ Head(tasks).op = "add" /\ syncing = "no" /\ s \in Song
      /\ UNCHANGED <<mediaStore, changed, syncing, remaining, allSongIds, left, late, pc,
                      holding>>
      /\ IF isThere(s) THEN UNCHANGED cache ELSE cache' = [cache EXCEPT ![s.id] = s]
  BY <1>1, TaskTypes DEF addSongImpl, NextTask, atRest, Taken, sync, threads, FilesInv, TypeOK
<1>3. s.id \in Id /\ s.version # Absent
  BY <1>2, SongType, AbsentAssumption
<1>4. cache'[s.id] = IF isThere(s) THEN cache[s.id] ELSE s
  BY <1>2, <1>3 DEF FilesInv, TypeOK, SongsOK
<1>5. \A id \in Id : id # s.id => cache'[id] = cache[id]
  BY <1>2, <1>3 DEF FilesInv, TypeOK, SongsOK
<1>6. IsAdd(1) /\ ~IsSync(1) /\ tasks[1].song = s
  BY <1>1, <1>2, TasksTaken
<1>7. \A i \in Nat : (IsAdd(i) \/ IsSync(i)) /\ i # 1 => i > 1
  <2> SUFFICES ASSUME NEW i \in Nat, IsAdd(i) \/ IsSync(i), i # 1 PROVE i > 1
    OBVIOUS
  <2>1. i >= 1
    BY <1>2, TasksTaken
  <2> QED BY <2>1
<1>8. SyncIsToCome => SyncIsToCome'
  <2>1. ASSUME NEW i \in Nat, IsSync(i) PROVE \E j \in Nat : IsSync(j)'
    <3>1. i > 1
      BY <1>6, <1>7, <2>1
    <3>2. i - 1 \in Nat /\ IsSync(i - 1)'
      BY <1>2, <2>1, <3>1, TasksTaken
    <3> QED BY <3>2
  <2> QED BY <1>2, <2>1 DEF SyncIsToCome
<1>9. AddsAreCurrent' /\ SyncSawFiles'
  BY <1>2, TakenAdds DEF SyncSawFiles
<1>10. ASSUME NEW id \in Id \ late, Caught(id), ~SyncIsToCome PROVE Caught(id)'
  <2>1. id = s.id => s.version = mediaStore[id]
    BY <1>6, <1>10 DEF FilesInv, AddsAreCurrent, SyncIsToCome
  <2>2. CASE mediaStore[id] = Absent
    <3>1. id # s.id \/ isThere(s)
      BY <1>3, <2>1, <2>2
    <3>2. cache'[id] = cache[id]
      BY <1>4, <1>5, <3>1
    <3> QED BY <1>2, <1>10, <2>2, <3>2 DEF Caught, OrphanIsGoing
  <2>3. CASE mediaStore[id] # Absent
    <3>1. FileIsComing(id) /\ OutdatedIsGoing(id) /\ ~ToLook(id)
      BY <1>2, <1>10, <2>3 DEF Caught, ToLook
    <3>2. ASSUME NEW labels PROVE Held(id, labels)' <=> Held(id, labels)
      BY <1>2 DEF Held
    <3>3. CASE id # s.id
      <4>1. cache'[id] = cache[id] /\ (Shown(id)' <=> Shown(id))
        BY <1>2, <1>5, <3>3 DEF Shown
      <4>2. ToAdd(id) => ToAdd(id)'
        <5> SUFFICES ASSUME NEW i \in Nat, IsAdd(i), tasks[i].song.id = id PROVE ToAdd(id)'
          BY DEF ToAdd
        <5>1. i > 1
          BY <1>6, <1>7, <3>3
        <5>2. i - 1 \in Nat /\ IsAdd(i - 1)' /\ tasks'[i - 1] = tasks[i]
          BY <1>2, <5>1, TasksTaken
        <5>3. PICK j \in Nat : IsAdd(j)' /\ tasks'[j].song.id = id
          BY <5>2
        <5> QED BY <5>3 DEF ToAdd
      <4>3. Kept(id)
        BY <1>2, <3>1, <3>2, <4>1, <4>2 DEF Kept
      <4> QED BY <1>10, <2>3, <4>3, KeptCaught
    <3>4. CASE id = s.id /\ isThere(s)
      <4>1. cache'[id] = cache[id] /\ cache[id] # Absent /\ (Shown(id)' <=> Shown(id))
        BY <1>2, <1>4, <3>4 DEF Shown, isThere
      <4>2. Shown(id) \/ Held(id, {"remove"})
        BY <3>1, <4>1 DEF OutdatedIsGoing
      <4>3. Held(id, {"remove"}) => Held(id, {"remove", "delete", "post"})
        BY DEF Held
      <4>4. FileIsComing(id)' /\ OutdatedIsGoing(id)'
        BY <3>2, <4>1, <4>2, <4>3 DEF FileIsComing, OutdatedIsGoing
      <4> QED BY <1>2, <2>3, <4>4 DEF Caught
    <3>5. CASE id = s.id /\ ~isThere(s)
      <4>1. cache'[id] = s /\ s.version = mediaStore'[id]
        BY <1>2, <1>4, <2>1, <3>5
      <4>2. Shown(id)'
        BY <1>2, <4>1, SongType DEF Shown
      <4> QED BY <1>2, <2>3, <4>2 DEF Caught, FileIsComing, OutdatedIsGoing
    <3> QED BY <3>3, <3>4, <3>5
  <2> QED BY <2>2, <2>3
<1> QED BY <1>2, <1>8, <1>9, <1>10 DEF FilesInv

-----------------------------------------------------------------------------
(* All steps.                                                               *)

LEMMA FilesStep == FilesInv /\ [Next]_vars => FilesInv'
<1> SUFFICES ASSUME FilesInv, [Next]_vars PROVE FilesInv'
  OBVIOUS
<1>0. TypeOK' /\ ThreadsOK
  BY TypeStep DEF FilesInv, TypeOK
<1>1. CASE Executor
  BY <1>0, <1>1, FilesAddSongImpl, FilesStartSync, FilesCleared, FilesLoad, FilesQuery,
     FilesStartClean, FilesClean, FilesFinishSync DEF Executor
<1>2. CASE Callers
  <2>1. ASSUME NEW id \in Id, getOrAddSong(id) PROVE FilesInv'
    <3>1. PICK s : s = Loaded(id)
      OBVIOUS
    <3>2. /\ Look("loader", s) /\ pc["loader"] = "idle" /\ s \in Song /\ "loader" \in Threads
      BY <2>1, <3>1, LoadedType DEF getOrAddSong, FilesInv, TypeOK, Threads
    <3>3. StaysHeld
      BY <1>0, <3>2, Looked
    <3> QED BY <1>0, <2>1, <3>3, FilesHeld DEF getOrAddSong, history
  <2>2. ASSUME NEW id \in Id, Detect(id) PROVE FilesInv'
    <3>1. StaysHeld
      BY <1>0, <2>2 DEF Detect, Step, ThreadsOK, StaysHeld, Threads
    <3> QED BY <1>0, <2>2, <3>1, FilesHeld DEF Detect, history
  <2>3. ASSUME NEW id \in Id, removeSongByPath(id) PROVE FilesInv'
    BY <1>0, <2>3, FilesChanged DEF removeSongByPath
  <2>4. ASSUME NEW reset \in BOOLEAN, triggerSyncWithMediaStore(reset) PROVE FilesInv'
    BY <1>0, <2>4, FilesTriggered
  <2> QED BY <1>2, <2>1, <2>2, <2>3, <2>4 DEF Callers
<1>3. CASE updateSongInDatabase
  <2>1. StaysHeld
    BY <1>0, <1>3 DEF updateSongInDatabase, Step, ThreadsOK, StaysHeld, Threads
  <2> QED BY <1>0, <1>3, <2>1, FilesHeld DEF updateSongInDatabase, history
<1>4. CASE Restart
  BY <1>0, <1>4, FilesRestart
<1>5. ASSUME NEW t \in Threads, RemoveFromDatabase(t) PROVE FilesInv'
  <2>1. StaysHeld
    BY <1>0, <1>5 DEF RemoveFromDatabase, Step, ThreadsOK, StaysHeld
  <2> QED BY <1>0, <1>5, <2>1, FilesHeld DEF RemoveFromDatabase
<1>6. ASSUME NEW id \in Id, Change(id) PROVE FilesInv'
  BY <1>0, <1>6, FilesChanged DEF Change
<1>7. CASE UNCHANGED vars
  <2>1. StaysHeld
    BY <1>7 DEF vars, threads, StaysHeld
  <2> QED BY <1>0, <1>7, <2>1, FilesHeld DEF vars, history
<1> QED BY <1>0, <1>1, <1>2, <1>3, <1>4, <1>5, <1>6, <1>7, FilesRemoveFromCache, FilesAddSong
        DEF Next

(* The synchronisations catch up with MediaStore, whatever loads, detections, *)
(* edits and changes come between their steps: once all is done and every     *)
(* change was heard of, the songs shown are those of MediaStore in their      *)
(* version there, but for those a thread added outdated since                 *)
(* (syncWithMediaStore, getOrAddSong, addSongImpl).                           *)
THEOREM MediaStoreAlwaysShown == Spec => []MediaStoreIsShown
<1>1. Init => FilesInv
  <2> SUFFICES ASSUME Init PROVE FilesInv
    OBVIOUS
  <2>1. tasks = <<Sync(FALSE)>> /\ syncing = "no"
    BY DEF Init
  <2>2. Len(tasks) = 1 /\ tasks[1].op = "sync"
    BY <2>1 DEF Sync
  <2>3. IsSync(1) /\ \A i \in Nat : ~IsAdd(i)
    BY <2>2 DEF IsSync, IsAdd
  <2> QED BY <2>1, <2>3, TypeInit DEF FilesInv, SyncIsToCome, AddsAreCurrent, SyncSawFiles
<1>2. FilesInv => MediaStoreIsShown
  <2> SUFFICES ASSUME FilesInv, Quiet, NEW id \in Id \ late
               PROVE  IF mediaStore[id] = Absent THEN id \in left \/ cache[id] = Absent
                      ELSE cache[id] # Absent /\ cache[id].version = mediaStore[id]
    BY DEF MediaStoreIsShown
  <2>1. /\ syncing = "no" /\ ~changed /\ Len(tasks) = 0
        /\ \A t \in Threads : pc[t] = "idle"
    BY DEF Quiet
  <2>2. \A i \in Nat : ~IsSync(i) /\ ~IsAdd(i)
    BY <2>1 DEF IsSync, IsAdd
  <2>3. ~SyncIsToCome
    BY <2>1, <2>2 DEF SyncIsToCome
  <2>4. /\ ~ToLook(id) /\ ~ToAdd(id)
        /\ ~Held(id, {"remove", "delete", "post"})
    BY <2>1, <2>2 DEF ToLook, ToAdd, Held
  <2>5. Caught(id)
    BY <2>3 DEF FilesInv
  <2> QED BY <2>1, <2>4, <2>5 DEF Caught, FileIsComing, OrphanIsGoing, Shown
<1> QED BY <1>1, <1>2, FilesStep, PTL DEF Spec

=============================================================================
