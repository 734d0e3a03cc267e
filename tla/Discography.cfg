SPECIFICATION Spec
CONSTANTS
  a = a
  b = b
  v1 = v1
  v2 = v2
  rock = rock
  jazz = jazz
  Absent = Absent
  Id <- Ids
  Version <- AllVersions
  Genre <- Genres
  GenreOf <- GenreOfSong
  MaxCalls = 2
  MaxRows = 1
INVARIANTS
  TypeOK
  QuietCacheMatchesDatabase
  MediaStoreIsShown
  GenresListTheirSongs
