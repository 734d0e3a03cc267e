SPECIFICATION Spec
CONSTANTS
  s1 = s1
  s2 = s2
  NoSong = NoSong
  Song <- Songs
  Tempos <- TempoRange
  Targets <- TargetRange
INVARIANTS
  TypeOK
  SpeedFollowsTarget
  
SYMMETRY Symmetry
