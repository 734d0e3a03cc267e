---------------------------- MODULE MCDiscography ----------------------------
(* The instance of Discography that TLC checks: two songs, one of which     *)
(* has two versions, the second of the genre of the other song.             *)
EXTENDS Discography

CONSTANTS a, b, v1, v2, rock, jazz

Ids == {a, b}
AllVersions == {v1, v2}
Genres == {rock, jazz}
GenreOfSong == [id \in Ids |-> IF id = a THEN [v \in AllVersions |-> IF v = v1 THEN rock ELSE jazz]
                                ELSE [v \in {v1} |-> jazz]]

=============================================================================
