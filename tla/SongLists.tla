------------------------------ MODULE SongLists ------------------------------
(***************************************************************************)
(* The list operations MusicService applies to its two queues.             *)
(*                                                                         *)
(* A java.util.ArrayList is a sequence; the code's positions are 0-based,  *)
(* so the entry at position i is list[i + 1].  Song ids stand for songs:   *)
(* two Song objects with one id are equal in the queue (Song.equals also   *)
(* compares tags, which change only when a file is edited).                *)
(***************************************************************************)
EXTENDS Integers, Sequences, FiniteSets, SequencesExt

(* The positions the code may pass to get(), set() or remove(int). *)
Positions(list) == 0 .. Len(list) - 1

(* ArrayList.remove(int), add(int, E) and addAll(int, Collection). *)
Delete(list, i) == RemoveAt(list, i + 1)
InsertAll(list, i, songs) == SubSeq(list, 1, i) \o songs \o SubSeq(list, i + 1, Len(list))

(* MusicService.moveSong on one list: remove(from), then add(to, it). *)
Move(list, from, to) == InsertAll(Delete(list, from), to, <<list[from + 1]>>)

(* ArrayList.indexOf for a song that is in the list. *)
IndexOf(list, song) ==
    CHOOSE i \in Positions(list) :
        /\ list[i + 1] = song
        /\ \A j \in 0 .. i - 1 : list[j + 1] # song

(* ArrayList.remove(Object): the first equal entry goes, if there is one. *)
DeleteFirst(list, song) ==
    IF \E i \in DOMAIN list : list[i] = song THEN Delete(list, IndexOf(list, song)) ELSE list

(* How often a song is in a list. *)
Copies(list, song) == Cardinality({ i \in DOMAIN list : list[i] = song })

-----------------------------------------------------------------------------
(* Keeping some entries of a list, in their order. *)

(* The k-th smallest element of a finite set of integers. *)
Nth(S, k) == CHOOSE i \in S : Cardinality({ j \in S : j < i }) = k - 1

Keep(list, kept) == [k \in 1 .. Cardinality(kept) |-> list[Nth(kept, k)]]

(* The entries MusicService.removeSong(Song) deletes.  Its loop increments *)
(* i after a deletion too, so the entry that slid into place i is not      *)
(* looked at: of a run of equal entries every second one stays.            *)
LoopDeletes(list, song) ==
    LET RunStart(i) == CHOOSE s \in 1 .. i :
                          /\ \A j \in s .. i : list[j] = song
                          /\ s = 1 \/ list[s - 1] # song
    IN { i \in DOMAIN list : list[i] = song /\ (i - RunStart(i)) % 2 = 0 }

LoopDelete(list, song) == Keep(list, DOMAIN list \ LoopDeletes(list, song))

-----------------------------------------------------------------------------
(* ShuffleHelper.makeShuffleList: every order Collections.shuffle may give. *)
(* The entry at a current position >= 0 comes first.  The code throws when  *)
(* current is past the end; the callers model that case.                    *)

Permutation(n) == { p \in [1 .. n -> 1 .. n] : IsInjective(p) }

Shuffles(list, current) ==
    { [i \in DOMAIN list |-> list[p[i]]] :
        p \in { q \in Permutation(Len(list)) :
                    list # <<>> /\ current >= 0 => q[1] = current + 1 } }

=============================================================================
