-------------------------- MODULE SongLists_proofs --------------------------
(***************************************************************************)
(* What the list operations of SongLists return, keep and count, for lists *)
(* of any length.                                                          *)
(***************************************************************************)
EXTENDS SongLists, SequenceTheorems, FunctionTheorems, FiniteSetTheorems,
        NaturalsInduction, WellFoundedInduction, TLAPS

-----------------------------------------------------------------------------
(* A set of naturals that is not empty has a least element, and a greatest *)
(* one if it is bounded.                                                    *)

LEMMA LeastElement ==
    ASSUME NEW T, T \subseteq Nat, T # {}
    PROVE  \E x \in T : \A y \in T : x <= y
<1> DEFINE R == OpToRel(<, Nat)
<1>1. IsWellFoundedOn(R, Nat)
    BY NatLessThanWellFounded
<1>2. \A x, y \in Nat : y < x => <<y, x>> \in R
    BY DEF OpToRel
<1> HIDE DEF R
<1>3. PICK x \in T : \A y \in T : <<y, x>> \notin R
    BY <1>1, WFMin
<1>4. ASSUME NEW y \in T PROVE x <= y
    <2>1. x \in Nat /\ y \in Nat /\ ~ (y < x)
        BY <1>2, <1>3
    <2>. QED
        BY <2>1
<1>. QED
    BY <1>4

LEMMA GreatestElement ==
    ASSUME NEW n \in Nat, NEW T, T \subseteq 0 .. n, T # {}
    PROVE  \E x \in T : \A y \in T : y <= x
<1> DEFINE Mirror == { n - x : x \in T }
<1>1. Mirror \subseteq Nat
    OBVIOUS
<1>2. Mirror # {}
    OBVIOUS
<1>3. PICK m \in Mirror : \A y \in Mirror : m <= y
    <2> HIDE DEF Mirror
    <2>. QED BY <1>1, <1>2, LeastElement
<1>4. PICK x \in T : m = n - x
    OBVIOUS
<1>5. ASSUME NEW y \in T PROVE y <= x
    <2>1. n - y \in Mirror
        OBVIOUS
    <2>. QED
        BY <2>1, <1>3, <1>4
<1>. QED
    BY <1>5

-----------------------------------------------------------------------------
(* The k-th smallest element of a finite set of positions exists.          *)

LEMMA PositionsFinite ==
    ASSUME NEW n \in Nat, NEW K \in SUBSET (1 .. n)
    PROVE  IsFiniteSet(K) /\ Cardinality(K) \in Nat
<1>1. IsFiniteSet(1 .. n)
    BY FS_Interval
<1>2. IsFiniteSet(K)
    BY <1>1, FS_Subset
<1>. QED
    BY <1>2, FS_CardinalityType

LEMMA NthExists ==
    ASSUME NEW n \in Nat, NEW K \in SUBSET (1 .. n), NEW k \in 1 .. Cardinality(K)
    PROVE  /\ Nth(K, k) \in K
           /\ Cardinality({ j \in K : j < Nth(K, k) }) = k - 1
<1> DEFINE Below(i) == { j \in K : j < i }
           T == { i \in K : Cardinality(Below(i)) >= k - 1 }
<1>1. \A i : IsFiniteSet(Below(i)) /\ Cardinality(Below(i)) \in Nat
    <2>1. \A i : Below(i) \in SUBSET (1 .. n)
        OBVIOUS
    <2> HIDE DEF Below
    <2>. QED
        BY <2>1, PositionsFinite
<1>2. IsFiniteSet(K) /\ Cardinality(K) \in Nat
    BY PositionsFinite
<1>3. ASSUME NEW i \in Nat, NEW y \in Below(i), \A j \in Below(i) : j <= y
      PROVE  Cardinality(Below(y)) = Cardinality(Below(i)) - 1
    <2>1. ASSUME NEW j \in K PROVE j < y <=> j < i /\ j # y
        BY <1>3
    <2>2. Below(y) = Below(i) \ {y}
        BY <2>1
    <2> HIDE DEF Below
    <2>. QED
        BY <2>2, <1>1, FS_RemoveElement
<1>4. K # {}
    BY FS_EmptySet
<1>5. PICK m \in K : \A j \in K : j <= m
    <2>1. K \subseteq 0 .. n
        OBVIOUS
    <2>. QED
        BY <2>1, <1>4, GreatestElement
<1>6. m \in T
    <2>1. ASSUME NEW j \in K PROVE j < m <=> j # m
        BY <1>5
    <2>2. Below(m) = K \ {m}
        BY <2>1
    <2>3. Cardinality(Below(m)) = Cardinality(K) - 1
        BY <2>2, <1>2, FS_RemoveElement
    <2>. QED
        BY <2>3, <1>2
<1>7. PICK x \in T : \A y \in T : x <= y
    <2>1. T \subseteq K /\ K \subseteq Nat
        <3> HIDE DEF Below
        <3>. QED OBVIOUS
    <2> HIDE DEF T
    <2>. QED
        BY <2>1, <1>6, LeastElement
<1>8. Cardinality(Below(x)) = k - 1
    <2>1. SUFFICES ASSUME Cardinality(Below(x)) # k - 1 PROVE FALSE
        OBVIOUS
    <2>2. Cardinality(Below(x)) >= k
        BY <2>1, <1>1
    <2>3. Below(x) # {}
        BY <2>2, FS_EmptySet
    <2>4. Below(x) \subseteq 0 .. n
        <3>1. K \subseteq 0 .. n /\ Below(x) \subseteq K
            <4> HIDE DEF T
            <4>. QED OBVIOUS
        <3> HIDE DEF Below, T
        <3>. QED
            BY <3>1
    <2>5. PICK y \in Below(x) : \A j \in Below(x) : j <= y
        <3> HIDE DEF Below
        <3>. QED BY <2>3, <2>4, GreatestElement
    <2>6. Cardinality(Below(y)) = Cardinality(Below(x)) - 1
        BY <1>3, <2>5
    <2>7. y \in T
        BY <2>2, <2>6, <1>1
    <2>. QED
        BY <1>7, <2>7
<1>. QED
    BY <1>8 DEF Nth

(* Keeping some entries of a list gives a list of as many of its entries.  *)
LEMMA KeepType ==
    ASSUME NEW S, NEW list \in Seq(S), NEW K \in SUBSET DOMAIN list
    PROVE  /\ Keep(list, K) \in Seq(S)
           /\ Len(Keep(list, K)) = Cardinality(K)
<1>1. DOMAIN list = 1 .. Len(list) /\ Len(list) \in Nat
    BY LenProperties
<1>2. Cardinality(K) \in Nat
    BY <1>1, PositionsFinite
<1>3. \A k \in 1 .. Cardinality(K) : Nth(K, k) \in K
    BY <1>1, NthExists
<1>4. \A k \in 1 .. Cardinality(K) : list[Nth(K, k)] \in S
    BY <1>1, <1>3, ElementOfSeq
<1>. QED
    BY <1>2, <1>4 DEF Keep

-----------------------------------------------------------------------------
(* The list operations keep the type of a list.                            *)

(* indexOf returns a position of the song. *)
LEMMA IndexOfFound ==
    ASSUME NEW S, NEW list \in Seq(S), NEW song, \E i \in DOMAIN list : list[i] = song
    PROVE  /\ IndexOf(list, song) \in Positions(list)
           /\ list[IndexOf(list, song) + 1] = song
<1> DEFINE Found == { i \in Positions(list) : list[i + 1] = song }
<1>1. DOMAIN list = 1 .. Len(list) /\ Len(list) \in Nat
    BY LenProperties
<1>2. Positions(list) \subseteq Nat
    BY <1>1 DEF Positions
<1>3. PICK j \in DOMAIN list : list[j] = song
    OBVIOUS
<1>4. j - 1 \in Positions(list) /\ (j - 1) + 1 = j
    BY <1>1 DEF Positions
<1>5. j - 1 \in Found
    BY <1>3, <1>4
<1>6. PICK m \in Found : \A i \in Found : m <= i
    <2>1. Found \subseteq Nat
        BY <1>2
    <2> HIDE DEF Found
    <2>. QED
        BY <2>1, <1>5, LeastElement
<1>7. \A i \in 0 .. m - 1 : list[i + 1] # song
    <2>1. SUFFICES ASSUME NEW i \in 0 .. m - 1, list[i + 1] = song PROVE FALSE
        OBVIOUS
    <2>2. m \in Positions(list) /\ m \in Nat
        BY <1>2
    <2>3. i \in Positions(list)
        BY <2>2, <1>1 DEF Positions
    <2>4. m <= i
        BY <2>1, <2>3, <1>6
    <2>. QED
        BY <2>2, <2>4
<1>. QED
    BY <1>6, <1>7 DEF IndexOf

LEMMA DeleteType ==
    ASSUME NEW S, NEW list \in Seq(S), NEW p \in Positions(list)
    PROVE  /\ Delete(list, p) \in Seq(S)
           /\ Len(Delete(list, p)) = Len(list) - 1
<1>1. Len(list) \in Nat /\ p \in Nat /\ p < Len(list)
    BY LenProperties DEF Positions
<1>2. \A i \in 1 .. Len(list) : list[i] \in S
    BY ElementOfSeq
<1> DEFINE front == SubSeq(list, 1, (p + 1) - 1)
           back == SubSeq(list, (p + 1) + 1, Len(list))
<1>3. front \in Seq(S) /\ Len(front) = p
    BY <1>1, <1>2, SubSeqProperties
<1>4. back \in Seq(S) /\ Len(back) = Len(list) - p - 1
    BY <1>1, <1>2, SubSeqProperties
<1>5. Delete(list, p) = front \o back
    BY DEF Delete, RemoveAt
<1> HIDE DEF front, back
<1>6. front \o back \in Seq(S) /\ Len(front \o back) = Len(front) + Len(back)
    BY <1>3, <1>4, ConcatProperties
<1>. QED
    BY <1>1, <1>3, <1>4, <1>5, <1>6

LEMMA DeleteFirstType ==
    ASSUME NEW S, NEW list \in Seq(S), NEW song
    PROVE  DeleteFirst(list, song) \in Seq(S)
BY IndexOfFound, DeleteType DEF DeleteFirst

LEMMA InsertAllType ==
    ASSUME NEW S, NEW list \in Seq(S), NEW p \in 0 .. Len(list), NEW songs \in Seq(S)
    PROVE  InsertAll(list, p, songs) \in Seq(S)
<1>1. Len(list) \in Nat /\ p \in Nat /\ p <= Len(list)
    BY LenProperties
<1>2. \A i \in 1 .. Len(list) : list[i] \in S
    BY ElementOfSeq
<1>3. SubSeq(list, 1, p) \in Seq(S)
    BY <1>1, <1>2, SubSeqProperties
<1>4. SubSeq(list, p + 1, Len(list)) \in Seq(S)
    BY <1>1, <1>2, SubSeqProperties
<1>. QED
    BY <1>3, <1>4, ConcatProperties DEF InsertAll

LEMMA MoveType ==
    ASSUME NEW S, NEW list \in Seq(S), NEW from \in Positions(list), NEW to \in Positions(list)
    PROVE  Move(list, from, to) \in Seq(S)
<1>1. Len(list) \in Nat
    BY LenProperties
<1>2. Delete(list, from) \in Seq(S) /\ Len(Delete(list, from)) = Len(list) - 1
    BY DeleteType
<1>3. to \in 0 .. Len(Delete(list, from))
    BY <1>1, <1>2 DEF Positions
<1>4. list[from + 1] \in S
    BY <1>1, ElementOfSeq DEF Positions
<1>5. <<list[from + 1]>> \in Seq(S)
    BY <1>4
<1>. QED
    BY <1>2, <1>3, <1>5, InsertAllType DEF Move

LEMMA LoopDeletesDomain ==
    ASSUME NEW list, NEW song
    PROVE  LoopDeletes(list, song) \in SUBSET DOMAIN list
BY DEF LoopDeletes

LEMMA LoopDeleteType ==
    ASSUME NEW S, NEW list \in Seq(S), NEW song
    PROVE  LoopDelete(list, song) \in Seq(S)
BY KeepType DEF LoopDelete

LEMMA ShufflesType ==
    ASSUME NEW S, NEW list \in Seq(S), NEW current, NEW result \in Shuffles(list, current)
    PROVE  result \in Seq(S)
<1>1. DOMAIN list = 1 .. Len(list) /\ Len(list) \in Nat
    BY LenProperties
<1>2. PICK p \in Permutation(Len(list)) : result = [i \in DOMAIN list |-> list[p[i]]]
    BY DEF Shuffles
<1>3. \A i \in 1 .. Len(list) : list[p[i]] \in S
    BY <1>1, ElementOfSeq DEF Permutation
<1>4. result \in [1 .. Len(list) -> S]
    BY <1>1, <1>2, <1>3
<1>. QED
    BY <1>1, <1>4, SeqDef

-----------------------------------------------------------------------------
(* The entries of Keep(list, K) are those of list at the places in K, in the *)
(* order of their places: Nth(K, _) increases, and each place in K is hit   *)
(* at one more than the number of places in K below it.                     *)

Rank(K, i) == Cardinality({ j \in K : j < i }) + 1

LEMMA RankType ==
    ASSUME NEW n \in Nat, NEW K \in SUBSET (1 .. n), NEW i
    PROVE  /\ IsFiniteSet({ j \in K : j < i })
           /\ Cardinality({ j \in K : j < i }) \in Nat
<1> DEFINE B == { j \in K : j < i }
<1>1. B \in SUBSET (1 .. n)
    OBVIOUS
<1> HIDE DEF B
<1>2. IsFiniteSet(B) /\ Cardinality(B) \in Nat
    BY <1>1, PositionsFinite
<1>. QED
    BY <1>2 DEF B

LEMMA RankIncreases ==
    ASSUME NEW n \in Nat, NEW K \in SUBSET (1 .. n), NEW i \in K, NEW m \in Int, i < m
    PROVE  Rank(K, i) < Rank(K, m)
<1> DEFINE B(x) == { j \in K : j < x }
<1>1. /\ IsFiniteSet(B(i)) /\ Cardinality(B(i)) \in Nat
      /\ IsFiniteSet(B(m)) /\ Cardinality(B(m)) \in Nat
    BY RankType
<1>2. B(i) \cup {i} \in SUBSET B(m) /\ i \notin B(i)
    <2>1. i \in Nat /\ \A j \in K : j \in Nat
        OBVIOUS
    <2>2. \A j \in B(i) \cup {i} : j \in B(m)
        BY <2>1
    <2>3. i \notin B(i)
        BY <2>1
    <2> HIDE DEF B
    <2>. QED
        BY <2>2, <2>3
<1>3. Rank(K, i) = Cardinality(B(i)) + 1 /\ Rank(K, m) = Cardinality(B(m)) + 1
    BY DEF Rank
<1> HIDE DEF B
<1>4. Cardinality(B(i) \cup {i}) = Cardinality(B(i)) + 1
    BY <1>1, <1>2, FS_AddElement
<1>5. Cardinality(B(i) \cup {i}) <= Cardinality(B(m))
    BY <1>1, <1>2, FS_Subset
<1>. QED
    BY <1>1, <1>3, <1>4, <1>5

LEMMA NthRank ==
    ASSUME NEW n \in Nat, NEW K \in SUBSET (1 .. n), NEW i \in K
    PROVE  /\ Rank(K, i) \in 1 .. Cardinality(K)
           /\ Nth(K, Rank(K, i)) = i
<1> DEFINE k == Rank(K, i)
<1>1. IsFiniteSet(K) /\ Cardinality(K) \in Nat
    BY PositionsFinite
<1>2. k \in 1 .. Cardinality(K)
    <2> DEFINE B == { j \in K : j < i }
    <2>1. IsFiniteSet(B) /\ Cardinality(B) \in Nat
        BY RankType
    <2>2. B \in SUBSET (K \ {i})
        OBVIOUS
    <2>3. IsFiniteSet(K \ {i}) /\ Cardinality(K \ {i}) = Cardinality(K) - 1
        BY <1>1, FS_RemoveElement
    <2>4. k = Cardinality(B) + 1
        BY DEF Rank
    <2> HIDE DEF B, k
    <2>5. Cardinality(B) <= Cardinality(K \ {i})
        BY <2>2, <2>3, FS_Subset
    <2>. QED
        BY <1>1, <2>1, <2>3, <2>4, <2>5
<1>3. \A m \in K : Cardinality({ j \in K : j < m }) = k - 1 <=> m = i
    <2> SUFFICES ASSUME NEW m \in K
                 PROVE  Cardinality({ j \in K : j < m }) = k - 1 <=> m = i
        OBVIOUS
    <2>1. Cardinality({ j \in K : j < m }) \in Nat /\ Cardinality({ j \in K : j < i }) \in Nat
        BY RankType
    <2>2. m < i => Rank(K, m) < Rank(K, i)
        BY RankIncreases
    <2>3. i < m => Rank(K, i) < Rank(K, m)
        BY RankIncreases
    <2>4. m \in Nat /\ i \in Nat
        OBVIOUS
    <2>. QED
        BY <2>1, <2>2, <2>3, <2>4 DEF Rank
<1> HIDE DEF k
<1>4. Nth(K, k) = i
    BY <1>3 DEF Nth
<1>. QED
    BY <1>2, <1>4 DEF k

(* Keep lists the entries at the places of K, each at its rank. *)
LEMMA KeepEntry ==
    ASSUME NEW S, NEW list \in Seq(S), NEW K \in SUBSET DOMAIN list, NEW i \in K
    PROVE  /\ Rank(K, i) \in DOMAIN Keep(list, K)
           /\ Keep(list, K)[Rank(K, i)] = list[i]
<1>1. DOMAIN list = 1 .. Len(list) /\ Len(list) \in Nat
    BY LenProperties
<1>2. Rank(K, i) \in 1 .. Cardinality(K) /\ Nth(K, Rank(K, i)) = i
    BY <1>1, NthRank
<1>. QED
    BY <1>2 DEF Keep

(* Every entry of the kept list comes from a place of K. *)
LEMMA KeepSource ==
    ASSUME NEW S, NEW list \in Seq(S), NEW K \in SUBSET DOMAIN list,
           NEW k \in DOMAIN Keep(list, K)
    PROVE  /\ Nth(K, k) \in K
           /\ Keep(list, K)[k] = list[Nth(K, k)]
<1>1. DOMAIN list = 1 .. Len(list) /\ Len(list) \in Nat
    BY LenProperties
<1>2. k \in 1 .. Cardinality(K)
    BY DEF Keep
<1>3. Nth(K, k) \in K
    BY <1>1, <1>2, NthExists
<1>. QED
    BY <1>2, <1>3 DEF Keep

-----------------------------------------------------------------------------
(* Counting the copies of a song *)

LEMMA CopiesType ==
    ASSUME NEW S, NEW list \in Seq(S), NEW x
    PROVE  /\ IsFiniteSet({ i \in DOMAIN list : list[i] = x })
           /\ Copies(list, x) \in Nat
           /\ Copies(list, x) > 0 <=> \E i \in DOMAIN list : list[i] = x
<1> DEFINE at == { i \in DOMAIN list : list[i] = x }
<1>1. DOMAIN list = 1 .. Len(list) /\ Len(list) \in Nat
    BY LenProperties
<1>2. at \in SUBSET (1 .. Len(list))
    BY <1>1
<1>3. Copies(list, x) = Cardinality(at)
    BY DEF Copies
<1>4. at # {} <=> \E i \in DOMAIN list : list[i] = x
    OBVIOUS
<1> HIDE DEF at
<1>5. IsFiniteSet(at) /\ Cardinality(at) \in Nat
    BY <1>1, <1>2, PositionsFinite
<1>6. Cardinality(at) > 0 <=> at # {}
    BY <1>5, FS_EmptySet
<1>. QED
    BY <1>3, <1>4, <1>5, <1>6 DEF at

(* f pairs every place of x in s with one of x in t, and misses none.      *)
PairsUp(f, s, t, x) ==
    /\ \A i \in DOMAIN s : s[i] = x => f[i] \in DOMAIN t /\ t[f[i]] = x
    /\ \A i, j \in DOMAIN s : s[i] = x /\ s[j] = x /\ f[i] = f[j] => i = j
    /\ \A j \in DOMAIN t : t[j] = x => \E i \in DOMAIN s : s[i] = x /\ f[i] = j

LEMMA CopiesBijection ==
    ASSUME NEW S, NEW s \in Seq(S), NEW t, NEW x, NEW f, PairsUp(f, s, t, x)
    PROVE  Copies(t, x) = Copies(s, x)
<1> DEFINE A == { i \in DOMAIN s : s[i] = x }
           B == { j \in DOMAIN t : t[j] = x }
           g == [i \in A |-> f[i]]
<1>1. g \in Bijection(A, B)
    <2>1. g \in [A -> B]
        BY DEF PairsUp
    <2>2. \A i, j \in A : g[i] = g[j] => i = j
        BY DEF PairsUp
    <2>3. \A j \in B : \E i \in A : g[i] = j
        BY DEF PairsUp
    <2> HIDE DEF A, B, g
    <2>. QED
        BY <2>1, <2>2, <2>3, Fun_IsBij
<1>2. IsFiniteSet(A)
    BY CopiesType
<1> HIDE DEF A, B, g
<1>3. ExistsBijection(A, B)
    BY <1>1 DEF ExistsBijection
<1>4. Cardinality(A) = Cardinality(B)
    BY <1>2, <1>3, FS_Bijection
<1>. QED
    BY <1>4 DEF A, B, Copies

(* A concatenation holds the copies of both. *)
LEMMA CopiesConcat ==
    ASSUME NEW S, NEW s \in Seq(S), NEW t \in Seq(S), NEW x
    PROVE  Copies(s \o t, x) = Copies(s, x) + Copies(t, x)
<1> DEFINE m == Len(s)
           C == { i \in DOMAIN (s \o t) : (s \o t)[i] = x }
           A == { i \in DOMAIN s : s[i] = x }
           B == { i \in DOMAIN t : t[i] = x }
           f == [i \in B |-> i + m]
           D == { i \in DOMAIN (s \o t) : (s \o t)[i] = x /\ i > m }
<1>1. /\ DOMAIN s = 1 .. Len(s) /\ Len(s) \in Nat
      /\ DOMAIN t = 1 .. Len(t) /\ Len(t) \in Nat
    BY LenProperties
<1>2. /\ s \o t \in Seq(S) /\ Len(s \o t) = Len(s) + Len(t)
      /\ \A i \in 1 .. Len(s) + Len(t) :
            (s \o t)[i] = IF i <= Len(s) THEN s[i] ELSE t[i - Len(s)]
    BY ConcatProperties
<1>3. DOMAIN (s \o t) = 1 .. Len(s) + Len(t)
    BY <1>2, LenProperties
<1>4. f \in Bijection(B, D)
    <2>1. f \in [B -> D]
        BY <1>1, <1>2, <1>3
    <2>2. \A i, j \in B : f[i] = f[j] => i = j
        BY <1>1
    <2>3. ASSUME NEW j \in D PROVE \E i \in B : f[i] = j
        <3>1. j - m \in B /\ f[j - m] = j
            BY <1>1, <1>2, <1>3
        <3>. QED
            BY <3>1
    <2> HIDE DEF B, D, f
    <2>. QED
        BY <2>1, <2>2, <2>3, Fun_IsBij
<1>5. C = A \cup D /\ A \cap D = {}
    BY <1>1, <1>2, <1>3
<1>6. /\ IsFiniteSet(A) /\ Copies(s, x) = Cardinality(A) /\ Cardinality(A) \in Nat
      /\ IsFiniteSet(B) /\ Copies(t, x) = Cardinality(B) /\ Cardinality(B) \in Nat
    BY CopiesType DEF Copies
<1>7. Copies(s \o t, x) = Cardinality(C)
    BY DEF Copies
<1> HIDE DEF A, B, C, D, f
<1>8. IsFiniteSet(D) /\ Cardinality(D) = Cardinality(B)
    BY <1>4, <1>6, FS_Bijection DEF ExistsBijection
<1>9. Cardinality(A \cup D) = Cardinality(A) + Cardinality(D) - Cardinality({})
    BY <1>5, <1>6, <1>8, FS_Union
<1>. QED
    BY <1>5, <1>6, <1>7, <1>8, <1>9, FS_EmptySet

LEMMA CopiesOfOne ==
    ASSUME NEW a, NEW x
    PROVE  Copies(<<a>>, x) = IF a = x THEN 1 ELSE 0
<1>1. { i \in DOMAIN <<a>> : <<a>>[i] = x } = IF a = x THEN {1} ELSE {}
    OBVIOUS
<1>. QED
    BY <1>1, FS_Singleton, FS_EmptySet DEF Copies

(* A list is the entries before a place, the entry there, and the rest. *)
LEMMA Split ==
    ASSUME NEW S, NEW list \in Seq(S), NEW p \in 0 .. Len(list)
    PROVE  /\ SubSeq(list, 1, p) \in Seq(S) /\ Len(SubSeq(list, 1, p)) = p
           /\ SubSeq(list, p + 1, Len(list)) \in Seq(S)
           /\ Len(SubSeq(list, p + 1, Len(list))) = Len(list) - p
           /\ \A i \in 1 .. p : SubSeq(list, 1, p)[i] = list[i]
           /\ \A i \in 1 .. Len(list) - p : SubSeq(list, p + 1, Len(list))[i] = list[i + p]
           /\ SubSeq(list, 1, p) \o SubSeq(list, p + 1, Len(list)) = list
<1> DEFINE f == SubSeq(list, 1, p)
           b == SubSeq(list, p + 1, Len(list))
<1>1. Len(list) \in Nat /\ p \in Nat /\ p <= Len(list)
    BY LenProperties
<1>2. \A i \in 1 .. Len(list) : list[i] \in S
    BY ElementOfSeq
<1>3. f \in Seq(S) /\ Len(f) = p /\ \A i \in 1 .. p : f[i] = list[i]
    BY <1>1, <1>2, SubSeqProperties
<1>4. b \in Seq(S) /\ Len(b) = Len(list) - p
    BY <1>1, <1>2, SubSeqProperties
<1>5. \A i \in 1 .. Len(list) - p : b[i] = list[i + p]
    <2>1. \A i \in 1 .. Len(list) - p : b[i] = list[(p + 1) + i - 1]
        BY <1>1, <1>2, SubSeqProperties
    <2>2. \A i \in 1 .. Len(list) - p : (p + 1) + i - 1 = i + p
        BY <1>1
    <2>. QED
        BY <2>1, <2>2
<1> HIDE DEF f, b
<1>6. f \o b = list
    <2>1. /\ f \o b \in Seq(S) /\ Len(f \o b) = Len(list)
          /\ \A i \in 1 .. Len(list) : (f \o b)[i] = IF i <= p THEN f[i] ELSE b[i - p]
        BY <1>1, <1>3, <1>4, ConcatProperties
    <2>2. ASSUME NEW i \in 1 .. Len(list) PROVE (f \o b)[i] = list[i]
        <3>1. CASE i <= p
            BY <1>1, <1>3, <2>1, <3>1
        <3>2. CASE i > p
            <4>1. i - p \in 1 .. Len(list) - p /\ (i - p) + p = i
                BY <1>1, <3>2
            <4>. QED
                BY <1>1, <1>5, <2>1, <3>2, <4>1
        <3>3. i <= p \/ i > p
            BY <1>1
        <3>. QED
            BY <3>1, <3>2, <3>3
    <2>. QED
        BY <2>1, <2>2, SeqEqual
<1>. QED
    BY <1>3, <1>4, <1>5, <1>6 DEF f, b

-----------------------------------------------------------------------------
(* Where each entry is after an insertion or a deletion, and that they     *)
(* change the number of copies by the songs inserted or deleted only.      *)

LEMMA ConcatEntry ==
    ASSUME NEW S, NEW s \in Seq(S), NEW t \in Seq(S)
    PROVE  /\ s \o t \in Seq(S) /\ Len(s \o t) = Len(s) + Len(t)
           /\ \A i \in 1 .. Len(s) + Len(t) : i <= Len(s) => (s \o t)[i] = s[i]
           /\ \A i \in 1 .. Len(s) + Len(t) : ~ (i <= Len(s)) => (s \o t)[i] = t[i - Len(s)]
BY ConcatProperties

LEMMA InsertAllEntry ==
    ASSUME NEW S, NEW list \in Seq(S), NEW p \in 0 .. Len(list), NEW songs \in Seq(S)
    PROVE  /\ Len(InsertAll(list, p, songs)) = Len(list) + Len(songs)
           /\ \A i \in 1 .. Len(list) + Len(songs) :
                InsertAll(list, p, songs)[i] =
                    IF i <= p THEN list[i]
                    ELSE IF i <= p + Len(songs) THEN songs[i - p]
                    ELSE list[i - Len(songs)]
           /\ \A x : Copies(InsertAll(list, p, songs), x) = Copies(list, x) + Copies(songs, x)
<1> DEFINE f == SubSeq(list, 1, p)
           b == SubSeq(list, p + 1, Len(list))
           n == Len(songs)
<1>1. Len(list) \in Nat /\ p \in Nat /\ p <= Len(list) /\ n \in Nat
    BY LenProperties
<1>2. /\ f \in Seq(S) /\ Len(f) = p /\ \A i \in 1 .. p : f[i] = list[i]
      /\ b \in Seq(S) /\ Len(b) = Len(list) - p
      /\ \A i \in 1 .. Len(list) - p : b[i] = list[i + p]
      /\ f \o b = list
    BY Split
<1>3. InsertAll(list, p, songs) = f \o songs \o b
    BY DEF InsertAll
<1> HIDE DEF f, b
<1>4. /\ f \o songs \in Seq(S) /\ Len(f \o songs) = p + n
      /\ \A i \in 1 .. p + n : i <= p => (f \o songs)[i] = f[i]
      /\ \A i \in 1 .. p + n : ~ (i <= p) => (f \o songs)[i] = songs[i - p]
    <2>1. /\ f \o songs \in Seq(S) /\ Len(f \o songs) = Len(f) + Len(songs)
          /\ \A i \in 1 .. Len(f) + Len(songs) : i <= Len(f) => (f \o songs)[i] = f[i]
          /\ \A i \in 1 .. Len(f) + Len(songs) :
                ~ (i <= Len(f)) => (f \o songs)[i] = songs[i - Len(f)]
        <3>1. f \in Seq(S)
            BY <1>2
        <3>. QED
            BY <3>1, ConcatEntry
    <2>2. Len(f) = p
        BY <1>2
    <2>. QED
        BY <2>1, <2>2
<1>5. /\ Len(f \o songs \o b) = p + n + (Len(list) - p)
      /\ \A i \in 1 .. p + n + (Len(list) - p) :
            i <= p + n => (f \o songs \o b)[i] = (f \o songs)[i]
      /\ \A i \in 1 .. p + n + (Len(list) - p) :
            ~ (i <= p + n) => (f \o songs \o b)[i] = b[i - (p + n)]
    <2> DEFINE fs == f \o songs
    <2>1. fs \in Seq(S) /\ Len(fs) = p + n
        BY <1>4
    <2> HIDE DEF fs
    <2>2. /\ Len(fs \o b) = p + n + (Len(list) - p)
          /\ \A i \in 1 .. p + n + (Len(list) - p) : i <= p + n => (fs \o b)[i] = fs[i]
          /\ \A i \in 1 .. p + n + (Len(list) - p) :
                ~ (i <= p + n) => (fs \o b)[i] = b[i - (p + n)]
        <3>1. /\ Len(fs \o b) = Len(fs) + Len(b)
              /\ \A i \in 1 .. Len(fs) + Len(b) : i <= Len(fs) => (fs \o b)[i] = fs[i]
              /\ \A i \in 1 .. Len(fs) + Len(b) :
                    ~ (i <= Len(fs)) => (fs \o b)[i] = b[i - Len(fs)]
            <4>1. fs \in Seq(S) /\ b \in Seq(S)
                BY <1>2, <2>1
            <4>. QED
                BY <4>1, ConcatEntry
        <3>2. Len(fs) = p + n /\ Len(b) = Len(list) - p
            BY <1>2, <2>1
        <3>. QED
            BY <3>1, <3>2
    <2>. QED
        BY <2>2 DEF fs
<1>6. p + n + (Len(list) - p) = Len(list) + n
    BY <1>1
<1>7. ASSUME NEW i \in 1 .. Len(list) + n
      PROVE  (f \o songs \o b)[i] = IF i <= p THEN list[i]
                                   ELSE IF i <= p + n THEN songs[i - p]
                                   ELSE list[i - n]
    <2>1. CASE i <= p + n
        <3>1. (f \o songs \o b)[i] = (f \o songs)[i]
            BY <1>5, <1>6, <2>1
        <3>2. i \in 1 .. p + n
            BY <1>1, <2>1
        <3>. QED
            BY <1>1, <1>2, <1>4, <2>1, <3>1, <3>2
    <2>2. CASE i > p + n
        <3>1. (f \o songs \o b)[i] = b[i - (p + n)]
            <4>1. ~ (i <= p + n)
                BY <1>1, <2>2
            <4>. QED
                BY <1>5, <1>6, <4>1
        <3>2. i - (p + n) \in 1 .. Len(list) - p /\ (i - (p + n)) + p = i - n
            BY <1>1, <2>2
        <3>3. b[i - (p + n)] = list[i - n]
            BY <1>2, <3>2
        <3>. QED
            BY <1>1, <2>2, <3>1, <3>3
    <2>3. i <= p + n \/ i > p + n
        BY <1>1
    <2> HIDE DEF n
    <2>. QED
        BY <2>1, <2>2, <2>3
<1>8. ASSUME NEW x
      PROVE  Copies(f \o songs \o b, x) = Copies(list, x) + Copies(songs, x)
    <2>1. Copies(f \o songs \o b, x) = Copies(f, x) + Copies(songs, x) + Copies(b, x)
        <3> DEFINE fs == f \o songs
        <3>1. fs \in Seq(S) /\ Copies(fs, x) = Copies(f, x) + Copies(songs, x)
            BY <1>2, <1>4, CopiesConcat
        <3> HIDE DEF fs
        <3>2. Copies(fs \o b, x) = Copies(fs, x) + Copies(b, x)
            BY <1>2, <3>1, CopiesConcat
        <3>. QED
            BY <3>1, <3>2 DEF fs
    <2>2. Copies(f \o b, x) = Copies(f, x) + Copies(b, x)
        BY <1>2, CopiesConcat
    <2>3. Copies(f, x) \in Nat /\ Copies(b, x) \in Nat /\ Copies(songs, x) \in Nat
        BY <1>2, CopiesType
    <2>4. Copies(list, x) = Copies(f, x) + Copies(b, x)
        BY <1>2, <2>2
    <2>. QED
        BY <2>1, <2>3, <2>4
<1>. QED
    BY <1>3, <1>5, <1>6, <1>7, <1>8

LEMMA DeleteEntry ==
    ASSUME NEW S, NEW list \in Seq(S), NEW p \in Positions(list)
    PROVE  /\ \A i \in 1 .. Len(list) - 1 :
                Delete(list, p)[i] = IF i <= p THEN list[i] ELSE list[i + 1]
           /\ \A x : Copies(list, x) = Copies(Delete(list, p), x)
                                        + (IF list[p + 1] = x THEN 1 ELSE 0)
<1> DEFINE rest == Delete(list, p)
           one == <<list[p + 1]>>
           f == SubSeq(list, 1, p)
           b == SubSeq(list, p + 2, Len(list))
<1>1. Len(list) \in Nat /\ p \in Nat /\ p < Len(list) /\ p \in 0 .. Len(list)
      /\ p + 1 \in 0 .. Len(list) /\ (p + 1) + 1 = p + 2
    BY LenProperties DEF Positions
<1>2. /\ f \in Seq(S) /\ Len(f) = p /\ \A i \in 1 .. p : f[i] = list[i]
    BY <1>1, Split
<1>3. /\ b \in Seq(S) /\ Len(b) = Len(list) - (p + 1)
      /\ \A i \in 1 .. Len(list) - (p + 1) : b[i] = list[i + (p + 1)]
    <2>1. /\ SubSeq(list, (p + 1) + 1, Len(list)) \in Seq(S)
          /\ Len(SubSeq(list, (p + 1) + 1, Len(list))) = Len(list) - (p + 1)
          /\ \A i \in 1 .. Len(list) - (p + 1) :
                SubSeq(list, (p + 1) + 1, Len(list))[i] = list[i + (p + 1)]
        BY <1>1, Split
    <2>. QED
        BY <1>1, <2>1
<1>4. rest = f \o b
    <2>1. (p + 1) - 1 = p /\ (p + 1) + 1 = p + 2
        BY <1>1
    <2>. QED
        BY <2>1 DEF Delete, RemoveAt
<1>5. rest \in Seq(S) /\ Len(rest) = Len(list) - 1
    BY DeleteType
<1>6. one \in Seq(S)
    <2>1. list[p + 1] \in S
        BY <1>1, ElementOfSeq
    <2>. QED
        BY <2>1
<1> HIDE DEF f, b, rest
<1>7. /\ \A i \in 1 .. p + (Len(list) - (p + 1)) : i <= p => (f \o b)[i] = f[i]
      /\ \A i \in 1 .. p + (Len(list) - (p + 1)) : ~ (i <= p) => (f \o b)[i] = b[i - p]
    <2>1. /\ \A i \in 1 .. Len(f) + Len(b) : i <= Len(f) => (f \o b)[i] = f[i]
          /\ \A i \in 1 .. Len(f) + Len(b) : ~ (i <= Len(f)) => (f \o b)[i] = b[i - Len(f)]
        BY <1>2, <1>3, ConcatEntry
    <2>2. Len(f) = p /\ Len(b) = Len(list) - (p + 1)
        BY <1>2, <1>3
    <2>. QED
        BY <2>1, <2>2
<1>8. ASSUME NEW i \in 1 .. Len(list) - 1
      PROVE  rest[i] = IF i <= p THEN list[i] ELSE list[i + 1]
    <2>1. i \in 1 .. p + (Len(list) - (p + 1))
        BY <1>1
    <2>2. CASE i <= p
        BY <1>1, <1>2, <1>4, <1>7, <2>1, <2>2
    <2>3. CASE i > p
        <3>1. i - p \in 1 .. Len(list) - (p + 1) /\ (i - p) + (p + 1) = i + 1
            BY <1>1, <2>3
        <3>2. b[i - p] = list[i + 1]
            BY <1>3, <3>1
        <3>3. ~ (i <= p)
            BY <1>1, <2>3
        <3>. QED
            BY <1>4, <1>7, <2>1, <3>2, <3>3
    <2>4. i <= p \/ i > p
        BY <1>1
    <2>. QED
        BY <2>2, <2>3, <2>4
<1>9. ASSUME NEW x
      PROVE  Copies(list, x) = Copies(rest, x) + (IF list[p + 1] = x THEN 1 ELSE 0)
    <2>1. p \in 0 .. Len(rest)
        BY <1>1, <1>5
    <2>2. InsertAll(rest, p, one) = list
        <3>1. /\ Len(one) = 1
              /\ Len(InsertAll(rest, p, one)) = Len(list)
              /\ InsertAll(rest, p, one) \in Seq(S)
              /\ \A i \in 1 .. Len(list) :
                   InsertAll(rest, p, one)[i] = IF i <= p THEN rest[i]
                                                ELSE IF i <= p + 1 THEN one[i - p]
                                                ELSE rest[i - 1]
            <4>1. Len(one) = 1
                OBVIOUS
            <4>2. Len(rest) + Len(one) = Len(list)
                BY <1>1, <1>5, <4>1
            <4> HIDE DEF one
            <4>3. InsertAll(rest, p, one) \in Seq(S)
                BY <1>5, <1>6, <2>1, InsertAllType
            <4>4. /\ Len(InsertAll(rest, p, one)) = Len(rest) + Len(one)
                  /\ \A i \in 1 .. Len(rest) + Len(one) :
                        InsertAll(rest, p, one)[i] = IF i <= p THEN rest[i]
                                                     ELSE IF i <= p + Len(one) THEN one[i - p]
                                                     ELSE rest[i - Len(one)]
                BY <1>5, <1>6, <2>1, InsertAllEntry
            <4>. QED
                BY <4>1, <4>2, <4>3, <4>4
        <3>2. ASSUME NEW i \in 1 .. Len(list) PROVE InsertAll(rest, p, one)[i] = list[i]
            <4>1. CASE i <= p
                <5>1. i \in 1 .. Len(list) - 1
                    BY <1>1, <4>1
                <5>. QED
                    BY <1>8, <3>1, <4>1, <5>1
            <4>2. CASE i = p + 1
                <5>1. ~ (i <= p) /\ i - p = 1 /\ i <= p + 1
                    BY <1>1, <4>2
                <5>. QED
                    BY <3>1, <4>2, <5>1
            <4>3. CASE i > p + 1
                <5>1. i - 1 \in 1 .. Len(list) - 1 /\ ~ (i <= p) /\ ~ (i <= p + 1)
                      /\ ~ (i - 1 <= p) /\ (i - 1) + 1 = i
                    BY <1>1, <4>3
                <5>. QED
                    BY <1>8, <3>1, <5>1
            <4>4. i <= p \/ i = p + 1 \/ i > p + 1
                BY <1>1
            <4>. QED
                BY <4>1, <4>2, <4>3, <4>4
        <3>. QED
            BY <3>1, <3>2, SeqEqual
    <2>3. Copies(one, x) = IF list[p + 1] = x THEN 1 ELSE 0
        BY CopiesOfOne
    <2> HIDE DEF one
    <2>4. Copies(InsertAll(rest, p, one), x) = Copies(rest, x) + Copies(one, x)
        BY <1>5, <1>6, <2>1, InsertAllEntry
    <2>. QED
        BY <2>2, <2>3, <2>4
<1>. QED
    BY <1>8, <1>9 DEF rest

(* A move shifts the entries between its ends by one and loses none. *)
LEMMA MoveEntry ==
    ASSUME NEW S, NEW list \in Seq(S), NEW from \in Positions(list), NEW to \in Positions(list)
    PROVE  /\ Len(Move(list, from, to)) = Len(list)
           /\ \A i \in 1 .. Len(list) :
                Move(list, from, to)[i] =
                    IF i <= to THEN (IF i <= from THEN list[i] ELSE list[i + 1])
                    ELSE IF i = to + 1 THEN list[from + 1]
                    ELSE (IF i - 1 <= from THEN list[i - 1] ELSE list[i])
           /\ \A x : Copies(Move(list, from, to), x) = Copies(list, x)
<1> DEFINE rest == Delete(list, from)
           one == <<list[from + 1]>>
<1>1. /\ Len(list) \in Nat
      /\ from \in Nat /\ from < Len(list) /\ to \in Nat /\ to < Len(list)
    BY LenProperties DEF Positions
<1>2. rest \in Seq(S) /\ Len(rest) = Len(list) - 1
    BY DeleteType
<1>3. /\ \A i \in 1 .. Len(list) - 1 : rest[i] = IF i <= from THEN list[i] ELSE list[i + 1]
      /\ \A x : Copies(list, x) = Copies(rest, x) + (IF list[from + 1] = x THEN 1 ELSE 0)
    BY DeleteEntry
<1>4. list[from + 1] \in S
    BY <1>1, ElementOfSeq
<1>5. one \in Seq(S) /\ Len(one) = 1 /\ one[1] = list[from + 1]
    BY <1>4
<1>6. \A x : Copies(one, x) = IF list[from + 1] = x THEN 1 ELSE 0
    BY CopiesOfOne
<1>7. to \in 0 .. Len(rest)
    BY <1>1, <1>2
<1>8. Move(list, from, to) = InsertAll(rest, to, one)
    BY DEF Move
<1> HIDE DEF rest, one
<1>9. /\ Len(InsertAll(rest, to, one)) = Len(rest) + Len(one)
      /\ \A i \in 1 .. Len(rest) + Len(one) :
            InsertAll(rest, to, one)[i] = IF i <= to THEN rest[i]
                                          ELSE IF i <= to + Len(one) THEN one[i - to]
                                          ELSE rest[i - Len(one)]
      /\ \A x : Copies(InsertAll(rest, to, one), x) = Copies(rest, x) + Copies(one, x)
    BY <1>2, <1>5, <1>7, InsertAllEntry
<1>10. Len(rest) + Len(one) = Len(list)
    BY <1>1, <1>2, <1>5
<1>11. ASSUME NEW i \in 1 .. Len(list)
       PROVE  InsertAll(rest, to, one)[i] =
                    IF i <= to THEN (IF i <= from THEN list[i] ELSE list[i + 1])
                    ELSE IF i = to + 1 THEN list[from + 1]
                    ELSE (IF i - 1 <= from THEN list[i - 1] ELSE list[i])
    <2>1. CASE i <= to
        <3>1. i \in 1 .. Len(list) - 1
            BY <1>1, <2>1
        <3>. QED
            BY <1>3, <1>9, <1>10, <2>1, <3>1
    <2>2. CASE i = to + 1
        <3>1. ~ (i <= to) /\ i <= to + 1 /\ i - to = 1
            BY <1>1, <2>2
        <3>. QED
            BY <1>5, <1>9, <1>10, <2>2, <3>1
    <2>3. CASE i > to + 1
        <3>1. /\ ~ (i <= to) /\ ~ (i <= to + 1) /\ i # to + 1
              /\ i - 1 \in 1 .. Len(list) - 1 /\ (i - 1) + 1 = i
            BY <1>1, <2>3
        <3>2. InsertAll(rest, to, one)[i] = rest[i - 1]
            BY <1>5, <1>9, <1>10, <3>1
        <3>3. rest[i - 1] = IF i - 1 <= from THEN list[i - 1] ELSE list[i]
            BY <1>3, <3>1
        <3>. QED
            BY <3>1, <3>2, <3>3
    <2>4. i <= to \/ i = to + 1 \/ i > to + 1
        BY <1>1
    <2>. QED
        BY <2>1, <2>2, <2>3, <2>4
<1>12. ASSUME NEW x PROVE Copies(InsertAll(rest, to, one), x) = Copies(list, x)
    BY <1>3, <1>6, <1>9
<1>. QED
    BY <1>8, <1>9, <1>10, <1>11, <1>12

(* remove(Object) takes one copy of its song and nothing else. *)
LEMMA DeleteFirstCopies ==
    ASSUME NEW S, NEW list \in Seq(S), NEW song, \E i \in DOMAIN list : list[i] = song
    PROVE  /\ Len(DeleteFirst(list, song)) = Len(list) - 1
           /\ \A x : Copies(list, x) = Copies(DeleteFirst(list, song), x)
                                        + (IF song = x THEN 1 ELSE 0)
<1> DEFINE p == IndexOf(list, song)
<1>1. p \in Positions(list) /\ list[p + 1] = song
    BY IndexOfFound
<1>2. DeleteFirst(list, song) = Delete(list, p)
    BY DEF DeleteFirst
<1> HIDE DEF p
<1>. QED
    BY <1>1, <1>2, DeleteType, DeleteEntry

(* Keeping every copy of a song keeps its number. *)
LEMMA KeepCopies ==
    ASSUME NEW S, NEW list \in Seq(S), NEW K \in SUBSET DOMAIN list, NEW x,
           \A i \in DOMAIN list : list[i] = x => i \in K
    PROVE  Copies(Keep(list, K), x) = Copies(list, x)
<1> DEFINE f == [i \in DOMAIN list |-> Rank(K, i)]
<1>1. DOMAIN list = 1 .. Len(list) /\ Len(list) \in Nat
    BY LenProperties
<1>2. ASSUME NEW i \in DOMAIN list, list[i] = x
      PROVE  f[i] \in DOMAIN Keep(list, K) /\ Keep(list, K)[f[i]] = x
    BY <1>2, KeepEntry
<1>3. ASSUME NEW i \in DOMAIN list, NEW j \in DOMAIN list,
             list[i] = x, list[j] = x, f[i] = f[j]
      PROVE  i = j
    <2>1. i \in K /\ j \in K /\ i \in Nat /\ j \in Nat
        BY <1>1, <1>3
    <2>2. Nth(K, Rank(K, i)) = i /\ Nth(K, Rank(K, j)) = j
        BY <1>1, <2>1, NthRank
    <2>. QED
        BY <1>3, <2>2
<1>4. ASSUME NEW k \in DOMAIN Keep(list, K), Keep(list, K)[k] = x
      PROVE  \E i \in DOMAIN list : list[i] = x /\ f[i] = k
    <2>1. Nth(K, k) \in K /\ list[Nth(K, k)] = x
        BY <1>4, KeepSource
    <2>2. Rank(K, Nth(K, k)) = k
        <3>1. k \in 1 .. Cardinality(K) /\ Cardinality(K) \in Nat
            BY <1>1, PositionsFinite DEF Keep
        <3>2. Cardinality({ j \in K : j < Nth(K, k) }) = k - 1
            BY <1>1, <3>1, NthExists
        <3>. QED
            BY <3>1, <3>2 DEF Rank
    <2>. QED
        BY <2>1, <2>2
<1> HIDE DEF f
<1>5. PairsUp(f, list, Keep(list, K), x)
    BY <1>2, <1>3, <1>4 DEF PairsUp
<1>. QED
    BY <1>5, CopiesBijection

(* A shuffled list has the same songs, the current one first. *)
LEMMA ShufflesCopies ==
    ASSUME NEW S, NEW list \in Seq(S), NEW current, NEW result \in Shuffles(list, current)
    PROVE  /\ Len(result) = Len(list)
           /\ \A x : Copies(result, x) = Copies(list, x)
           /\ list # <<>> /\ current >= 0 => result[1] = list[current + 1]
<1>1. DOMAIN list = 1 .. Len(list) /\ Len(list) \in Nat
    BY LenProperties
<1>2. PICK p \in Permutation(Len(list)) :
            /\ result = [i \in DOMAIN list |-> list[p[i]]]
            /\ list # <<>> /\ current >= 0 => p[1] = current + 1
    BY DEF Shuffles
<1>3. /\ p \in [1 .. Len(list) -> 1 .. Len(list)]
      /\ \A i, j \in 1 .. Len(list) : p[i] = p[j] => i = j
    BY DEF Permutation, IsInjective
<1>4. result \in Seq(S) /\ DOMAIN result = DOMAIN list
    BY <1>2, ShufflesType
<1>5. Len(result) = Len(list)
    BY <1>1, <1>4, LenProperties
<1>6. \A j \in 1 .. Len(list) : \E i \in 1 .. Len(list) : p[i] = j
    <2>1. p \in Injection(1 .. Len(list), 1 .. Len(list))
        BY <1>3, Fun_IsInj
    <2>2. IsFiniteSet(1 .. Len(list))
        BY <1>1, FS_Interval
    <2>3. p \in Surjection(1 .. Len(list), 1 .. Len(list))
        BY <2>1, <2>2, FS_Injection
    <2>. QED
        BY <2>3, Fun_SurjectionProperties
<1>7. ASSUME NEW x PROVE Copies(list, x) = Copies(result, x)
    <2>1. \A i \in DOMAIN result : result[i] = x => p[i] \in DOMAIN list /\ list[p[i]] = x
        BY <1>1, <1>2, <1>3, <1>4
    <2>2. \A i, j \in DOMAIN result : p[i] = p[j] => i = j
        BY <1>1, <1>3, <1>4
    <2>3. \A j \in DOMAIN list :
            list[j] = x => \E i \in DOMAIN result : result[i] = x /\ p[i] = j
        BY <1>1, <1>2, <1>4, <1>6
    <2>4. PairsUp(p, result, list, x)
        BY <2>1, <2>2, <2>3 DEF PairsUp
    <2>5. result \in Seq(S)
        BY <1>4
    <2>. QED
        BY <2>4, <2>5, CopiesBijection
<1>8. ASSUME list # <<>>, current >= 0 PROVE result[1] = list[current + 1]
    <2>1. 1 \in DOMAIN list
        BY <1>1, <1>8, EmptySeq
    <2>. QED
        BY <1>2, <1>8, <2>1
<1>. QED
    BY <1>5, <1>7, <1>8

-----------------------------------------------------------------------------
(* The loop of removeSong(Song) never deletes two entries in a row.        *)
LEMMA LoopDeletesSkips ==
    ASSUME NEW S, NEW list \in Seq(S), NEW song, NEW i \in LoopDeletes(list, song)
    PROVE  i + 1 \notin LoopDeletes(list, song)
<1> DEFINE Start(m, s) == /\ \A j \in s .. m : list[j] = song
                          /\ s = 1 \/ list[s - 1] # song
           RunStart(m) == CHOOSE s \in 1 .. m : Start(m, s)
<1>1. DOMAIN list = 1 .. Len(list) /\ Len(list) \in Nat
    BY LenProperties
<1>2. \A m : m \in LoopDeletes(list, song) <=>
                m \in DOMAIN list /\ list[m] = song /\ (m - RunStart(m)) % 2 = 0
    BY DEF LoopDeletes
<1>3. SUFFICES ASSUME i + 1 \in LoopDeletes(list, song) PROVE FALSE
    OBVIOUS
<1>4. i \in 1 .. Len(list) /\ i + 1 \in 1 .. Len(list) /\ list[i] = song /\ list[i + 1] = song
    BY <1>1, <1>2, <1>3
<1>5. \E s \in 1 .. i : Start(i, s)
    <2> DEFINE T == { s \in 1 .. i : \A j \in s .. i : list[j] = song }
    <2>1. i \in T /\ T \subseteq Nat
        BY <1>4
    <2>2. PICK s \in T : \A y \in T : s <= y
        <3> HIDE DEF T
        <3>. QED
            BY <2>1, LeastElement
    <2>3. ASSUME s # 1, list[s - 1] = song PROVE FALSE
        <3>1. s \in 1 .. i /\ \A j \in s .. i : list[j] = song
            BY <2>2
        <3>2. s - 1 \in 1 .. i
            BY <1>4, <2>3, <3>1
        <3>3. ASSUME NEW j \in s - 1 .. i PROVE list[j] = song
            <4>1. j = s - 1 \/ j \in s .. i
                BY <1>4, <3>1
            <4>. QED
                BY <2>3, <3>1, <4>1
        <3>4. s - 1 \in T
            BY <3>2, <3>3
        <3>. QED
            BY <1>4, <2>2, <3>1, <3>4
    <2>. QED
        BY <2>2, <2>3
<1>6. ASSUME NEW s \in 1 .. i, NEW r \in 1 .. i + 1, Start(i, s), Start(i + 1, r) PROVE s = r
    <2>1. s < r => list[r - 1] = song /\ r # 1
        BY <1>4, <1>6
    <2>2. r < s => list[s - 1] = song /\ s # 1
        BY <1>4, <1>6
    <2>. QED
        BY <1>4, <1>6, <2>1, <2>2
<1>7. Start(i, RunStart(i)) /\ RunStart(i) \in 1 .. i
    <2> HIDE DEF Start
    <2>. QED
        BY <1>5
<1>8. Start(i + 1, RunStart(i))
    BY <1>4, <1>7
<1>9. Start(i + 1, RunStart(i + 1)) /\ RunStart(i + 1) \in 1 .. i + 1
    <2>1. RunStart(i) \in 1 .. i + 1
        BY <1>4, <1>7
    <2> DEFINE s == RunStart(i)
    <2>2. s \in 1 .. i + 1 /\ Start(i + 1, s)
        BY <2>1, <1>8
    <2> HIDE DEF Start, s
    <2>. QED
        BY <2>2
<1>10. RunStart(i + 1) = RunStart(i)
    BY <1>6, <1>7, <1>9
<1> HIDE DEF RunStart, Start
<1>11. (i - RunStart(i)) % 2 = 0 /\ ((i + 1) - RunStart(i + 1)) % 2 = 0
    BY <1>2, <1>3
<1>12. ASSUME NEW r \in Nat, NEW m \in Nat, (m - r) % 2 = 0, ((m + 1) - r) % 2 = 0 PROVE FALSE
    BY <1>12
<1>13. i \in Nat /\ RunStart(i) \in Nat
    BY <1>4, <1>7
<1>. QED
    BY <1>10, <1>11, <1>12, <1>13

(* How many entries the loop leaves before an entry, and after it.         *)
LEMMA ComplementRank ==
    ASSUME NEW n \in Nat, NEW D \in SUBSET (1 .. n), NEW i \in 1 .. n + 1
    PROVE  /\ Cardinality({ j \in D : j < i }) \in Nat
           /\ Rank((1 .. n) \ D, i) = i - Cardinality({ j \in D : j < i })
<1> DEFINE B == { j \in D : j < i }
           C == { j \in (1 .. n) \ D : j < i }
<1>1. IsFiniteSet(B) /\ Cardinality(B) \in Nat
    BY RankType
<1>2. (1 .. n) \ D \in SUBSET (1 .. n)
    OBVIOUS
<1>3. IsFiniteSet(C) /\ Cardinality(C) \in Nat
    BY <1>2, RankType
<1>4. Rank((1 .. n) \ D, i) = Cardinality(C) + 1
    BY DEF Rank
<1>5. B \cup C = 1 .. i - 1 /\ B \cap C = {}
    <2>1. \A j \in B \cup C : j \in 1 .. i - 1
        OBVIOUS
    <2>2. \A j \in 1 .. i - 1 : j \in B \/ j \in C
        OBVIOUS
    <2>3. B \cap C = {}
        OBVIOUS
    <2> HIDE DEF B, C
    <2>. QED
        BY <2>1, <2>2, <2>3
<1>6. Cardinality(1 .. i - 1) = i - 1
    BY FS_Interval
<1> HIDE DEF B, C
<1>7. Cardinality(B \cup C) = Cardinality(B) + Cardinality(C) - Cardinality(B \cap C)
    BY <1>1, <1>3, FS_Union
<1>8. i - 1 = Cardinality(B) + Cardinality(C)
    <2>1. Cardinality({}) = 0
        BY FS_EmptySet
    <2>2. Cardinality(B \cap C) = 0
        BY <1>5, <2>1
    <2>3. Cardinality(B \cup C) = i - 1
        BY <1>5, <1>6
    <2>. QED
        BY <1>1, <1>3, <1>7, <2>2, <2>3
<1>9. Rank((1 .. n) \ D, i) = i - Cardinality(B)
    BY <1>1, <1>3, <1>4, <1>8
<1>. QED
    BY <1>1, <1>9 DEF B

(* The entry at an index the loop keeps has as many fewer places before it *)
(* as entries before it were deleted.                                      *)
LEMMA KeptEntry ==
    ASSUME NEW S, NEW list \in Seq(S), NEW song, NEW p \in Nat, p + 1 \in DOMAIN list,
           p + 1 \notin LoopDeletes(list, song)
    PROVE  LET q == p - Cardinality({ i \in LoopDeletes(list, song) : i - 1 < p }) IN
           /\ q \in Nat /\ q + 1 \in 1 .. Len(LoopDelete(list, song))
           /\ LoopDelete(list, song)[q + 1] = list[p + 1]
<1> DEFINE D == LoopDeletes(list, song)
           K == (1 .. Len(list)) \ D
           rest == LoopDelete(list, song)
           c == Cardinality({ i \in D : i - 1 < p })
<1>1. DOMAIN list = 1 .. Len(list) /\ Len(list) \in Nat
    BY LenProperties
<1>2. D \in SUBSET (1 .. Len(list))
    BY <1>1, LoopDeletesDomain
<1>3. rest = Keep(list, K) /\ K \in SUBSET DOMAIN list /\ p + 1 \in K
    BY <1>1 DEF LoopDelete
<1> HIDE DEF D
<1>4. { i \in D : i - 1 < p } = { i \in D : i < p + 1 }
    <2>1. \A i \in D : i - 1 < p <=> i < p + 1
        BY <1>2
    <2>. QED
        BY <2>1
<1>5. p + 1 \in 1 .. Len(list) + 1
    BY <1>1
<1>6. c \in Nat /\ Rank(K, p + 1) = (p + 1) - c
    <2>1. /\ Cardinality({ i \in D : i < p + 1 }) \in Nat
          /\ Rank(K, p + 1) = (p + 1) - Cardinality({ i \in D : i < p + 1 })
        BY <1>1, <1>2, <1>5, ComplementRank
    <2>. QED
        BY <1>4, <2>1
<1> HIDE DEF K, c, rest
<1>7. Rank(K, p + 1) \in DOMAIN rest /\ rest[Rank(K, p + 1)] = list[p + 1]
    BY <1>3, KeepEntry
<1>8. rest \in Seq(S) /\ DOMAIN rest = 1 .. Len(rest) /\ Len(rest) \in Nat
    BY <1>3, KeepType, LenProperties
<1>9. (p + 1) - c = (p - c) + 1
    BY <1>6
<1>10. (p - c) + 1 \in 1 .. Len(rest) /\ rest[(p - c) + 1] = list[p + 1]
    BY <1>6, <1>7, <1>8, <1>9
<1>11. p - c \in Nat
    BY <1>6, <1>8, <1>10
<1>. QED
    BY <1>10, <1>11 DEF c, D, rest

(* A deleted entry leaves its place to the next kept one; the last has none. *)
LEMMA DeletedEntry ==
    ASSUME NEW S, NEW list \in Seq(S), NEW song, NEW p \in Nat,
           p + 1 \in LoopDeletes(list, song)
    PROVE  LET q == p - Cardinality({ i \in LoopDeletes(list, song) : i - 1 < p }) IN
           /\ q \in Nat
           /\ p + 1 < Len(list) => q < Len(LoopDelete(list, song))
           /\ ~ (p + 1 < Len(list)) => q = Len(LoopDelete(list, song))
<1> DEFINE D == LoopDeletes(list, song)
           K == (1 .. Len(list)) \ D
           rest == LoopDelete(list, song)
           c == Cardinality({ i \in D : i - 1 < p })
           Before(i) == { j \in K : j < i }
<1>1. DOMAIN list = 1 .. Len(list) /\ Len(list) \in Nat
    BY LenProperties
<1>2. D \in SUBSET (1 .. Len(list)) /\ p + 1 \in D /\ p + 2 \notin D
    <2>1. D \in SUBSET (1 .. Len(list)) /\ p + 1 \in D
        BY <1>1, LoopDeletesDomain
    <2>2. (p + 1) + 1 \notin D
        BY LoopDeletesSkips
    <2>. QED
        BY <2>1, <2>2
<1>3. rest = Keep(list, K) /\ K \in SUBSET DOMAIN list /\ K \in SUBSET (1 .. Len(list))
    BY <1>1 DEF LoopDelete
<1>4. Len(rest) = Cardinality(K) /\ IsFiniteSet(K) /\ Cardinality(K) \in Nat
    <2> HIDE DEF K
    <2>. QED
        BY <1>1, <1>3, KeepType, PositionsFinite
<1> HIDE DEF D
<1>5. { i \in D : i - 1 < p } = { i \in D : i < p + 1 }
    <2>1. \A i \in D : i - 1 < p <=> i < p + 1
        BY <1>2
    <2>. QED
        BY <2>1
<1>6. p + 1 \in 1 .. Len(list) + 1 /\ p + 1 \in 1 .. Len(list)
    BY <1>1, <1>2
<1>7. c \in Nat /\ Rank(K, p + 1) = (p + 1) - c
    <2>1. /\ Cardinality({ i \in D : i < p + 1 }) \in Nat
          /\ Rank(K, p + 1) = (p + 1) - Cardinality({ i \in D : i < p + 1 })
        BY <1>1, <1>2, <1>6, ComplementRank
    <2>. QED
        BY <1>5, <2>1
<1>8. p - c = Cardinality(Before(p + 1)) /\ p - c \in Nat
    <2>1. Cardinality(Before(p + 1)) \in Nat
        <3> HIDE DEF K
        <3>. QED
            BY <1>1, <1>3, RankType
    <2>2. Rank(K, p + 1) = Cardinality(Before(p + 1)) + 1
        BY DEF Rank
    <2> HIDE DEF Before, c
    <2>. QED
        BY <1>7, <2>1, <2>2
<1>9. ASSUME p + 1 < Len(list) PROVE p - c < Len(rest)
    <2>1. p + 2 \in K
        BY <1>1, <1>2, <1>9
    <2>2. Before(p + 2) = Before(p + 1)
        <3>1. \A j \in K : j < p + 2 <=> j < p + 1
            BY <1>1, <1>2
        <3> HIDE DEF K
        <3>. QED
            BY <3>1
    <2>3. Rank(K, p + 2) = Cardinality(Before(p + 1)) + 1
        BY <2>2 DEF Rank
    <2> HIDE DEF K, Before, c
    <2>4. Rank(K, p + 2) \in 1 .. Cardinality(K)
        BY <1>1, <1>3, <2>1, NthRank
    <2>. QED
        BY <1>4, <1>8, <2>3, <2>4
<1>10. ASSUME ~ (p + 1 < Len(list)) PROVE p - c = Len(rest)
    <2>1. p + 1 = Len(list)
        <3>1. Len(list) \in Nat
            BY <1>1
        <3>. QED
            BY <3>1, <1>6, <1>10
    <2>2. \A j \in K : j < p + 1
        BY <1>1, <1>2, <2>1
    <2> HIDE DEF K
    <2>3. Before(p + 1) = K
        BY <2>2
    <2>. QED
        BY <1>4, <1>8, <2>3
<1>. QED
    BY <1>8, <1>9, <1>10 DEF D

=============================================================================
