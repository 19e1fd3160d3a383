-------------------------- MODULE DuplicateGroups --------------------------
(***************************************************************************)
(* How _form_duplicate_groups groups the files of the library: those with  *)
(* the same content hash first, then, among the rest, a greedy single pass *)
(* that compares each file with the first member of every cluster so far.  *)
(***************************************************************************)
EXTENDS Naturals, Sequences, SequencesExt, FiniteSetsExt

CONSTANTS
    Hash,      \* SHA-256 of each picture
    Look,      \* perceptual hash of each picture, NoLook if not decodable
    NoLook,
    Distance,  \* Hamming distance of two perceptual hashes
    Threshold  \* settings.LIBRARY_NEAR_DUPLICATE_HAMMING_THRESHOLD

Large(S) == Cardinality(S) >= 2

\* files maps the id of each active, hashed row to the picture it was hashed
\* from.
SameHash(files) ==
    LET Twins(i) == {j \in DOMAIN files : Hash[files[j]] = Hash[files[i]]}
    IN  {G \in {Twins(i) : i \in DOMAIN files} : Large(G)}

Alike(files, i, j) == Distance[Look[files[i]], Look[files[j]]] <= Threshold

\* A candidate joins the first cluster whose representative it resembles.
Placed(files, clusters, i) ==
    LET near == {k \in DOMAIN clusters : Alike(files, clusters[k][1], i)} IN
    IF near = {} THEN Append(clusters, <<i>>)
    ELSE [clusters EXCEPT ![Min(near)] = Append(@, i)]

\* The clusters after the candidates up to each id.
Clusters(files) ==
    LET candidates == {i \in DOMAIN files \ UNION SameHash(files) :
                        Look[files[i]] # NoLook}
        last == Max({0} \union DOMAIN files)
        after[i \in 0..last] ==
            IF i = 0 THEN <<>>
            ELSE IF i \in candidates THEN Placed(files, after[i - 1], i)
            ELSE after[i - 1]
    IN  after[last]

NearGroups(files) ==
    {G \in {ToSet(c) : c \in ToSet(Clusters(files))} : Large(G)}

\* The new content of duplicate_groups; ids start at 1, the table is empty.
Groups(files) ==
    LET exact == SetToSeq(SameHash(files))
        near == SetToSeq(NearGroups(files))
        Row(id, kind, G) == [id |-> id, kind |-> kind, members |-> G]
    IN  {Row(k, "exact", exact[k]) : k \in DOMAIN exact}
            \union {Row(Len(exact) + k, "near", near[k]) : k \in DOMAIN near}

=============================================================================
