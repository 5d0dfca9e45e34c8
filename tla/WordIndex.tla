----------------------------- MODULE WordIndex -----------------------------
(***************************************************************************)
(* The data of Map-Reduce Inverse Search Multi-thread/main.cpp: the words  *)
(* of the input files and the order in which a letter's words are listed.  *)
(* A word is a model value with the letter it starts with and its place in *)
(* the alphabetical order; letters are their character codes.              *)
(***************************************************************************)
EXTENDS Integers, FiniteSets, Sequences

CONSTANTS
    FileIds,        \* ids of the listed files that exist
    Words,          \* lower-case words of letters only, those of the files
    LetterOf,       \* w.word[0]
    Rank,           \* alphabetical order
    Contents,       \* the words of each file, each once, none empty
    CharA, CharZ     \* 'a' and 'z'

Letters == CharA .. CharZ

ASSUME WordsAssumption ==
    /\ CharA \in Int /\ CharZ \in Int /\ CharA <= CharZ
    /\ LetterOf \in [Words -> Letters]
    /\ IsFiniteSet(Words)
    /\ Rank \in [Words -> Nat]
    /\ \A v, w \in Words : Rank[v] = Rank[w] => v = w
    /\ Contents \in [FileIds -> SUBSET Words]

\* An element of a sorted map: a word and the files it is in.
Entry(w, ids) == [word |-> w, ids |-> ids]

\* A slip sortMap could have: fewer files first.
BadBefore(a, b) ==
    \/ Cardinality(a.ids) < Cardinality(b.ids)
    \/ /\ Cardinality(a.ids) = Cardinality(b.ids)
       /\ Rank[a.word] < Rank[b.word]

\* sortMap: more files first, then alphabetically.
Before(a, b) ==
    \/ Cardinality(a.ids) > Cardinality(b.ids)
    \/ /\ Cardinality(a.ids) = Cardinality(b.ids)
       /\ Rank[a.word] < Rank[b.word]

\* std::sort with sortMap.
SortEntries(S) ==
    LET n == Cardinality(S)
    IN  CHOOSE s \in [1 .. n -> S] :
           \A i, j \in 1 .. n : i < j => Before(s[i], s[j])

-----------------------------------------------------------------------------
(* The reference: what the file of a letter has to contain. *)

FilesOf(w) == {f \in FileIds : w \in Contents[f]}

IsIndex(l, s) ==
    /\ {s[i] : i \in 1 .. Len(s)} =
          {Entry(w, FilesOf(w)) :
              w \in {v \in Words : LetterOf[v] = l /\ FilesOf(v) # {}}}
    /\ \A i, j \in 1 .. Len(s) : i < j =>
          LET a == s[i]
              b == s[j]
          IN  /\ Cardinality(a.ids) >= Cardinality(b.ids)
              /\ Cardinality(a.ids) = Cardinality(b.ids) =>
                    Rank[a.word] < Rank[b.word]
=============================================================================
