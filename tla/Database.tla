------------------------------ MODULE Database ------------------------------
(* TemplatedDatabase: images as bags of words, an inverted file that gives   *)
(* the entries of a word, a direct file that gives the features of an entry, *)
(* and the queries of the six scoring types. A descriptor is known by the    *)
(* word the vocabulary gives it. A vector is kept as it is before it is      *)
(* divided by its norm, and a score before it is brought between 0 and 1;    *)
(* fractions, roots and logarithms are functions the constants give.         *)
EXTENDS Integers, Sequences, FiniteSets, SequencesExt, FiniteSetsExt, Functions

CONSTANTS
  Words,             \* 1..n, ids of words
  Weight, NodeOf,    \* of a word: its weight, 0 if stopped, and its node dilevels up
  Images,            \* sequences of words: the descriptors an image may have
  MaxEntries,        \* bound: entries
  MIN_COMMON_WORDS,  \* words an entry shares with the query, in two scoring types
  Fraction(_, _),    \* n / d
  Sqrt(_),
  Divergence(_, _)   \* v * log(v / w), and for w = 0, v * (log(v) - LOG_EPS)

VARIABLES
  scoring, weighting,   \* of the vocabulary
  useDi,                \* m_use_di
  ifile,                \* m_ifile: entries and weights of every word
  dfile,                \* m_dfile: the features of every entry, by node
  dBowfile,             \* m_dBowfile: the vector of every entry
  nentries,             \* m_nentries
  saved,                \* what save has written
  added,                \* history: the image of every entry since the last clear
  deleted,              \* history: entries given to delete_entry
  loaded,               \* history: entries load restored, without their vectors
  removed               \* history: entries deleted while their vector was known

dbVars == <<scoring, weighting, useDi, ifile, dfile, dBowfile, nentries, saved, added, deleted, loaded, removed>>

ScoringTypes == {"L1", "L2", "ChiSquare", "KL", "Bhattacharyya", "DotProduct"}

\* transform with features: stopped words left out; addWeight sums the weights
\* of a word, addIfNotExist takes it once, and binary weights are 1; addFeature
\* lists features by node.
Kept(image) == {i \in DOMAIN image : Weight[image[i]] > 0}
BowVector(image) ==
  [w \in {image[i] : i \in Kept(image)} |->
     IF weighting = "TF_IDF" THEN Weight[w] * Cardinality({i \in Kept(image) : image[i] = w}) ELSE 1]
FeatureVector(image) ==
  [n \in {NodeOf[image[i]] : i \in Kept(image)} |->
     SetToSortSeq({i \in Kept(image) : NodeOf[image[i]] = n}, <)]

NoFile == [nentries |-> -1]
EmptyRows == [w \in Words |-> <<>>]

DbInit ==
  /\ scoring = "none"
  /\ weighting = "none"
  /\ useDi = FALSE
  /\ ifile = EmptyRows
  /\ dfile = <<>>
  /\ dBowfile = <<>>
  /\ nentries = 0
  /\ saved = NoFile
  /\ added = <<>>
  /\ deleted = {}
  /\ loaded = {}
  /\ removed = {}

\* The constructors with a vocabulary.
Construct ==
  /\ scoring = "none"
  /\ scoring' \in ScoringTypes
  /\ weighting' \in {"TF_IDF", "BINARY"}
  /\ useDi' \in BOOLEAN
  /\ UNCHANGED <<ifile, dfile, dBowfile, nentries, saved, added, deleted, loaded, removed>>
HasVocabulary == scoring # "none"

\* An entry id e is at position e + 1 of the files.
StoredAt(file, e, value) == IF e = Len(file) THEN Append(file, value) ELSE [file EXCEPT ![e + 1] = value]

\* add: an id, the direct file if it is used, and a pair in the row of every word.
Add ==
  /\ HasVocabulary
  /\ nentries < MaxEntries
  /\ \E image \in Images :
       LET v == BowVector(image)
       IN  /\ ifile' = [w \in Words |-> IF w \in DOMAIN v
                                          THEN Append(ifile[w], [entry |-> nentries, weight |-> v[w]])
                                          ELSE ifile[w]]
           /\ IF useDi
                THEN /\ dfile' = StoredAt(dfile, nentries, FeatureVector(image))
                     /\ dBowfile' = StoredAt(dBowfile, nentries, v)
                ELSE UNCHANGED <<dfile, dBowfile>>
           /\ added' = Append(added, image)
  /\ nentries' = nentries + 1
  /\ UNCHANGED <<scoring, weighting, useDi, saved, deleted, loaded, removed>>

Abs(x) == IF x < 0 THEN -x ELSE x

\* Mutant: the last pair is erased, whoever's it is.
ErasedLast(row, e) == IF row = <<>> THEN row ELSE Front(row)
\* The first pair of an entry erased from a row.
Erased(row, e) ==
  LET at == {i \in DOMAIN row : row[i].entry = e}
  IN  IF at = {} THEN row ELSE RemoveAt(row, Min(at))

\* delete_entry: the rows of the words m_dBowfile has for it. Without the direct
\* index that vector is empty and reading it is undefined: callers need use_di.
DeleteEntry ==
  /\ useDi
  /\ \E e \in 0..(nentries - 1) :
       /\ ifile' = [w \in Words |-> IF w \in DOMAIN dBowfile[e + 1] THEN Erased(ifile[w], e) ELSE ifile[w]]
       /\ dBowfile' = [dBowfile EXCEPT ![e + 1] = <<>>]
       /\ dfile' = [dfile EXCEPT ![e + 1] = <<>>]
       /\ deleted' = deleted \cup {e}
       /\ removed' = IF e \in loaded THEN removed ELSE removed \cup {e}
  /\ UNCHANGED <<scoring, weighting, useDi, nentries, saved, added, loaded>>

\* allocate: room for entries to come, which add then assigns to.
Allocate ==
  /\ useDi
  /\ Len(dfile) < MaxEntries
  /\ dfile' = dfile \o [i \in 1..(MaxEntries - Len(dfile)) |-> <<>>]
  /\ dBowfile' = dBowfile \o [i \in 1..(MaxEntries - Len(dBowfile)) |-> <<>>]
  /\ UNCHANGED <<scoring, weighting, useDi, ifile, nentries, saved, added, deleted, loaded, removed>>

Cleared ==
  /\ ifile' = EmptyRows
  /\ dfile' = <<>>
  /\ dBowfile' = <<>>
  /\ nentries' = 0
  /\ added' = <<>>
  /\ deleted' = {}
  /\ loaded' = {}
  /\ removed' = {}

\* setVocabulary, with a flag for the direct index; the constructors with a
\* vocabulary do the same. operator= and the copy constructor end with it too,
\* so that they leave no entry in the copy.
SetVocabulary ==
  /\ nentries > 0
  /\ Cleared
  /\ useDi' \in BOOLEAN
  /\ UNCHANGED <<scoring, weighting, saved>>

\* save: both files; the vectors of m_dBowfile are not written.
Save ==
  /\ HasVocabulary
  /\ saved = NoFile
  /\ saved' = [nentries |-> nentries, usingDI |-> useDi, invertedIndex |-> ifile,
               directIndex |-> dfile, images |-> added, deleted |-> deleted,
               removed |-> removed]
  /\ UNCHANGED <<scoring, weighting, useDi, ifile, dfile, dBowfile, nentries, added, deleted, loaded, removed>>

\* load: clear, then the two files, and an empty vector for every entry. Its
\* assertion demands as many entries in the direct index as were added.
Load ==
  /\ saved # NoFile
  /\ saved.usingDI => Len(saved.directIndex) = saved.nentries
  /\ nentries' = saved.nentries
  /\ useDi' = saved.usingDI
  /\ ifile' = saved.invertedIndex
  /\ dfile' = IF saved.usingDI THEN saved.directIndex ELSE <<>>
  /\ dBowfile' = IF saved.usingDI THEN [i \in DOMAIN saved.directIndex |-> <<>>] ELSE <<>>
  /\ added' = saved.images
  /\ deleted' = saved.deleted
  /\ removed' = saved.removed
  /\ loaded' = 0..(saved.nentries - 1)
  /\ saved' = NoFile
  /\ UNCHANGED <<scoring, weighting>>

DbNext == Construct \/ Add \/ DeleteEntry \/ Allocate \/ SetVocabulary \/ Save \/ Load
DbSpec == DbInit /\ [][DbNext]_dbVars

-----------------------------------------------------------------------------
(* Queries: the rows of the query's words are met entry by entry. *)

\* What the rows of a query's words hold of every entry in a set, with the weight
\* of the query: the terms its score is summed from.
Pairs(vec, entries) ==
  LET hits == UNION {{[q |-> vec[w], d |-> ifile[w][i].weight, entry |-> ifile[w][i].entry, word |-> w, at |-> i] :
                        i \in DOMAIN ifile[w]} : w \in DOMAIN vec}
  IN  [e \in {h.entry : h \in hits} \cap entries |-> {h \in hits : h.entry = e}]
\* The pairs with enough words in common with the query.
Sharing(pairs) == Restrict(pairs, {e \in DOMAIN pairs : Cardinality(pairs[e]) >= MIN_COMMON_WORDS})

\* The results are sorted and cut: what may be left, as std::sort may put equal
\* ones in any order.
Cut(sums, max_results, ascending) ==
  LET Precedes(e, f) == IF ascending THEN sums[e] < sums[f] ELSE sums[e] > sums[f]
  IN  IF max_results <= 0 \/ Cardinality(DOMAIN sums) <= max_results THEN {sums}
      ELSE {Restrict(sums, S) : S \in {T \in kSubset(max_results, DOMAIN sums) :
                                         \A e \in T, f \in DOMAIN sums \ T : ~Precedes(f, e)}}
\* Sums that were negative for the sorting get their sign back.
Negated(answers) == {[e \in DOMAIN r |-> -r[e]] : r \in answers}

Recorded == UNION {{ifile[w][i].entry : i \in DOMAIN ifile[w]} : w \in DOMAIN ifile}
Below(max_id) == {e \in Recorded : e < max_id \/ max_id = -1}

\* queryL1 alone takes the last entry whatever max_id is: the keyframe before the
\* one that queries, for pose_graph.
QueryL1(vec, max_results, max_id) ==
  LET pairs == Pairs(vec, Below(max_id) \cup {nentries - 1})
      sum(e) == MapThenSumSet(LAMBDA h : Abs(h.q - h.d) - Abs(h.q) - Abs(h.d), pairs[e])
  IN  Negated(Cut([e \in DOMAIN pairs |-> sum(e)], max_results, TRUE))

QueryL2(vec, max_results, max_id) ==
  LET pairs == Pairs(vec, Below(max_id))
      sum(e) == MapThenSumSet(LAMBDA h : -(h.q * h.d), pairs[e])
  IN  Negated(Cut([e \in DOMAIN pairs |-> sum(e)], max_results, TRUE))

QueryChiSquare(vec, max_results, max_id) ==
  LET pairs == Sharing(Pairs(vec, Below(max_id)))
      sum(e) == MapThenSumSet(LAMBDA h : IF h.q + h.d # 0 THEN -Fraction(h.q * h.d, h.q + h.d) ELSE 0, pairs[e])
  IN  Negated(Cut([e \in DOMAIN pairs |-> sum(e)], max_results, TRUE))

\* The sums are completed with the words of the query in whose row the entry is not.
QueryKL(vec, max_results, max_id) ==
  LET pairs == Pairs(vec, Below(max_id))
      missing(e) == {w \in DOMAIN vec : \A i \in DOMAIN ifile[w] : ifile[w][i].entry # e}
      sum(e) == MapThenSumSet(LAMBDA h : Divergence(h.q, h.d), pairs[e])
                  + MapThenSumSet(LAMBDA w : Divergence(vec[w], 0), missing(e))
  IN  Cut([e \in DOMAIN pairs |-> sum(e)], max_results, TRUE)

QueryBhattacharyya(vec, max_results, max_id) ==
  LET pairs == Sharing(Pairs(vec, Below(max_id)))
      sum(e) == MapThenSumSet(LAMBDA h : Sqrt(h.q * h.d), pairs[e])
  IN  Cut([e \in DOMAIN pairs |-> sum(e)], max_results, FALSE)

\* With binary weights each common word counts one.
QueryDotProduct(vec, max_results, max_id) ==
  LET pairs == Pairs(vec, Below(max_id))
      sum(e) == MapThenSumSet(LAMBDA h : IF weighting = "BINARY" THEN 1 ELSE h.q * h.d, pairs[e])
  IN  Cut([e \in DOMAIN pairs |-> sum(e)], max_results, FALSE)

Query(vec, max_results, max_id) ==
  CASE scoring = "L1"            -> QueryL1(vec, max_results, max_id)
    [] scoring = "L2"            -> QueryL2(vec, max_results, max_id)
    [] scoring = "ChiSquare"     -> QueryChiSquare(vec, max_results, max_id)
    [] scoring = "KL"            -> QueryKL(vec, max_results, max_id)
    [] scoring = "Bhattacharyya" -> QueryBhattacharyya(vec, max_results, max_id)
    [] scoring = "DotProduct"    -> QueryDotProduct(vec, max_results, max_id)

-----------------------------------------------------------------------------
(* Scores: one walk along two vectors. *)

Keys(v) == SetToSortSeq(DOMAIN v, <)
LowerBound(keys, w) == Cardinality({i \in DOMAIN keys : keys[i] < w}) + 1
\* The words at which the two iterators meet: the one behind jumps to lower_bound.
RECURSIVE Met(_, _, _, _)
Met(k1, k2, i, j) ==
  IF i > Len(k1) \/ j > Len(k2) THEN {}
  ELSE IF k1[i] = k2[j] THEN {k1[i]} \cup Met(k1, k2, i + 1, j + 1)
  ELSE IF k1[i] < k2[j] THEN Met(k1, k2, LowerBound(k1, k2[j]), j)
  ELSE Met(k1, k2, i, LowerBound(k2, k1[i]))
Common(v1, v2) == Met(Keys(v1), Keys(v2), 1, 1)

ScoreL1(v1, v2) ==
  -MapThenSumSet(LAMBDA w : Abs(v1[w] - v2[w]) - Abs(v1[w]) - Abs(v2[w]), Common(v1, v2))
ScoreL2(v1, v2) == MapThenSumSet(LAMBDA w : v1[w] * v2[w], Common(v1, v2))
ScoreChiSquare(v1, v2) ==
  MapThenSumSet(LAMBDA w : IF v1[w] + v2[w] # 0 THEN Fraction(v1[w] * v2[w], v1[w] + v2[w]) ELSE 0, Common(v1, v2))
ScoreBhattacharyya(v1, v2) == MapThenSumSet(LAMBDA w : Sqrt(v1[w] * v2[w]), Common(v1, v2))
ScoreDotProduct(v1, v2) == MapThenSumSet(LAMBDA w : v1[w] * v2[w], Common(v1, v2))

\* KL takes the words of the first vector one at a time and sums the rest of them.
RECURSIVE WalkKL(_, _, _, _, _, _)
WalkKL(v1, v2, k1, k2, i, j) ==
  IF i > Len(k1) THEN 0
  ELSE IF j > Len(k2) \/ k1[i] < k2[j] THEN Divergence(v1[k1[i]], 0) + WalkKL(v1, v2, k1, k2, i + 1, j)
  ELSE IF k1[i] = k2[j] THEN Divergence(v1[k1[i]], v2[k2[j]]) + WalkKL(v1, v2, k1, k2, i + 1, j + 1)
  ELSE WalkKL(v1, v2, k1, k2, i, LowerBound(k2, k1[i]))
ScoreKL(v1, v2) == WalkKL(v1, v2, Keys(v1), Keys(v2), 1, 1)

Score(v1, v2) ==
  CASE scoring = "L1"            -> ScoreL1(v1, v2)
    [] scoring = "L2"            -> ScoreL2(v1, v2)
    [] scoring = "ChiSquare"     -> ScoreChiSquare(v1, v2)
    [] scoring = "KL"            -> ScoreKL(v1, v2)
    [] scoring = "Bhattacharyya" -> ScoreBhattacharyya(v1, v2)
    [] scoring = "DotProduct"    -> ScoreDotProduct(v1, v2)

-----------------------------------------------------------------------------
\* The entries a query has to consider: in its range, sharing words with it, not
\* deleted unless load left them without a vector to delete them by.
Eligible(vec, max_id) ==
  {e \in (0..(nentries - 1)) \ removed :
     /\ e < max_id \/ max_id = -1 \/ (scoring = "L1" /\ e = nentries - 1)
     /\ Cardinality(DOMAIN vec \cap DOMAIN BowVector(added[e + 1])) >=
          IF scoring \in {"ChiSquare", "Bhattacharyya"} THEN MIN_COMMON_WORDS ELSE 1}
Better(x, y) == IF scoring = "KL" THEN x < y ELSE x > y

\* A query over the inverted file answers entries of its range that share enough
\* words with it, each with the very score the two vectors have when compared
\* directly, and those it cuts off score no better; an entry is answered until it
\* is deleted, and for good when it was loaded, because load restores no vector to
\* delete it by. The features of every entry that was not deleted are retrieved, in
\* a database that was saved and loaded as well (TemplatedDatabase.h:395-503,
\* 607-1160, 1276-1348, ScoringObject.cpp:23-311).
QueryIsScore ==
  /\ HasVocabulary => \A image \in Images, max_id \in -1..nentries, max_results \in {0, 1} :
       LET vec == BowVector(image)
           all == Eligible(vec, max_id)
           score(e) == Score(vec, BowVector(added[e + 1]))
       IN  \A r \in Query(vec, max_results, max_id) :
             /\ DOMAIN r \subseteq all
             /\ Cardinality(DOMAIN r) = IF max_results = 0 THEN Cardinality(all)
                                                           ELSE Min({max_results, Cardinality(all)})
             /\ \A e \in DOMAIN r : r[e] = score(e)
             /\ \A e \in DOMAIN r, f \in all \ DOMAIN r : ~Better(score(f), score(e))
  /\ useDi => \A e \in (0..(nentries - 1)) \ deleted : dfile[e + 1] = FeatureVector(added[e + 1])
=============================================================================
