----------------------------- MODULE Vocabulary -----------------------------
(* TemplatedVocabulary with FBrief descriptors: the tree of clusters built   *)
(* by hierarchical k-means, its words and their weights, what a descriptor   *)
(* becomes when it goes down the tree, and a vocabulary saved, loaded and    *)
(* copied. A descriptor is the set of its bits. A weight, log(N / Ni), is    *)
(* abstracted to N - Ni: zero for the same words and in the same order.      *)
EXTENDS Integers, Sequences, FiniteSets, SequencesExt, FiniteSetsExt

CONSTANTS
  K, L,        \* branching factor and depth levels, m_k and m_L
  Bits,        \* bits of a descriptor
  Trainings    \* training sets: sequences of documents, themselves of descriptors

VARIABLES
  vocPc,       \* the step of create, or "trained"
  docs,        \* training_features
  weighting,   \* m_weighting
  stack,       \* calls of HKmeansStep to come: parent, descriptors, level
  clusters,    \* clusters of the running call
  association, \* current_association: the cluster of each of its descriptors
  nodes,       \* m_nodes: parent, children, descriptor, word and weight of an id
  words,       \* m_words: the node of every word
  held,        \* history: the node whose cluster held a training descriptor last
  file,        \* the nodes and words written by save
  meaning      \* history: word and weight of every descriptor when it was saved

vocVars == <<vocPc, docs, weighting, stack, clusters, association, nodes, words, held, file, meaning>>

Descriptors == SUBSET Bits
Distance(a, b) == Cardinality((a \ b) \cup (b \ a))
\* FBrief::meanValue: the bits set in more than half of the descriptors, none if
\* there are none.
MeanValue(s) == {b \in Bits : Cardinality({i \in DOMAIN s : b \in s[i]}) > Len(s) \div 2}

\* getFeatures: the descriptors of all documents in one sequence.
Features == FlattenSeq(docs)

Node(parent, descriptor) ==
  [parent |-> parent, children |-> <<>>, descriptor |-> descriptor, word |-> 0, weight |-> 0]
NoTree == 0 :> Node(0, {})
\* expected_nodes, for which create reserves memory: the sum of K^i up to level L.
ExpectedNodes == (K^(L + 1) - 1) \div (K - 1)

VocInit ==
  /\ vocPc = "empty"
  /\ docs = <<>>
  /\ weighting = "TF_IDF"
  /\ stack = <<>>
  /\ clusters = <<>>
  /\ association = <<>>
  /\ nodes = NoTree
  /\ words = <<>>
  /\ held = <<>>
  /\ file = [nodes |-> <<>>, words |-> <<>>]
  /\ meaning = <<>>

\* create: the root and the call of HKmeansStep on all features.
Create ==
  /\ vocPc = "empty"
  /\ docs' \in Trainings
  /\ weighting' \in {"TF", "TF_IDF"}
  /\ nodes' = NoTree
  /\ words' = <<>>
  /\ LET all == FlattenSeq(docs')
     IN  /\ stack' = <<[parent |-> 0, items |-> [i \in DOMAIN all |-> i], level |-> 1]>>
         /\ held' = [i \in DOMAIN all |-> 0]
  /\ vocPc' = "cluster"
  /\ UNCHANGED <<clusters, association, file, meaning>>

Call == Head(stack)
Item(i) == Features[Call.items[i]]

\* The nearest cluster of a descriptor, the first one of those at that distance.
Closer(d1, d2) == d1 < d2
Nearest(descriptor, centres) ==
  FoldLeft(LAMBDA best, c : IF Closer(Distance(descriptor, centres[c]), Distance(descriptor, centres[best]))
                              THEN c ELSE best,
           1, [c \in 1..Len(centres) |-> c])

Associated(centres) == [i \in DOMAIN Call.items |-> Nearest(Item(i), centres)]

\* Trivial case: one cluster per descriptor.
TrivialClusters ==
  /\ vocPc = "cluster"
  /\ stack # <<>>
  /\ Len(Call.items) <= K
  /\ clusters' = [i \in DOMAIN Call.items |-> Item(i)]
  /\ association' = [i \in DOMAIN Call.items |-> i]
  /\ vocPc' = "nodes"
  /\ UNCHANGED <<docs, weighting, stack, nodes, words, held, file, meaning>>

\* initiateClustersKMpp: a random first centre, then random descriptors at a
\* distance from all centres, until there are K or none is left.
InitialClusters ==
  LET values == {Item(i) : i \in DOMAIN Call.items}
  IN  {s \in [1..Min({K, Cardinality(values)}) -> values] : IsInjective(s)}

InitiateClusters ==
  /\ vocPc = "cluster"
  /\ stack # <<>>
  /\ Len(Call.items) > K
  /\ clusters' \in InitialClusters
  /\ association' = Associated(clusters')
  /\ vocPc' = "kmeans"
  /\ UNCHANGED <<docs, weighting, stack, nodes, words, held, file, meaning>>

Group(c) == SelectSeq([i \in DOMAIN Call.items |-> i], LAMBDA i : association[i] = c)

\* One more iteration: the means of the groups, the association with them, and
\* the end when no descriptor has changed cluster.
KMeans ==
  /\ vocPc = "kmeans"
  /\ LET means == [c \in DOMAIN clusters |-> MeanValue([j \in DOMAIN Group(c) |-> Item(Group(c)[j])])]
     IN  /\ clusters' = means
         /\ association' = Associated(means)
         /\ vocPc' = IF association' = association THEN "nodes" ELSE "kmeans"
  /\ UNCHANGED <<docs, weighting, stack, nodes, words, held, file, meaning>>

NewId(c) == Cardinality(DOMAIN nodes) + c - 1
\* Mutant: the recursion goes one level too deep.
OneLevelMore == Call.level <= L
\* The groups HKmeansStep goes on with, in the order of its loop.
NextLevel == Call.level < L
Calls ==
  [j \in DOMAIN clusters |-> [parent |-> NewId(j),
                              items |-> [i \in DOMAIN Group(j) |-> Call.items[Group(j)[i]]],
                              level |-> Call.level + 1]]

\* The nodes of the clusters, and the calls for the groups of several descriptors
\* unless the last level is reached. A call's own calls come before the next one's.
CreateNodes ==
  /\ vocPc = "nodes"
  /\ LET new == {NewId(c) : c \in DOMAIN clusters}
         root == Cardinality(DOMAIN nodes) - 1
     IN  nodes' = [n \in new |-> Node(Call.parent, clusters[n - root])]
                    @@ [nodes EXCEPT ![Call.parent].children = [c \in DOMAIN clusters |-> NewId(c)]]
  /\ held' = [i \in DOMAIN held |->
                IF \E j \in DOMAIN Call.items : Call.items[j] = i
                  THEN NewId(association[CHOOSE j \in DOMAIN Call.items : Call.items[j] = i])
                  ELSE held[i]]
  /\ stack' = (IF NextLevel THEN SelectSeq(Calls, LAMBDA call : Len(call.items) > 1) ELSE <<>>)
                \o Tail(stack)
  /\ vocPc' = "cluster"
  /\ UNCHANGED <<docs, weighting, clusters, association, words, file, meaning>>

IsLeaf(tree, n) == tree[n].children = <<>>
\* createWords: the leaves in the order of the nodes, the root left out.
Leaves(tree) == SetToSortSeq({n \in DOMAIN tree \ {0} : IsLeaf(tree, n)}, <)
WordOf(leaves, n) == CHOOSE w \in DOMAIN leaves : leaves[w] = n
WithWords(tree) ==
  [n \in DOMAIN tree |-> IF n # 0 /\ IsLeaf(tree, n)
                           THEN [tree[n] EXCEPT !.word = WordOf(Leaves(tree), n)] ELSE tree[n]]

\* transform: from the root to the nearest child until a leaf.
RECURSIVE LeafBelow(_, _, _)
LeafBelow(tree, n, descriptor) ==
  IF IsLeaf(tree, n) THEN n
  ELSE LET children == tree[n].children
           centres == [c \in DOMAIN children |-> tree[children[c]].descriptor]
       IN  LeafBelow(tree, children[Nearest(descriptor, centres)], descriptor)

\* setNodeWeights: 1 for TF; for TF_IDF, from the number of documents with the
\* word. A word no document has keeps the weight 0 of its node.
Ni(tree, n) == Cardinality({d \in DOMAIN docs : \E i \in DOMAIN docs[d] : LeafBelow(tree, 0, docs[d][i]) = n})
Idf(ni) == IF ni > 0 THEN Len(docs) - ni ELSE 0
Weighted(tree) ==
  [n \in DOMAIN tree |-> IF n = 0 \/ ~IsLeaf(tree, n) THEN tree[n]
                         ELSE [tree[n] EXCEPT !.weight = IF weighting = "TF" THEN 1 ELSE Idf(Ni(tree, n))]]

CreateWords ==
  /\ vocPc = "cluster"
  /\ stack = <<>>
  /\ words' = Leaves(nodes)
  /\ nodes' = Weighted(WithWords(nodes))
  /\ clusters' = <<>>
  /\ association' = <<>>
  /\ vocPc' = "trained"
  /\ UNCHANGED <<docs, weighting, stack, held, file, meaning>>

\* stopWords: the words below a weight are given the weight 0.
StopWords ==
  /\ vocPc = "trained"
  /\ \E min \in 1..Len(docs) :
       nodes' = [n \in DOMAIN nodes |-> IF n \in ToSet(words) /\ nodes[n].weight < min
                                          THEN [nodes[n] EXCEPT !.weight = 0] ELSE nodes[n]]
  /\ nodes' # nodes
  /\ UNCHANGED <<vocPc, docs, weighting, stack, clusters, association, words, held, file, meaning>>

\* What a descriptor becomes; an empty vocabulary gives word 0 and no weight.
Meaning(tree, ws, descriptor) ==
  IF ws = <<>> THEN <<0, 0>>
  ELSE LET n == LeafBelow(tree, 0, descriptor) IN <<tree[n].word, tree[n].weight>>

\* save: the children of a node are written together, then those of the inner
\* node pushed last; the words in their order, with their nodes.
RECURSIVE Written(_, _)
Written(tree, parents) ==
  IF parents = <<>> THEN <<>>
  ELSE LET children == tree[Last(parents)].children
       IN  children \o Written(tree, Front(parents) \o SelectSeq(children, LAMBDA c : ~IsLeaf(tree, c)))
Entry(n) == [node |-> n, parent |-> nodes[n].parent, weight |-> nodes[n].weight, descriptor |-> nodes[n].descriptor]

Save ==
  /\ vocPc = "trained"
  /\ file' = [nodes |-> [i \in DOMAIN Written(nodes, <<0>>) |-> Entry(Written(nodes, <<0>>)[i])],
              words |-> words]
  /\ meaning' = [d \in Descriptors |-> Meaning(nodes, words, d)]
  /\ vocPc' = "saved"
  /\ UNCHANGED <<docs, weighting, stack, clusters, association, nodes, words, held>>

\* Mutant: the loaded child is put before its siblings.
LinkedAtFront(tree, entry) ==
  [tree EXCEPT ![entry.node].parent = entry.parent, ![entry.node].weight = entry.weight,
               ![entry.node].descriptor = entry.descriptor,
               ![entry.parent].children = <<entry.node>> \o @]
\* load and loadBin: room for every node and the root, then each entry is put at
\* its id and appended to the children of its parent, and every word to its node.
Linked(tree, entry) ==
  [tree EXCEPT ![entry.node].parent = entry.parent, ![entry.node].weight = entry.weight,
               ![entry.node].descriptor = entry.descriptor,
               ![entry.parent].children = Append(@, entry.node)]
Loaded(f) ==
  LET tree == FoldLeft(LAMBDA t, e : Linked(t, e), [n \in 0..Len(f.nodes) |-> Node(0, {})], f.nodes)
  IN  [n \in DOMAIN tree |-> IF n \in ToSet(f.words)
                               THEN [tree[n] EXCEPT !.word = WordOf(f.words, n)] ELSE tree[n]]

Load ==
  /\ vocPc = "saved"
  /\ nodes' = Loaded(file)
  /\ words' = file.words
  /\ vocPc' = "loaded"
  /\ UNCHANGED <<docs, weighting, stack, clusters, association, held, file, meaning>>

\* The copy constructor and operator=: the nodes, and words created from them.
Copy ==
  /\ vocPc = "loaded"
  /\ nodes' = WithWords(nodes)
  /\ words' = Leaves(nodes)
  /\ vocPc' = "copied"
  /\ UNCHANGED <<docs, weighting, stack, clusters, association, held, file, meaning>>

VocNext ==
  \/ Create \/ TrivialClusters \/ InitiateClusters \/ KMeans \/ CreateNodes
  \/ CreateWords \/ StopWords \/ Save \/ Load \/ Copy

VocSpec == VocInit /\ [][VocNext]_vocVars

-----------------------------------------------------------------------------
\* transform with a level: the ancestor of the leaf at level L - levelsup, which
\* is left unset when the leaf is above that level.
RECURSIVE Path(_, _)
Path(tree, n) == IF n = 0 THEN <<>> ELSE Append(Path(tree, tree[n].parent), n)
UnsetNode == -1
NodeAtLevel(tree, leaf, levelsup) ==
  LET level == L - levelsup
  IN  IF level <= 0 THEN 0
      ELSE IF level <= Len(Path(tree, leaf)) THEN Path(tree, leaf)[level] ELSE UnsetNode
\* getParentNode: levelsup steps up from the word's leaf, the root at most.
GetParentNode(tree, ws, w, levelsup) ==
  LET path == <<0>> \o Path(tree, ws[w])
  IN  path[IF levelsup >= Len(path) THEN 1 ELSE Len(path) - levelsup]
\* getWordsFromNode: the words of the leaves below a node.
RECURSIVE GetWordsFromNode(_, _)
GetWordsFromNode(tree, n) ==
  IF IsLeaf(tree, n) THEN {tree[n].word}
  ELSE UNION {GetWordsFromNode(tree, tree[n].children[c]) : c \in DOMAIN tree[n].children}

\* A descriptor goes down the tree to the very cluster it was in when the tree
\* was built, or to an equal descriptor's when each has a cluster of its own;
\* and the tree stays within the memory create reserves for it, on which
\* HKmeansStep relies to keep a reference to children while it adds nodes
\* (TemplatedVocabulary.h:562-565, 639-816, 1217-1258).
TrainingReachesItsCluster ==
  vocPc = "trained" =>
    /\ Cardinality(DOMAIN nodes) <= ExpectedNodes
    /\ \A i \in DOMAIN held :
         LET leaf == LeafBelow(nodes, 0, Features[i])
         IN  \/ leaf = held[i]
             \/ nodes[leaf].descriptor = Features[i] /\ nodes[held[i]].descriptor = Features[i]

\* A vocabulary that was saved and loaded, and a copy of it, give every descriptor
\* the word and the weight it had, ties between clusters included; a word is found
\* below every node it is said to be under (TemplatedVocabulary.h:533-550, 1263-1505).
MeaningSurvives ==
  vocPc \in {"loaded", "copied"} =>
    /\ \A d \in Descriptors : Meaning(nodes, words, d) = meaning[d]
    /\ \A w \in DOMAIN words, up \in 0..L :
         w \in GetWordsFromNode(nodes, GetParentNode(nodes, words, w, up))
    /\ \A w \in DOMAIN words, up \in 0..L :
         NodeAtLevel(nodes, words[w], up) \in {UnsetNode} \cup {GetParentNode(nodes, words, w, j) : j \in 0..up}
=============================================================================
