----------------------------- MODULE MCLibraries -----------------------------
(* The algorithms the nodes call, each on its own small instance: a behaviour *)
(* picks one of them and the variables of the others keep their first value.  *)
EXTENDS Libraries

CONSTANTS
  K, L, Bits, Trainings,
  Words, Weight, NodeOf, StoredImages, MaxEntries, MIN_COMMON_WORDS

VARIABLES
  part,      \* the algorithm of this behaviour
  vocPc, docs, weighting, stack, clusters, association, nodes, words, held, file, meaning,
  scoring, dbWeighting, useDi, ifile, dfile, dBowfile, nentries, dbSaved, added, deleted,
  loaded, removed

Voc == INSTANCE Vocabulary
\* A score and a query compute these alike: any functions do. A fraction counts in
\* parts of 60, a root in hundredths.
SmallFraction(n, d) == (60 * n) \div d
SmallSqrt(n) == CHOOSE r \in 0..1000 : r * r <= 10000 * n /\ 10000 * n < (r + 1) * (r + 1)
SmallDivergence(v, w) == 5 * v * (v + 1 - 2 * w)
Db == INSTANCE Database WITH Images <- StoredImages, weighting <- dbWeighting, saved <- dbSaved,
        Fraction <- SmallFraction, Sqrt <- SmallSqrt, Divergence <- SmallDivergence

sfmVars == <<sfmPc, pairs, headers, seen, ref, posed, at, support, keyOf, source, velocity>>
marginVars == <<marginPc, factors, columns, pos, firstKept, saved, value, todo, sums, total, joining, kept>>
reloVars == <<reloPc, stamp, listed, matched, status, inliers, message, messageStamp, reloHeaders, info,
              eligible, unvisited, retrive_feature_index, reloFactors, arbitrary>>
vocVars == <<vocPc, docs, weighting, stack, clusters, association, nodes, words, held, file, meaning>>
dbVars == <<scoring, dbWeighting, useDi, ifile, dfile, dBowfile, nentries, dbSaved, added, deleted,
            loaded, removed>>
calVars == <<calPc, camera, views, poses, calFile, data, setsPut, node, session, sessionPc, cursor, setsDue>>
costVars == <<costPc, model, request, cost, read>>

\* The residual blocks optimization() adds when the oldest frame leaves: the last
\* prior, the IMU factor unless it spans too long, landmarks first seen there.
Prior == [blocks |-> <<"pose0", "speed0", "ex">>, drop |-> {1, 2}]
Imu == [blocks |-> <<"pose0", "speed0", "pose1", "speed1">>, drop |-> {1, 2}]
Projection == [blocks |-> <<"pose0", "pose1", "ex", "landmark">>, drop |-> {1, 4}]
\* When the second newest frame leaves: the last prior alone.
SecondNewest == [blocks |-> <<"pose1", "pose0", "ex">>, drop |-> {2}]
SmallGraphs == {<<Prior, Imu, Projection>>, <<Imu, Projection>>, <<Prior, Projection, Projection>>,
                <<Prior, Imu>>, <<SecondNewest>>}
SmallSize == [pose0 |-> 7, speed0 |-> 9, pose1 |-> 7, speed1 |-> 9, ex |-> 7, landmark |-> 1]

\* Two documents, for a tree of two levels: with many descriptors and with few,
\* with descriptors that come twice, in one document or in both.
SmallTrainings ==
  {<<a, b>> : a \in {<<{1}, {2}>>, <<{}, {1, 2, 3}>>, <<{1}, {1}>>, <<{1, 3}, {2, 3}, {3}>>},
              b \in {<<{}>>, <<{1}, {2}, {1, 2}>>, <<{2}>>, <<{1}, {1, 2}, {2, 3}, {1, 2, 3}>>}}
SmallWeights == <<1, 0, 2>>
SmallNodes == <<1, 1, 2>>
SmallImages == {<<1, 3, 1>>, <<2, 3>>, <<1, 2>>}

Init ==
  /\ part \in {"sfm", "marginalization", "relocalization", "vocabulary", "database",
               "calibration", "costs"}
  /\ Sfm!Init /\ Margin!Init /\ Relo!ReloInit /\ Voc!VocInit /\ Db!DbInit
  /\ Cal!CalInit /\ Costs!CostInit

SfmStep == /\ part = "sfm" /\ Sfm!Next
           /\ UNCHANGED <<part, marginVars, reloVars, vocVars, dbVars, calVars, costVars>>
MarginStep == /\ part = "marginalization" /\ Margin!Next
              /\ UNCHANGED <<part, sfmVars, reloVars, vocVars, dbVars, calVars, costVars>>
ReloStep == /\ part = "relocalization" /\ Relo!ReloNext
            /\ UNCHANGED <<part, sfmVars, marginVars, vocVars, dbVars, calVars, costVars>>
VocStep == /\ part = "vocabulary" /\ Voc!VocNext
           /\ UNCHANGED <<part, sfmVars, marginVars, reloVars, dbVars, calVars, costVars>>
DbStep == /\ part = "database" /\ Db!DbNext
          /\ UNCHANGED <<part, sfmVars, marginVars, reloVars, vocVars, calVars, costVars>>
CalStep == /\ part = "calibration" /\ Cal!CalNext
           /\ UNCHANGED <<part, sfmVars, marginVars, reloVars, vocVars, dbVars, costVars>>
CostStep == /\ part = "costs" /\ Costs!CostNext
            /\ UNCHANGED <<part, sfmVars, marginVars, reloVars, vocVars, dbVars, calVars>>

Next == SfmStep \/ MarginStep \/ ReloStep \/ VocStep \/ DbStep \/ CalStep \/ CostStep
Spec == Init /\ [][Next]_<<part, sfmVars, marginVars, reloVars, vocVars, dbVars, calVars, costVars>>
-----------------------------------------------------------------------------
\* The properties of the two modules that Libraries leaves out.

\* A training descriptor finds the cluster it was put in (TemplatedVocabulary.h).
TrainingReachesItsCluster == Voc!TrainingReachesItsCluster
\* A vocabulary means the same when loaded or copied (TemplatedVocabulary.h).
MeaningSurvives == Voc!MeaningSurvives
\* A query answers with the scores of the stored vectors (TemplatedDatabase.h).
QueryIsScore == Db!QueryIsScore
=============================================================================
