------------------------- MODULE BenchmarkPublisher -------------------------
(* The node that publishes the ground truth beside the estimator's odometry: *)
(* the rows of a file are loaded, an index follows the stamps of the         *)
(* odometry, the first SKIP messages set the transform between the frames of *)
(* the file and of the estimator, and every later one publishes a row in it. *)
EXTENDS Integers, Sequences, SequencesExt, FiniteSetsExt

CONSTANTS
  SKIP,          \* messages that set the base (50)
  MaxRows,       \* bound: rows of the file after its header
  MaxMessages,   \* bound: odometry messages
  MaxSessions    \* bound: restarts of the estimator, which begin a new world frame

VARIABLES
  loaded,        \* main has read the file
  benchmark,     \* stamps of the rows, in units of half a row's period
  idx,
  init,          \* messages that have got past the first test, up to SKIP
  base,          \* baseRgt and baseTgt: the row and the frame they relate
  path,          \* history: rows published, their base, stamp and session of the odometry
  session,       \* the estimator's world frame
  stamp,         \* of its last odometry message
  followed,      \* history: stamps the index has followed
  messages       \* odometry messages so far

benchVars == <<loaded, benchmark, idx, init, base, path, session, stamp, followed, messages>>

NoBase == [row |-> 0, session |-> 0]

BenchInit ==
  /\ loaded = FALSE
  /\ benchmark = <<>>
  /\ idx = 1
  /\ init = 0
  /\ base = NoBase
  /\ path = <<>>
  /\ session = 1
  /\ stamp = 0
  /\ followed = {}
  /\ messages = 0

\* The rows main has pushed when the file ends: after a final newline one more,
\* which fscanf finds nothing for. pop_back takes the last of them.
Pushed(rows, newline) == IF newline THEN rows + 1 ELSE rows

LoadFile ==
  /\ ~loaded
  /\ loaded' = TRUE
  /\ \E rows \in 1..MaxRows, newline \in BOOLEAN :
       benchmark' = [i \in 1..(Pushed(rows, newline) - 1) |-> 2 * i]
  /\ UNCHANGED <<idx, init, base, path, session, stamp, followed, messages>>

\* The estimator starts anew, perhaps because its input jumped back.
Restarted ==
  /\ session < MaxSessions
  /\ session' = session + 1
  /\ stamp' \in 0..stamp
  /\ UNCHANGED <<loaded, benchmark, idx, init, base, path, followed, messages>>

\* Mutant: the row of the very stamp is not due yet.
InTimeStrictly(row, s) == row < s
InTime(row, s) == row <= s
\* The loop over idx: from where it stands, past every row that is due.
Advanced(s) ==
  LET later == {i \in idx..(Len(benchmark) - 1) : ~InTime(benchmark[i + 1], s)}
  IN  IF later = {} THEN Max({idx, Len(benchmark)}) ELSE Min(later)

\* The first test of odom_callback: the file has not ended. Of a file with no
\* row, or with one and no final newline, nothing is left, and benchmark.back()
\* is whatever stands before the vector.
NotEnded(s) == IF benchmark = <<>> THEN {TRUE, FALSE} ELSE {s <= Last(benchmark)}

\* odom_callback. With nothing left the row is the memory of the one popped.
OdomCallback ==
  /\ loaded
  /\ messages < MaxMessages
  /\ messages' = messages + 1
  /\ \E s \in stamp..(2 * MaxRows + 1) : \E on \in NotEnded(s) :
       /\ stamp' = s
       /\ IF ~on
            THEN UNCHANGED <<idx, init, base, path, followed>>
            ELSE /\ idx' = Advanced(s)
                 /\ followed' = followed \cup {s}
                 /\ IF init < SKIP
                      THEN /\ init' = init + 1
                           /\ base' = [row |-> idx', session |-> session]
                           /\ path' = path
                      ELSE /\ path' = Append(path, [row |-> idx', base |-> base, at |-> s, session |-> session])
                           /\ UNCHANGED <<init, base>>
  /\ UNCHANGED <<loaded, benchmark, session>>

BenchNext == LoadFile \/ Restarted \/ OdomCallback
BenchSpec == BenchInit /\ [][BenchNext]_benchVars
-----------------------------------------------------------------------------
\* The row of a time: the last one that is not after it, or the first.
RowOf(s) == Max({1} \cup {i \in DOMAIN benchmark : benchmark[i] <= s})

\* The index is at the row of the newest odometry it has followed, however far
\* back the stamps went at a restart of the estimator; until then the row that is
\* published is the one of its odometry's time. Index and base outlive the restart:
\* rows never go back and all have one base (benchmark_publisher_node.cpp:70-120).
RowOfItsTime ==
  /\ followed # {} => idx = RowOf(Max(followed))
  /\ \A i \in DOMAIN path :
       /\ path[i].row >= path[i].base.row
       /\ path[i].session = 1 => path[i].row = RowOf(path[i].at) /\ path[i].base.session = 1
       /\ i > 1 => path[i - 1].row <= path[i].row /\ path[i - 1].base = path[i].base
=============================================================================
