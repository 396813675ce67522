--------------------------- MODULE OuterNodesProofs ---------------------------
(***************************************************************************)
(* Theorems about the programs of MCOuterNodes: the benchmark publisher,   *)
(* for every number of rows and messages, the dataset runner, for every    *)
(* stream of odometry, and the AR demo, for every stream of images.        *)
(***************************************************************************)
EXTENDS MCOuterNodes, FiniteSetTheorems, SequenceTheorems, WellFoundedInduction, TLAPS

-----------------------------------------------------------------------------
(* The benchmark publisher: its inductive invariant *)

Base == [row : Nat, session : Nat]
Row  == [row : Nat, base : Base, at : Nat, session : Nat]

\* r is the row of time s: the last one that is not after it, or the first.
AtRow(r, s) ==
  /\ r = 1 \/ (r \in DOMAIN benchmark /\ benchmark[r] <= s)
  /\ \A j \in DOMAIN benchmark : benchmark[j] <= s => j <= r

BenchTypeInv ==
  /\ benchmark \in Seq(Nat) /\ followed \subseteq Nat /\ path \in Seq(Row)
  /\ idx \in Nat \ {0} /\ init \in 0..SKIP /\ base \in Base
  /\ session \in Nat \ {0} /\ stamp \in Nat

\* Nothing is followed before the file is read, whose rows are in order.
FileInv ==
  /\ \A i \in DOMAIN benchmark : benchmark[i] = 2 * i
  /\ loaded = FALSE => followed = {} /\ path = <<>>

\* The index is at the row of the newest time it has followed.
IndexInv ==
  /\ followed = {} => idx = 1
  /\ followed # {} => \E m \in followed : (\A f \in followed : f <= m) /\ AtRow(idx, m)
  /\ session = 1 => \A f \in followed : f <= stamp

\* Rows are published once the base is set, which then stays.
BaseInv ==
  /\ base.row <= idx
  /\ session = 1 /\ init > 0 => base.session = 1
  /\ path # <<>> => init = SKIP

PathInv ==
  \A i \in DOMAIN path :
    /\ path[i].base = base
    /\ base.row <= path[i].row /\ path[i].row <= idx
    /\ path[i].session = 1 => AtRow(path[i].row, path[i].at) /\ base.session = 1
    /\ i > 1 => path[i - 1].row <= path[i].row

BenchInv == BenchTypeInv /\ FileInv /\ IndexInv /\ BaseInv /\ PathInv

-----------------------------------------------------------------------------
(* The rows *)

\* The greatest element of a set of naturals is its maximum.
LEMMA GreatestIsMax ==
  ASSUME NEW S, S \subseteq Nat, NEW x \in S, \A y \in S : y <= x
  PROVE  Bench!Max(S) = x
<1> DEFINE P(c) == c \in S /\ \A y \in S : c >= y
<1>1. P(x)
  OBVIOUS
<1>2. \A c : P(c) => c = x
  <2> SUFFICES ASSUME NEW c \in S, c >= x
               PROVE  c = x
    OBVIOUS
  <2>1. c <= x /\ c \in Nat /\ x \in Nat
    OBVIOUS
  <2> QED
    BY <2>1
<1>3. Bench!Max(S) = CHOOSE c : P(c)
  BY DEF Bench!Max
<1> HIDE DEF P
<1> QED
  BY <1>1, <1>2, <1>3

\* A set of naturals that is not empty has a least element, its minimum.
LEMMA LeastIsMin ==
  ASSUME NEW S, S \subseteq Nat, S # {}
  PROVE  Bench!Min(S) \in S /\ \A y \in S : Bench!Min(S) <= y
<1> DEFINE R == OpToRel(<, Nat)
           P(c) == c \in S /\ \A y \in S : c <= y
<1>1. PICK x \in S : \A y \in S : ~ (<<y, x>> \in R)
  <2>1. IsWellFoundedOn(R, Nat)
    BY NatLessThanWellFounded
  <2> HIDE DEF R
  <2> QED
    BY <2>1, WFMin
<1>2. \A y \in S : ~ (y < x)
  <2> SUFFICES ASSUME NEW y \in S, y < x
               PROVE  FALSE
    OBVIOUS
  <2>1. <<y, x>> \in R
    BY DEF OpToRel
  <2> QED
    BY <1>1, <2>1
<1>3. P(x)
  BY <1>2
<1>4. Bench!Min(S) = CHOOSE c : P(c)
  BY DEF Bench!Min
<1>5. P(Bench!Min(S))
  <2> HIDE DEF P
  <2> QED
    BY <1>3, <1>4
<1> QED
  BY <1>5

\* AtRow says what RowOf computes.
LEMMA RowIsRowOf ==
  ASSUME benchmark \in Seq(Nat), NEW r \in Nat \ {0}, NEW s \in Nat, AtRow(r, s)
  PROVE  Bench!RowOf(s) = r
<1> DEFINE S == {1} \cup {i \in DOMAIN benchmark : benchmark[i] <= s}
<1>1. S \subseteq Nat
  OBVIOUS
<1>2. r \in S
  BY DEF AtRow
<1>3. \A y \in S : y <= r
  <2> SUFFICES ASSUME NEW y \in S
               PROVE  y <= r
    OBVIOUS
  <2>1. CASE y = 1
    BY <2>1
  <2>2. CASE y \in DOMAIN benchmark /\ benchmark[y] <= s
    BY <2>2 DEF AtRow
  <2> QED
    BY <2>1, <2>2
<1> HIDE DEF S
<1>4. Bench!Max(S) = r
  BY <1>1, <1>2, <1>3, GreatestIsMax
<1> QED
  BY <1>4 DEF S, Bench!RowOf

\* The loop of odom_callback: from the row of the newest time followed to the row of the
\* newest one when s has been followed too.
LEMMA AdvancedIsAtRow ==
  ASSUME BenchTypeInv, FileInv, IndexInv, NEW s \in Nat
  PROVE  /\ Bench!Advanced(s) \in Nat \ {0} /\ Bench!Advanced(s) >= idx
         /\ \E m \in followed \cup {s} :
              (\A f \in followed \cup {s} : f <= m) /\ AtRow(Bench!Advanced(s), m)
<1> DEFINE n == Len(benchmark)
           r == Bench!Advanced(s)
           later == {i \in idx..(n - 1) : ~ Bench!InTime(benchmark[i + 1], s)}
<1>1. /\ n \in Nat /\ DOMAIN benchmark = 1..n /\ idx \in Nat \ {0} /\ followed \subseteq Nat
      /\ \A i \in 1..n : benchmark[i] = 2 * i
  BY DEF BenchTypeInv, FileInv
<1>2. later = {i \in idx..(n - 1) : 2 * (i + 1) > s}
  <2>1. ASSUME NEW i \in idx..(n - 1)
        PROVE  ~ Bench!InTime(benchmark[i + 1], s) <=> 2 * (i + 1) > s
    <3>1. i + 1 \in 1..n /\ i \in Nat
      BY <1>1
    <3>2. benchmark[i + 1] = 2 * (i + 1)
      BY <1>1, <3>1
    <3> QED
      BY <3>1, <3>2 DEF Bench!InTime
  <2> QED
    BY <2>1
<1>3. r = IF later = {} THEN Bench!Max({idx, n}) ELSE Bench!Min(later)
  BY DEF Bench!Advanced
<1> HIDE DEF later, r, n
\* The row is not before the index, the rows up to it are due and the next one is not.
<1>4. /\ r \in Nat /\ r >= idx
      /\ r = idx \/ (r \in 1..n /\ 2 * r <= s)
      /\ \A j \in 1..n : 2 * j <= s => j <= r
  <2>1. CASE later = {}
    <3>1. \A i \in idx..(n - 1) : 2 * (i + 1) <= s
      <4> SUFFICES ASSUME NEW i \in idx..(n - 1)
                   PROVE  2 * (i + 1) <= s
        OBVIOUS
      <4>1. i \notin later
        BY <2>1
      <4>2. ~(2 * (i + 1) > s)
        BY <1>2, <4>1
      <4>3. i \in Nat
        BY <1>1
      <4> QED
        BY <4>2, <4>3
    <3>2. CASE n <= idx
      <4>1. Bench!Max({idx, n}) = idx
        <5>1. {idx, n} \subseteq Nat /\ \A y \in {idx, n} : y <= idx
          BY <1>1, <3>2
        <5> QED
          BY <5>1, GreatestIsMax
      <4>2. r = idx
        BY <1>3, <2>1, <4>1
      <4> QED
        BY <1>1, <3>2, <4>2
    <3>3. CASE n > idx
      <4>1. Bench!Max({idx, n}) = n
        <5>1. {idx, n} \subseteq Nat /\ \A y \in {idx, n} : y <= n
          BY <1>1, <3>3
        <5> QED
          BY <5>1, GreatestIsMax
      <4>2. n - 1 \in idx..(n - 1) /\ (n - 1) + 1 = n
        BY <1>1, <3>3
      <4>3. 2 * n <= s
        BY <3>1, <4>2
      <4>4. r = n
        BY <1>3, <2>1, <4>1
      <4> QED
        BY <1>1, <3>3, <4>3, <4>4
    <3> QED
      BY <1>1, <3>2, <3>3
  <2>2. CASE later # {}
    <3>1. later \subseteq Nat
      BY <1>1, <1>2
    <3>2. r \in later /\ \A y \in later : r <= y
      BY <1>3, <2>2, <3>1, LeastIsMin
    <3>3. r \in idx..(n - 1) /\ 2 * (r + 1) > s
      BY <1>2, <3>2
    <3>4. r = idx \/ (r \in 1..n /\ 2 * r <= s)
      <4>1. CASE r > idx
        <5>1. r - 1 \in idx..(n - 1) /\ (r - 1) + 1 = r /\ r \in 1..n
          BY <1>1, <3>3, <4>1
        <5>2. r - 1 \notin later
          BY <1>1, <3>1, <3>2, <5>1
        <5>3. ~(2 * ((r - 1) + 1) > s)
          BY <1>2, <5>1, <5>2
        <5> QED
          BY <1>1, <5>1, <5>3
      <4> QED
        BY <1>1, <3>3, <4>1
    <3>5. \A j \in 1..n : 2 * j <= s => j <= r
      BY <1>1, <3>3
    <3> QED
      BY <1>1, <3>3, <3>4, <3>5
  <2> QED
    BY <2>1, <2>2
<1>5. \A j \in 1..n : 2 * j <= s => j <= r
  BY <1>4
<1>6. CASE followed = {}
  <2>1. idx = 1
    BY <1>6 DEF IndexInv
  <2>2. AtRow(r, s)
    BY <1>1, <1>4, <2>1 DEF AtRow
  <2>3. \A f \in followed \cup {s} : f <= s
    BY <1>6
  <2> QED
    BY <1>1, <1>4, <2>2, <2>3 DEF r
<1>7. CASE followed # {}
  <2>1. PICK m \in followed : (\A f \in followed : f <= m) /\ AtRow(idx, m)
    BY <1>7 DEF IndexInv
  <2>2. m \in Nat
    BY <1>1, <2>1
  <2>3. /\ idx = 1 \/ (idx \in 1..n /\ 2 * idx <= m)
        /\ \A j \in 1..n : 2 * j <= m => j <= idx
    BY <1>1, <2>1 DEF AtRow
  <2>4. CASE m <= s
    <3>1. \A f \in followed \cup {s} : f <= s
      BY <1>1, <2>1, <2>2, <2>4
    <3>2. r = 1 \/ (r \in 1..n /\ 2 * r <= s)
      BY <1>1, <1>4, <2>2, <2>3, <2>4
    <3>3. AtRow(r, s)
      BY <1>1, <1>4, <3>2 DEF AtRow
    <3> QED
      BY <1>1, <1>4, <3>1, <3>3 DEF r
  <2>5. CASE s < m
    <3>1. \A f \in followed \cup {s} : f <= m
      BY <2>1, <2>2, <2>5
    <3>2. r = 1 \/ (r \in 1..n /\ 2 * r <= m)
      BY <1>1, <1>4, <2>2, <2>3, <2>5
    <3>3. \A j \in 1..n : 2 * j <= m => j <= r
      BY <1>1, <1>4, <2>3
    <3>4. AtRow(r, m)
      BY <1>1, <3>2, <3>3 DEF AtRow
    <3> QED
      BY <1>1, <1>4, <3>1, <3>4 DEF r
  <2> QED
    BY <2>2, <2>4, <2>5
<1> QED
  BY <1>6, <1>7

-----------------------------------------------------------------------------
(* The benchmark publisher: its steps *)

\* The publisher starts in the invariant.
LEMMA BenchInitially == Bench!BenchInit => BenchInv
<1> SUFFICES ASSUME Bench!BenchInit
             PROVE  BenchInv
  OBVIOUS
<1>1. /\ benchmark = <<>> /\ path = <<>> /\ followed = {} /\ idx = 1 /\ init = 0
      /\ base = [row |-> 0, session |-> 0] /\ session = 1 /\ stamp = 0
  BY DEF Bench!BenchInit, Bench!NoBase
<1>2. BenchTypeInv
  <2>1. <<>> \in Seq(Nat) /\ <<>> \in Seq(Row)
    OBVIOUS
  <2>2. 0 \in 0..SKIP
    BY SkipAssumption
  <2>3. [row |-> 0, session |-> 0] \in Base
    BY DEF Base
  <2> QED
    BY <1>1, <2>1, <2>2, <2>3 DEF BenchTypeInv
<1>3. FileInv /\ IndexInv /\ BaseInv /\ PathInv
  BY <1>1 DEF FileInv, IndexInv, BaseInv, PathInv
<1> QED
  BY <1>2, <1>3 DEF BenchInv

\* main has read the file.
LEMMA LoadFileStep ==
  ASSUME BenchInv, Bench!LoadFile
  PROVE  BenchInv'
<1>1. /\ BenchTypeInv /\ FileInv /\ IndexInv /\ BaseInv /\ PathInv
  BY DEF BenchInv
<1>2. PICK rows \in 1..MaxRows, newline \in BOOLEAN :
        benchmark' = [i \in 1..(Bench!Pushed(rows, newline) - 1) |-> 2 * i]
  BY DEF Bench!LoadFile
<1>3. PICK n \in Nat : benchmark' = [i \in 1..n |-> 2 * i]
  <2>1. Bench!Pushed(rows, newline) - 1 \in Nat
    BY <1>2, SkipAssumption DEF Bench!Pushed
  <2> QED
    BY <1>2, <2>1
<1>4. /\ loaded = FALSE /\ loaded' = TRUE
      /\ UNCHANGED <<idx, init, base, path, session, stamp, followed, messages>>
  <2>1. ~loaded /\ loaded' = TRUE
        /\ UNCHANGED <<idx, init, base, path, session, stamp, followed, messages>>
    BY DEF Bench!LoadFile
  <2> QED
    BY <1>1, <2>1 DEF BenchTypeInv
<1>5. benchmark' \in Seq(Nat) /\ \A i \in DOMAIN benchmark' : benchmark'[i] = 2 * i
  <2>1. benchmark' \in [1..n -> Nat]
    BY <1>3
  <2> QED
    BY <1>3, <2>1
<1>6. BenchTypeInv' /\ FileInv'
  BY <1>1, <1>4, <1>5 DEF BenchTypeInv, FileInv
<1>7. followed = {} /\ path = <<>>
  BY <1>1, <1>4 DEF FileInv
<1>8. IndexInv' /\ BaseInv' /\ PathInv'
  BY <1>1, <1>4, <1>7 DEF IndexInv, BaseInv, PathInv
<1> QED
  BY <1>6, <1>8 DEF BenchInv

\* The estimator starts anew, its stamps may go back.
LEMMA RestartedStep ==
  ASSUME BenchInv, Bench!Restarted
  PROVE  BenchInv'
<1>1. /\ BenchTypeInv /\ FileInv /\ IndexInv /\ BaseInv /\ PathInv
  BY DEF BenchInv
<1>2. /\ session' = session + 1 /\ stamp' \in 0..stamp
      /\ UNCHANGED <<loaded, benchmark, idx, init, base, path, followed, messages>>
  BY DEF Bench!Restarted
<1>3. session' \in Nat \ {0} /\ session' # 1 /\ stamp' \in Nat
  BY <1>1, <1>2 DEF BenchTypeInv
<1>4. BenchTypeInv' /\ FileInv'
  BY <1>1, <1>2, <1>3 DEF BenchTypeInv, FileInv
<1>5. IndexInv' /\ BaseInv'
  BY <1>1, <1>2, <1>3 DEF IndexInv, BaseInv, AtRow
<1>6. PathInv'
  BY <1>1, <1>2 DEF PathInv, AtRow
<1> QED
  BY <1>4, <1>5, <1>6 DEF BenchInv

\* odom_callback.
LEMMA OdomCallbackStep ==
  ASSUME BenchInv, Bench!OdomCallback
  PROVE  BenchInv'
<1>1. /\ BenchTypeInv /\ FileInv /\ IndexInv /\ BaseInv /\ PathInv
  BY DEF BenchInv
<1>2. PICK s \in stamp..(2 * MaxRows + 1) : \E on \in Bench!NotEnded(s) :
        /\ stamp' = s
        /\ IF ~on
             THEN UNCHANGED <<idx, init, base, path, followed>>
             ELSE /\ idx' = Bench!Advanced(s)
                  /\ followed' = followed \cup {s}
                  /\ IF init < SKIP
                       THEN /\ init' = init + 1
                            /\ base' = [row |-> idx', session |-> session]
                            /\ path' = path
                       ELSE /\ path' = Append(path, [row |-> idx', base |-> base, at |-> s, session |-> session])
                            /\ UNCHANGED <<init, base>>
  BY DEF Bench!OdomCallback
<1>3. loaded /\ UNCHANGED <<benchmark, loaded, session>>
  BY DEF Bench!OdomCallback
<1>4. /\ s \in Nat /\ s >= stamp /\ stamp \in Nat /\ idx \in Nat \ {0} /\ init \in 0..SKIP
      /\ base \in Base /\ session \in Nat \ {0} /\ path \in Seq(Row) /\ followed \subseteq Nat
  BY <1>1, <1>2, SkipAssumption DEF BenchTypeInv
<1>5. CASE UNCHANGED <<idx, init, base, path, followed>>
  <2>1. UNCHANGED <<idx, init, base, path, followed>>
    BY <1>5
  <2>2. BenchTypeInv' /\ FileInv'
    BY <1>1, <1>2, <1>3, <1>4, <2>1 DEF BenchTypeInv, FileInv
  <2>3. \A f \in followed : f <= stamp => f <= s
    BY <1>4
  <2>4. IndexInv' /\ BaseInv'
    BY <1>1, <1>2, <1>3, <2>1, <2>3 DEF IndexInv, BaseInv, AtRow
  <2>5. PathInv'
    BY <1>1, <1>3, <2>1 DEF PathInv, AtRow
  <2> QED
    BY <2>2, <2>4, <2>5 DEF BenchInv
<1>6. CASE /\ idx' = Bench!Advanced(s)
           /\ followed' = followed \cup {s}
           /\ IF init < SKIP
                THEN /\ init' = init + 1
                     /\ base' = [row |-> idx', session |-> session]
                     /\ path' = path
                ELSE /\ path' = Append(path, [row |-> idx', base |-> base, at |-> s, session |-> session])
                     /\ UNCHANGED <<init, base>>
  <2>1. idx' = Bench!Advanced(s) /\ followed' = followed \cup {s}
    BY <1>6
  <2>2. /\ idx' \in Nat \ {0} /\ idx' >= idx
        /\ \E m \in followed \cup {s} : (\A f \in followed \cup {s} : f <= m) /\ AtRow(idx', m)
    BY <1>1, <1>4, <2>1, AdvancedIsAtRow
  <2>3. session = 1 => \A f \in followed \cup {s} : f <= s
    <3> SUFFICES ASSUME session = 1, NEW f \in followed \cup {s}
                 PROVE  f <= s
      OBVIOUS
    <3>1. CASE f \in followed
      <4>1. f <= stamp /\ f \in Nat
        BY <1>1, <1>4, <3>1 DEF IndexInv
      <4> QED
        BY <1>4, <4>1
    <3>2. CASE f = s
      BY <1>4, <3>2
    <3> QED
      BY <3>1, <3>2
  \* Until a restart the newest time is that of the message.
  <2>4. session = 1 => AtRow(idx', s)
    <3> HAVE session = 1
    <3>1. PICK m \in followed \cup {s} : (\A f \in followed \cup {s} : f <= m) /\ AtRow(idx', m)
      BY <2>2
    <3>2. m <= s /\ s <= m /\ m \in Nat
      BY <1>4, <2>3, <3>1
    <3>3. m = s
      BY <1>4, <3>2
    <3> QED
      BY <3>1, <3>3
  <2>5. IndexInv'
    <3>1. followed' # {} /\ session' = session /\ stamp' = s
      BY <1>2, <1>3, <2>1
    <3>2. PICK m \in followed' : (\A f \in followed' : f <= m) /\ AtRow(idx', m)
      BY <2>1, <2>2
    <3>3. AtRow(idx, m)'
      BY <1>3, <3>2 DEF AtRow
    <3>4. \E e \in followed' : (\A f \in followed' : f <= e) /\ AtRow(idx, e)'
      BY <3>2, <3>3
    <3>5. session' = 1 => \A f \in followed' : f <= stamp'
      BY <2>1, <2>3, <3>1
    <3> QED
      BY <3>1, <3>4, <3>5 DEF IndexInv, AtRow
  <2>6. loaded # FALSE /\ loaded' # FALSE
    BY <1>3
  <2>7. FileInv'
    BY <1>1, <1>3, <2>6 DEF FileInv
  <2>8. followed' \subseteq Nat /\ stamp' \in Nat
    BY <1>2, <1>4, <2>1
  <2>9. CASE init < SKIP
    <3>1. init' = init + 1 /\ base' = [row |-> idx', session |-> session] /\ path' = path
      BY <1>6, <2>9
    <3>2. path = <<>> /\ init' \in 0..SKIP
      BY <1>1, <1>4, <2>9, <3>1, SkipAssumption DEF BaseInv
    <3>3. base' \in Base
      BY <1>4, <2>2, <3>1 DEF Base
    <3>4. BenchTypeInv'
      BY <1>1, <1>3, <1>4, <2>2, <2>8, <3>1, <3>2, <3>3 DEF BenchTypeInv
    <3>5. BaseInv'
      <4>1. idx' <= idx'
        BY <2>2
      <4> QED
        BY <1>3, <3>1, <3>2, <4>1 DEF BaseInv
    <3>6. PathInv'
      BY <3>1, <3>2 DEF PathInv
    <3> QED
      BY <2>5, <2>7, <3>4, <3>5, <3>6 DEF BenchInv
  <2>10. CASE ~(init < SKIP)
    <3> DEFINE row == [row |-> idx', base |-> base, at |-> s, session |-> session]
               n == Len(path)
    <3>1. path' = Append(path, row) /\ init' = init /\ base' = base
      BY <1>6, <2>10
    <3>2. init = SKIP /\ init > 0
      BY <1>4, <2>10, SkipAssumption
    <3>3. row \in Row
      BY <1>4, <2>2 DEF Row
    <3>4. /\ n \in Nat /\ DOMAIN path = 1..n
          /\ path' \in Seq(Row) /\ DOMAIN path' = 1..(n + 1)
          /\ \A i \in 1..n : path'[i] = path[i]
          /\ path'[n + 1] = row
      BY <1>4, <3>1, <3>3, AppendProperties
    <3> HIDE DEF n
    <3>5. BenchTypeInv'
      BY <1>1, <1>3, <2>2, <2>8, <3>1, <3>4 DEF BenchTypeInv
    <3>6. base.row \in Nat /\ base.row <= idx
      BY <1>1, <1>4 DEF BaseInv, Base
    <3>7. base.row <= idx'
      BY <1>4, <2>2, <3>6
    <3>8. BaseInv'
      BY <1>1, <1>3, <3>1, <3>2, <3>7 DEF BaseInv
    <3>9. \A i \in 1..n : path[i].row \in Nat
      <4>1. \A i \in 1..n : path[i] \in Row
        BY <1>4, <3>4
      <4> QED
        BY <4>1 DEF Row
    <3>10. ASSUME NEW i \in 1..(n + 1)
           PROVE  /\ path'[i].base = base
                  /\ base.row <= path'[i].row /\ path'[i].row <= idx'
                  /\ path'[i].session = 1 => AtRow(path'[i].row, path'[i].at) /\ base.session = 1
                  /\ i > 1 => path'[i - 1].row <= path'[i].row
      <4>1. CASE i \in 1..n
        <5>1. /\ path[i].base = base
              /\ base.row <= path[i].row /\ path[i].row <= idx
              /\ path[i].session = 1 => AtRow(path[i].row, path[i].at) /\ base.session = 1
              /\ i > 1 => path[i - 1].row <= path[i].row
          BY <1>1, <3>4, <4>1 DEF PathInv
        <5>2. path[i].row <= idx'
          BY <1>4, <2>2, <3>9, <4>1, <5>1
        <5>3. path'[i] = path[i] /\ (i > 1 => path'[i - 1] = path[i - 1])
          BY <3>4, <4>1
        <5> QED
          BY <5>1, <5>2, <5>3
      <4>2. CASE i = n + 1
        <5>1. path'[i] = row /\ row.row = idx' /\ row.base = base /\ row.at = s /\ row.session = session
          BY <3>4, <4>2
        <5>2. session = 1 => AtRow(idx', s) /\ base.session = 1
          BY <1>1, <2>4, <3>2 DEF BaseInv
        <5>3. i > 1 => path'[i - 1].row <= idx'
          <6> HAVE i > 1
          <6>1. i - 1 \in 1..n /\ path'[i - 1] = path[i - 1]
            BY <3>4, <4>2
          <6>2. path[i - 1].row <= idx /\ path[i - 1].row \in Nat
            BY <1>1, <3>4, <3>9, <6>1 DEF PathInv
          <6> QED
            BY <1>4, <2>2, <6>1, <6>2
        <5>4. idx' <= idx'
          BY <2>2
        <5> QED
          BY <3>7, <5>1, <5>2, <5>3, <5>4
      <4> QED
        BY <3>4, <4>1, <4>2
    <3>11. PathInv'
      BY <1>3, <3>1, <3>4, <3>10 DEF PathInv, AtRow
    <3> QED
      BY <2>5, <2>7, <3>5, <3>8, <3>11 DEF BenchInv
  <2> QED
    BY <2>9, <2>10
<1> QED
  BY <1>2, <1>5, <1>6

\* Every step of the publisher keeps the invariant.
LEMMA BenchStepwise == BenchInv /\ [Bench!BenchNext]_benchVars => BenchInv'
<1> SUFFICES ASSUME BenchInv, [Bench!BenchNext]_benchVars
             PROVE  BenchInv'
  OBVIOUS
<1>1. CASE Bench!LoadFile
  BY <1>1, LoadFileStep
<1>2. CASE Bench!Restarted
  BY <1>2, RestartedStep
<1>3. CASE Bench!OdomCallback
  BY <1>3, OdomCallbackStep
<1>4. CASE UNCHANGED benchVars
  BY <1>4 DEF benchVars, BenchInv, BenchTypeInv, FileInv, IndexInv, BaseInv, PathInv, AtRow
<1> QED
  BY <1>1, <1>2, <1>3, <1>4 DEF Bench!BenchNext

\* What the publisher shows is right in every state of the invariant.
LEMMA BenchShows == BenchInv => RowOfItsTime
<1> SUFFICES ASSUME BenchInv
             PROVE  RowOfItsTime
  OBVIOUS
<1>1. /\ BenchTypeInv /\ FileInv /\ IndexInv /\ BaseInv /\ PathInv
  BY DEF BenchInv
<1>2. /\ benchmark \in Seq(Nat) /\ followed \subseteq Nat /\ idx \in Nat \ {0} /\ path \in Seq(Row)
      /\ base \in Base
  BY <1>1 DEF BenchTypeInv
<1>3. followed # {} => idx = Bench!RowOf(Bench!Max(followed))
  <2> HAVE followed # {}
  <2>1. PICK m \in followed : (\A f \in followed : f <= m) /\ AtRow(idx, m)
    BY <1>1 DEF IndexInv
  <2>2. Bench!Max(followed) = m
    BY <1>2, <2>1, GreatestIsMax
  <2> QED
    BY <1>2, <2>1, <2>2, RowIsRowOf
<1>4. ASSUME NEW i \in DOMAIN path
      PROVE  /\ path[i].row >= path[i].base.row
             /\ path[i].session = 1 => path[i].row = Bench!RowOf(path[i].at) /\ path[i].base.session = 1
             /\ i > 1 => path[i - 1].row <= path[i].row /\ path[i - 1].base = path[i].base
  <2>1. path[i].base = base /\ base.row <= path[i].row
        /\ (path[i].session = 1 => AtRow(path[i].row, path[i].at) /\ base.session = 1)
        /\ (i > 1 => path[i - 1].row <= path[i].row)
    BY <1>1 DEF PathInv
  <2>2. path[i].row \in Nat /\ path[i].at \in Nat
    <3>1. path[i] \in Row
      BY <1>2
    <3> QED
      BY <3>1 DEF Row
  <2>3. path[i].session = 1 => path[i].row = Bench!RowOf(path[i].at)
    <3> HAVE path[i].session = 1
    <3>1. AtRow(path[i].row, path[i].at)
      BY <2>1
    <3>2. path[i].row \in Nat \ {0}
      <4>1. path[i].row = 1 \/ path[i].row \in 1..Len(benchmark)
        BY <1>2, <3>1 DEF AtRow
      <4> QED
        BY <2>2, <4>1
    <3> QED
      BY <1>2, <2>2, <3>1, <3>2, RowIsRowOf
  <2>4. base.row \in Nat
    BY <1>2 DEF Base
  <2>5. path[i].row >= path[i].base.row
    BY <2>1, <2>2, <2>4
  <2>6. i > 1 => path[i - 1].base = base
    <3> HAVE i > 1
    <3>1. i - 1 \in DOMAIN path
      BY <1>2
    <3> QED
      BY <1>1, <3>1 DEF PathInv
  <2> QED
    BY <2>1, <2>3, <2>5, <2>6
<1> QED
  BY <1>3, <1>4 DEF RowOfItsTime, Bench!RowOfItsTime

-----------------------------------------------------------------------------
(* The dataset runner: its inductive invariant *)

Odometry == [stamp : 1..2, finite : BOOLEAN]
Heard == [camera : BOOLEAN, imu : BOOLEAN, odometry : Seq(Odometry)]
Counters == [camera : {0, 1}, imu : {0, 1}, odometry : Nat,
             monotonic : BOOLEAN, finite : BOOLEAN, previous : 0..2]

RunTypeInv ==
  /\ process \in [Run!Processes -> {"none", "running", "ended"}]
  /\ nodes \subseteq Run!Nodes /\ alive \in BOOLEAN
  /\ heard \in Heard /\ monitor \in Counters

\* The monitor's counters say of what it has heard no more than is true.
HeardInv ==
  /\ monitor.camera = 1 => heard.camera
  /\ monitor.imu = 1 => heard.imu
  /\ monitor.odometry = Len(heard.odometry)
  /\ monitor.finite => \A i \in DOMAIN heard.odometry : heard.odometry[i].finite
  /\ monitor.monotonic =>
       /\ \A i \in DOMAIN heard.odometry : heard.odometry[i].stamp <= monitor.previous
       /\ \A i, j \in DOMAIN heard.odometry :
            i < j => heard.odometry[i].stamp <= heard.odometry[j].stamp

Starting == {"prepare", "manifest", "launch", "wait", "ready"}
\* A process is started once; what the monitor wrote when it ended is all it counted.
ProcessInv ==
  /\ runPc \in Starting => process["monitor"] = "none"
  /\ runPc \in Starting \cup {"monitor"} => process["playback"] = "none"
  /\ output # Run!NoOutput => output = monitor /\ process["monitor"] = "ended"

\* No node has died when both are still there, and none has before the bag ended once they
\* have been listed at its end.
AliveInv ==
  /\ runPc \in {"monitor", "play", "nodes", "final"} /\ nodes = Run!Nodes => alive
  /\ runPc = "final" /\ call = "answered" /\ listed = Run!Nodes => alive
  /\ runPc \in {"nodes", "final", "stopMonitor", "accept", "return"} => process["playback"] = "ended"
  /\ runPc \in {"stopMonitor", "accept", "return"} => alive
  /\ status = "PASS" => process["playback"] = "ended" /\ alive

Finally == {"cleanPlayback", "cleanMonitor", "cleanLaunch", "write", "ended"}

\* What a run has passed on, and what it leaves.
StatusInv ==
  /\ status = "PASS" => output # Run!NoOutput /\ Run!Accepts(output)
  /\ runPc = "return" => status = "PASS"
  /\ exit = 0 => status = "PASS" /\ runPc \in Finally
  /\ runPc # "ended" => resultFile = [of |-> "earlier", status |-> Earlier]
  /\ runPc = "ended" => \/ resultFile = [of |-> "earlier", status |-> Earlier] /\ exit # 0
                        \/ resultFile = [of |-> "this", status |-> status]

RunInv == RunTypeInv /\ HeardInv /\ ProcessInv /\ AliveInv /\ StatusInv

-----------------------------------------------------------------------------
(* The dataset runner: its steps *)

\* The runner starts in the invariant.
LEMMA RunInitially == Run!RunInit => RunInv
<1> SUFFICES ASSUME Run!RunInit
             PROVE  RunInv
  OBVIOUS
<1>1. RunTypeInv
  <2>1. <<>> \in Seq(Odometry)
    OBVIOUS
  <2>2. Run!NoneHeard \in Heard
    BY <2>1 DEF Run!NoneHeard, Heard
  <2>3. Run!NothingCounted \in Counters
    BY DEF Run!NothingCounted, Counters
  <2>4. [p \in Run!Processes |-> "none"] \in [Run!Processes -> {"none", "running", "ended"}]
    OBVIOUS
  <2> QED
    BY <2>2, <2>3, <2>4 DEF RunTypeInv, Run!RunInit
<1>2. HeardInv /\ AliveInv /\ StatusInv
  BY DEF HeardInv, AliveInv, StatusInv, Run!RunInit, Run!NoneHeard, Run!NothingCounted
<1>3. ProcessInv
  BY DEF ProcessInv, Starting, Run!RunInit, Run!Processes
<1> QED
  BY <1>1, <1>2, <1>3 DEF RunInv

\* Images, samples and odometry reach the monitor.
LEMMA ReceivedStep ==
  ASSUME RunInv, Run!Received
  PROVE  RunInv'
<1>1. RunTypeInv /\ HeardInv /\ ProcessInv /\ AliveInv /\ StatusInv
  BY DEF RunInv
<1>2. /\ process["monitor"] = "running"
      /\ UNCHANGED <<runPc, status, resultFile, exit, call, listed, process, nodes, output, alive>>
  BY DEF Run!Received, Run!Running, Run!runnerVars
<1>3. heard \in Heard /\ monitor \in Counters
  BY <1>1 DEF RunTypeInv
<1>4. ASSUME heard' = [heard EXCEPT !.camera = TRUE],
             monitor' = [monitor EXCEPT !.camera = 1]
      PROVE  RunTypeInv' /\ HeardInv'
  <2>1. /\ heard' \in Heard /\ heard'.camera /\ heard'.imu = heard.imu
        /\ heard'.odometry = heard.odometry
    BY <1>3, <1>4 DEF Heard
  <2>2. /\ monitor' \in Counters /\ monitor'.imu = monitor.imu
        /\ monitor'.odometry = monitor.odometry /\ monitor'.monotonic = monitor.monotonic
        /\ monitor'.finite = monitor.finite /\ monitor'.previous = monitor.previous
    BY <1>3, <1>4 DEF Counters
  <2>3. RunTypeInv'
    BY <1>1, <1>2, <2>1, <2>2 DEF RunTypeInv
  <2>4. monitor'.imu = 1 => heard'.imu
    BY <1>1, <2>1, <2>2 DEF HeardInv
  <2>5. monitor'.odometry = Len(heard'.odometry)
    BY <1>1, <2>1, <2>2 DEF HeardInv
  <2>6. monitor'.finite => \A i \in DOMAIN heard'.odometry : heard'.odometry[i].finite
    BY <1>1, <2>1, <2>2 DEF HeardInv
  <2>7. monitor'.monotonic =>
          /\ \A i \in DOMAIN heard'.odometry : heard'.odometry[i].stamp <= monitor'.previous
          /\ \A i, j \in DOMAIN heard'.odometry :
               i < j => heard'.odometry[i].stamp <= heard'.odometry[j].stamp
    BY <1>1, <2>1, <2>2 DEF HeardInv
  <2> QED
    BY <2>1, <2>3, <2>4, <2>5, <2>6, <2>7 DEF HeardInv
<1>5. ASSUME heard' = [heard EXCEPT !.imu = TRUE],
             monitor' = [monitor EXCEPT !.imu = 1]
      PROVE  RunTypeInv' /\ HeardInv'
  <2>1. /\ heard' \in Heard /\ heard'.imu /\ heard'.camera = heard.camera
        /\ heard'.odometry = heard.odometry
    BY <1>3, <1>5 DEF Heard
  <2>2. /\ monitor' \in Counters /\ monitor'.camera = monitor.camera
        /\ monitor'.odometry = monitor.odometry /\ monitor'.monotonic = monitor.monotonic
        /\ monitor'.finite = monitor.finite /\ monitor'.previous = monitor.previous
    BY <1>3, <1>5 DEF Counters
  <2>3. RunTypeInv'
    BY <1>1, <1>2, <2>1, <2>2 DEF RunTypeInv
  <2>4. monitor'.camera = 1 => heard'.camera
    BY <1>1, <2>1, <2>2 DEF HeardInv
  <2>5. monitor'.odometry = Len(heard'.odometry)
    BY <1>1, <2>1, <2>2 DEF HeardInv
  <2>6. monitor'.finite => \A i \in DOMAIN heard'.odometry : heard'.odometry[i].finite
    BY <1>1, <2>1, <2>2 DEF HeardInv
  <2>7. monitor'.monotonic =>
          /\ \A i \in DOMAIN heard'.odometry : heard'.odometry[i].stamp <= monitor'.previous
          /\ \A i, j \in DOMAIN heard'.odometry :
               i < j => heard'.odometry[i].stamp <= heard'.odometry[j].stamp
    BY <1>1, <2>1, <2>2 DEF HeardInv
  <2> QED
    BY <2>1, <2>3, <2>4, <2>5, <2>6, <2>7 DEF HeardInv
<1>6. ASSUME NEW s \in 1..2, NEW f \in BOOLEAN,
             heard' = [heard EXCEPT !.odometry = Append(@, [stamp |-> s, finite |-> f])],
             monitor' = [monitor EXCEPT !.odometry = @ + 1,
                           !.monotonic = @ /\ ~(s < monitor.previous),
                           !.previous = s,
                           !.finite = @ /\ f]
      PROVE  RunTypeInv' /\ HeardInv'
  <2>1. /\ heard'.camera = heard.camera /\ heard'.imu = heard.imu
        /\ heard'.odometry = Append(heard.odometry, [stamp |-> s, finite |-> f])
        /\ heard' \in Heard
    <3>1. [stamp |-> s, finite |-> f] \in Odometry
      BY <1>6 DEF Odometry
    <3>2. PICK o \in Odometry : o = [stamp |-> s, finite |-> f]
      BY <3>1
    <3>3. Append(heard.odometry, o) \in Seq(Odometry)
      BY <1>3, <3>2 DEF Heard
    <3>4. heard' = [heard EXCEPT !.odometry = Append(heard.odometry, o)]
      BY <1>6, <3>2
    <3> QED
      BY <1>3, <3>2, <3>3, <3>4 DEF Heard
  <2>2. /\ monitor'.camera = monitor.camera /\ monitor'.imu = monitor.imu
        /\ monitor'.odometry = monitor.odometry + 1
        /\ monitor'.monotonic = (monitor.monotonic /\ ~(s < monitor.previous))
        /\ monitor'.finite = (monitor.finite /\ f)
        /\ monitor'.previous = s
        /\ monitor' \in Counters
    <3>1. PICK m \in Counters : m = monitor
      BY <1>3
    <3>2. PICK n : n = monitor'
      OBVIOUS
    <3>3. n = [m EXCEPT !.odometry = @ + 1, !.monotonic = @ /\ ~(s < m.previous),
                        !.previous = s, !.finite = @ /\ f]
      BY <1>6, <3>1, <3>2
    <3>4. /\ n.camera = m.camera /\ n.imu = m.imu /\ n.odometry = m.odometry + 1
          /\ n.monotonic = (m.monotonic /\ ~(s < m.previous))
          /\ n.finite = (m.finite /\ f) /\ n.previous = s
      BY <3>3 DEF Counters
    <3>5. PICK mono \in BOOLEAN : mono = (m.monotonic /\ ~(s < m.previous))
      OBVIOUS
    <3>6. PICK finite \in BOOLEAN : finite = (m.finite /\ f)
      OBVIOUS
    <3>7. n = [camera |-> m.camera, imu |-> m.imu, odometry |-> m.odometry + 1,
               monotonic |-> mono, finite |-> finite, previous |-> s]
      BY <3>3, <3>5, <3>6 DEF Counters
    <3>8. m.camera \in {0, 1} /\ m.imu \in {0, 1} /\ m.odometry + 1 \in Nat /\ s \in 0..2
      BY <1>6 DEF Counters
    <3>9. n \in Counters
      BY <3>7, <3>8 DEF Counters
    <3> QED
      BY <3>1, <3>2, <3>4, <3>9
  <2>3. RunTypeInv'
    BY <1>1, <1>2, <2>1, <2>2 DEF RunTypeInv
  <2>4. PICK h \in Seq(Odometry) : h = heard.odometry
    BY <1>3 DEF Heard
  <2>5. PICK m \in 0..2 : m = monitor.previous
    BY <1>3 DEF Counters
  <2>6. PICK k \in Seq(Odometry) : k = heard'.odometry /\ k = Append(h, [stamp |-> s, finite |-> f])
    BY <2>1, <2>4 DEF Heard
  <2>7. /\ Len(k) = Len(h) + 1 /\ DOMAIN k = 1..(Len(h) + 1) /\ DOMAIN h = 1..Len(h)
        /\ \A i \in 1..Len(h) : k[i] = h[i] /\ h[i].stamp \in 1..2
        /\ k[Len(h) + 1].stamp = s /\ k[Len(h) + 1].finite = f
        /\ Len(h) \in Nat
    <3>1. \A i \in 1..Len(h) : h[i] \in Odometry
      OBVIOUS
    <3>2. \A i \in 1..Len(h) : h[i].stamp \in 1..2
      BY <3>1 DEF Odometry
    <3>3. PICK o : o = [stamp |-> s, finite |-> f]
      OBVIOUS
    <3>4. k = Append(h, o)
      BY <2>6, <3>3
    <3>5. /\ Len(k) = Len(h) + 1 /\ DOMAIN k = 1..(Len(h) + 1) /\ DOMAIN h = 1..Len(h)
          /\ \A i \in 1..Len(h) : k[i] = h[i]
          /\ k[Len(h) + 1] = o /\ Len(h) \in Nat
      BY <3>4
    <3> QED
      BY <3>2, <3>3, <3>5
  <2>8. monitor'.odometry = Len(heard'.odometry)
    BY <1>1, <2>2, <2>4, <2>6, <2>7 DEF HeardInv
  <2>9. ASSUME monitor'.finite
        PROVE  \A i \in DOMAIN k : k[i].finite
    <3>1. f /\ \A i \in DOMAIN h : h[i].finite
      BY <1>1, <2>2, <2>4, <2>9 DEF HeardInv
    <3>2. ASSUME NEW i \in DOMAIN k PROVE k[i].finite
      <4>1. CASE i = Len(h) + 1
        BY <3>1, <4>1, <2>7
      <4>2. CASE i \in 1..Len(h)
        BY <3>1, <4>2, <2>7
      <4> QED
        BY <4>1, <4>2, <2>7
    <3> QED
      BY <3>2
  <2>10. ASSUME monitor'.monotonic
         PROVE  /\ \A i \in DOMAIN k : k[i].stamp <= s
                /\ \A i, j \in DOMAIN k : i < j => k[i].stamp <= k[j].stamp
    <3>1. /\ m <= s
          /\ \A i \in 1..Len(h) : h[i].stamp <= m
          /\ \A i, j \in 1..Len(h) : i < j => h[i].stamp <= h[j].stamp
      <4>1. monitor.monotonic /\ ~(s < m)
        BY <2>2, <2>5, <2>10
      <4>2. m <= s
        BY <4>1, <1>6, <2>5
      <4> QED
        BY <1>1, <4>1, <4>2, <2>4, <2>5, <2>7 DEF HeardInv
    <3>2. \A i \in DOMAIN k : k[i].stamp <= s
      BY <3>1, <1>6, <2>5, <2>7
    <3>3. ASSUME NEW i \in DOMAIN k, NEW j \in DOMAIN k, i < j
          PROVE  k[i].stamp <= k[j].stamp
      <4>1. CASE j = Len(h) + 1
        BY <3>2, <4>1, <2>7
      <4>2. CASE j \in 1..Len(h)
        BY <3>1, <3>3, <4>2, <2>7
      <4> QED
        BY <4>1, <4>2, <2>7
    <3> QED
      BY <3>2, <3>3
  <2>11. HeardInv'
    BY <1>1, <2>1, <2>2, <2>6, <2>8, <2>9, <2>10 DEF HeardInv
  <2> QED
    BY <2>3, <2>11
<1>7. RunTypeInv' /\ HeardInv'
  <2>1. \/ /\ heard' = [heard EXCEPT !.camera = TRUE]
           /\ monitor' = [monitor EXCEPT !.camera = 1]
        \/ /\ heard' = [heard EXCEPT !.imu = TRUE]
           /\ monitor' = [monitor EXCEPT !.imu = 1]
        \/ \E s \in 1..2, f \in BOOLEAN :
             /\ heard' = [heard EXCEPT !.odometry = Append(@, [stamp |-> s, finite |-> f])]
             /\ monitor' = [monitor EXCEPT !.odometry = @ + 1,
                              !.monotonic = @ /\ ~(s < monitor.previous),
                              !.previous = s,
                              !.finite = @ /\ f]
    BY Zenon DEF Run!Received
  <2>2. CASE \E s \in 1..2, f \in BOOLEAN :
               /\ heard' = [heard EXCEPT !.odometry = Append(@, [stamp |-> s, finite |-> f])]
               /\ monitor' = [monitor EXCEPT !.odometry = @ + 1,
                                !.monotonic = @ /\ ~(s < monitor.previous),
                                !.previous = s,
                                !.finite = @ /\ f]
    BY <1>6, <2>2
  <2> QED
    BY <1>4, <1>5, <2>1, <2>2, Zenon
<1>8. ProcessInv'
  BY <1>1, <1>2 DEF ProcessInv
<1>9. AliveInv' /\ StatusInv'
  BY <1>1, <1>2 DEF AliveInv, StatusInv, Run!Accepts
<1> QED
  BY <1>7, <1>8, <1>9 DEF RunInv

\* The nodes start after the launch.
LEMMA NodeReadyStep ==
  ASSUME RunInv, NEW n \in Run!Nodes, Run!NodeReady(n)
  PROVE  RunInv'
BY DEF RunInv, Run!NodeReady, Run!runnerVars, RunTypeInv, HeardInv, ProcessInv, AliveInv, StatusInv, Run!Accepts

\* A node dies.
LEMMA NodeDiesStep ==
  ASSUME RunInv, NEW n \in Run!Nodes, Run!NodeDies(n)
  PROVE  RunInv'
BY DEF RunInv, Run!NodeDies, Run!Ended, Run!runnerVars, RunTypeInv, HeardInv, ProcessInv, AliveInv, StatusInv,
       Run!Accepts

\* A process ends, of itself or killed.
LEMMA ProcessEndsStep ==
  ASSUME RunInv, NEW p \in Run!Processes, Run!ProcessEnds(p)
  PROVE  RunInv'
<1>1. RunTypeInv /\ HeardInv /\ ProcessInv /\ AliveInv /\ StatusInv
  BY DEF RunInv
<1>2. /\ process[p] = "running"
      /\ process' = [process EXCEPT ![p] = "ended"]
      /\ nodes' = IF p = "launch" THEN {} ELSE nodes
      /\ alive' = (alive /\ (p = "launch" => process["playback"] = "ended"))
      /\ \/ output' = IF p = "monitor" THEN monitor ELSE output
         \/ p = "monitor" /\ output' = output
      /\ UNCHANGED <<runPc, status, resultFile, exit, call, listed, heard, monitor>>
  BY DEF Run!ProcessEnds, Run!Ends, Run!Running, Run!Ended, Run!runnerVars
<1>3. /\ process'[p] = "ended"
      /\ \A q \in Run!Processes \ {p} : process'[q] = process[q]
      /\ process' \in [Run!Processes -> {"none", "running", "ended"}]
  BY <1>1, <1>2 DEF RunTypeInv
<1>4. output # Run!NoOutput => output' = output /\ p # "monitor"
  BY <1>1, <1>2 DEF ProcessInv
<1>5. RunTypeInv' /\ HeardInv'
  BY <1>1, <1>2, <1>3 DEF RunTypeInv, HeardInv
<1>6. ProcessInv'
  BY <1>1, <1>2, <1>3, <1>4 DEF ProcessInv, Run!Processes
<1>7. AliveInv'
  BY <1>1, <1>2, <1>3 DEF AliveInv, Run!Processes, Run!Nodes
<1>8. StatusInv'
  BY <1>1, <1>2, <1>4 DEF StatusInv, Run!Accepts
<1> QED
  BY <1>5, <1>6, <1>7, <1>8 DEF RunInv

\* The launch is killed from outside.
LEMMA LaunchKilledStep ==
  ASSUME RunInv, Run!LaunchKilled
  PROVE  RunInv'
BY DEF RunInv, Run!LaunchKilled, Run!Running, Run!Processes, Run!runnerVars, RunTypeInv, HeardInv, ProcessInv,
       AliveInv, StatusInv, Run!Accepts

\* A command the runner waits for ends.
LEMMA CallReturnsStep ==
  ASSUME RunInv, Run!CallReturns
  PROVE  RunInv'
<1>1. /\ listed' = nodes
      /\ UNCHANGED <<runPc, status, resultFile, exit, process, nodes, heard, monitor, output, alive>>
  BY DEF Run!CallReturns
<1>2. RunTypeInv' /\ HeardInv' /\ ProcessInv'
  BY <1>1 DEF RunInv, RunTypeInv, HeardInv, ProcessInv
<1>3. AliveInv' /\ StatusInv'
  BY <1>1 DEF RunInv, AliveInv, StatusInv, Run!Accepts
<1> QED
  BY <1>2, <1>3 DEF RunInv

-----------------------------------------------------------------------------
(* The runner's own statements *)

\* What a statement of the runner leaves alone but for a process it starts.
LEMMA Kept ==
  ASSUME RunInv, UNCHANGED <<nodes, heard, monitor, output>>,
         process' \in [Run!Processes -> {"none", "running", "ended"}], alive' \in BOOLEAN
  PROVE  RunTypeInv' /\ HeardInv'
BY DEF RunInv, RunTypeInv, HeardInv

\* A statement fails, or is interrupted, and goes on with finally.
LEMMA FailedStep ==
  ASSUME RunInv, runPc \in Run!Trying, Run!Failed,
         UNCHANGED <<Run!worldVars, alive>>
  PROVE  RunInv'
<1>0. UNCHANGED <<resultFile, nodes, heard, monitor, output, alive>>
  BY DEF Run!worldVars
<1>1. /\ exit' = 1 /\ runPc' = "cleanPlayback"
      /\ UNCHANGED <<status, process>>
  BY DEF Run!Failed, Run!Goto
<1>2. RunTypeInv' /\ HeardInv'
  BY <1>0, <1>1, Kept DEF RunInv, RunTypeInv
<1>3. ProcessInv' /\ AliveInv'
  BY <1>0, <1>1 DEF RunInv, ProcessInv, Starting, AliveInv
<1>4. StatusInv'
  BY <1>0, <1>1 DEF RunInv, StatusInv, Run!Accepts, Run!Trying, Finally
<1> QED
  BY <1>2, <1>3, <1>4 DEF RunInv

\* A statement goes on without a process being started.
LEMMA PassedStep ==
  ASSUME RunInv, NEW pc, runPc' = pc, UNCHANGED <<Run!worldVars, alive, status, exit, process>>,
         \/ runPc \in Starting /\ pc \in Starting
         \/ runPc = "play" /\ process["playback"] = "ended" /\ pc = "nodes"
         \/ runPc = "nodes" /\ pc = "final" /\ call' = "asked"
         \/ runPc = "final" /\ pc = "stopMonitor" /\ alive
  PROVE  RunInv'
<1>1. UNCHANGED <<resultFile, nodes, heard, monitor, output, alive>>
  BY DEF Run!worldVars
<1>2. RunTypeInv' /\ HeardInv'
  BY <1>1, Kept DEF RunInv, RunTypeInv
<1>3. ProcessInv'
  BY <1>1 DEF RunInv, ProcessInv, Starting
<1>4. AliveInv'
  BY <1>1 DEF RunInv, AliveInv, Starting
<1>5. StatusInv'
  BY <1>1 DEF RunInv, StatusInv, Run!Accepts, Starting, Finally
<1> QED
  BY <1>2, <1>3, <1>4, <1>5 DEF RunInv

\* The statements before the bag is played start what they wait for.
LEMMA StartingStep ==
  ASSUME RunInv, \/ Run!Prepare \/ Run!TakeManifest \/ Run!StartLaunch \/ Run!WaitForNodes
                 \/ Run!NodesReady \/ Run!WaitTimesOut \/ Run!StartPlayback
  PROVE  RunInv'
<1>1. ASSUME runPc = "launch", Run!Started("launch", "wait"), UNCHANGED <<Run!worldVars, alive>> PROVE RunInv'
  <2>1. /\ process' = [process EXCEPT !["launch"] = "running"] /\ runPc' = "wait"
        /\ UNCHANGED <<resultFile, nodes, heard, monitor, output, alive, status, exit>>
    BY <1>1 DEF Run!Started, Run!Goto, Run!worldVars
  <2>2. RunTypeInv' /\ HeardInv'
    BY <2>1, Kept DEF RunInv, RunTypeInv
  <2>3. ProcessInv' /\ AliveInv'
    BY <1>1, <2>1 DEF RunInv, RunTypeInv, ProcessInv, Starting, AliveInv, Run!Processes
  <2>4. StatusInv'
    BY <1>1, <2>1 DEF RunInv, StatusInv, Run!Accepts, Finally
  <2> QED
    BY <2>2, <2>3, <2>4 DEF RunInv
<1>2. ASSUME runPc = "ready", Run!Started("monitor", "monitor"), alive' = (nodes = Run!Nodes),
             UNCHANGED Run!worldVars
      PROVE  RunInv'
  <2>1. /\ process' = [process EXCEPT !["monitor"] = "running"] /\ runPc' = "monitor"
        /\ UNCHANGED <<resultFile, nodes, heard, monitor, output, status, exit>>
        /\ alive' = (nodes = Run!Nodes)
    BY <1>2 DEF Run!Started, Run!Goto, Run!worldVars
  <2>2. RunTypeInv' /\ HeardInv'
    BY <2>1, Kept DEF RunInv, RunTypeInv
  <2>3. status # "PASS"
    BY <1>2 DEF RunInv, ProcessInv, Starting, StatusInv
  <2>4. ProcessInv'
    BY <1>2, <2>1 DEF RunInv, RunTypeInv, ProcessInv, Starting, Run!Processes
  <2>5. AliveInv'
    BY <2>1, <2>3 DEF AliveInv
  <2>6. StatusInv'
    BY <1>2, <2>1 DEF RunInv, StatusInv, Run!Accepts, Finally
  <2> QED
    BY <2>2, <2>4, <2>5, <2>6 DEF RunInv
<1>3. ASSUME runPc = "monitor", Run!Started("playback", "play"), UNCHANGED <<Run!worldVars, alive>> PROVE RunInv'
  <2>1. /\ process' = [process EXCEPT !["playback"] = "running"] /\ runPc' = "play"
        /\ UNCHANGED <<resultFile, nodes, heard, monitor, output, alive, status, exit>>
    BY <1>3 DEF Run!Started, Run!Goto, Run!worldVars
  <2>2. RunTypeInv' /\ HeardInv'
    BY <2>1, Kept DEF RunInv, RunTypeInv
  <2>3. status # "PASS"
    BY <1>3 DEF RunInv, ProcessInv, AliveInv
  <2>4. ProcessInv' /\ AliveInv'
    BY <1>3, <2>1, <2>3 DEF RunInv, RunTypeInv, ProcessInv, Starting, AliveInv, Run!Processes
  <2>5. StatusInv'
    BY <1>3, <2>1 DEF RunInv, StatusInv, Run!Accepts, Finally
  <2> QED
    BY <2>2, <2>4, <2>5 DEF RunInv
<1>4. ASSUME runPc \in Run!Trying, Run!Failed, UNCHANGED <<Run!worldVars, alive>> PROVE RunInv'
  BY <1>4, FailedStep
<1>5. ASSUME runPc \in Starting, NEW pc \in Starting, Run!Passed(pc) \/ Run!Called(pc),
             UNCHANGED <<Run!worldVars, alive>>
      PROVE  RunInv'
  <2>1. runPc' = pc /\ UNCHANGED <<status, exit, process>>
    BY <1>5 DEF Run!Passed, Run!Called, Run!Goto
  <2> QED
    BY <1>5, <2>1, PassedStep
<1>6. CASE Run!Prepare \/ Run!TakeManifest
  BY <1>4, <1>5, <1>6 DEF Run!Prepare, Run!TakeManifest, Run!Trying, Starting
<1>7. CASE Run!StartLaunch
  BY <1>1, <1>4, <1>7 DEF Run!StartLaunch, Run!Trying
<1>8. CASE Run!WaitForNodes \/ Run!WaitTimesOut
  BY <1>4, <1>5, <1>8 DEF Run!WaitForNodes, Run!WaitTimesOut, Run!Trying, Starting
<1>9. CASE Run!NodesReady
  BY <1>2, <1>5, <1>9 DEF Run!NodesReady, Starting
<1>10. CASE Run!StartPlayback
  BY <1>3, <1>4, <1>10 DEF Run!StartPlayback, Run!Trying
<1> QED
  BY <1>6, <1>7, <1>8, <1>9, <1>10

\* The bag has ended, and the nodes are looked at.
LEMMA PlayedStep ==
  ASSUME RunInv, Run!Playback \/ Run!ListNodes \/ Run!FinalNodes
  PROVE  RunInv'
<1>1. ASSUME runPc \in Run!Trying, Run!Failed, UNCHANGED <<Run!worldVars, alive>>
      PROVE  RunInv'
  BY <1>1, FailedStep
<1>2. ASSUME runPc = "play", process["playback"] = "ended", Run!Passed("nodes"),
             UNCHANGED <<Run!worldVars, alive>>
      PROVE  RunInv'
  BY <1>2, PassedStep DEF Run!Passed, Run!Goto
<1>3. CASE Run!Playback
  BY <1>1, <1>2, <1>3 DEF Run!Playback, Run!Ended, Run!Trying
<1>4. CASE Run!ListNodes
  BY <1>4, PassedStep DEF Run!ListNodes, Run!Called, Run!Goto
<1>5. ASSUME runPc = "final", Run!Answered, listed = Run!Nodes, Run!Passed("stopMonitor"),
             UNCHANGED <<Run!worldVars, alive>>
      PROVE  RunInv'
  <2>1. alive
    BY <1>5 DEF RunInv, AliveInv, Run!Answered
  <2> QED
    BY <1>5, <2>1, PassedStep DEF Run!Passed, Run!Goto
<1>6. CASE Run!FinalNodes
  BY <1>1, <1>5, <1>6 DEF Run!FinalNodes, Run!Required, Run!BothNodes, Run!Trying
<1> QED
  BY <1>3, <1>4, <1>6

\* The counts are accepted, and run returns.
LEMMA AcceptingStep ==
  ASSUME RunInv, Run!Accept \/ Run!Return
  PROVE  RunInv'
<1>1. ASSUME Run!Accept, ~(output = Run!NoOutput \/ ~Run!Accepts(output))
      PROVE  RunInv'
  <2>1. /\ runPc = "accept" /\ runPc' = "return" /\ status' = "PASS"
        /\ UNCHANGED <<exit, process, resultFile, nodes, heard, monitor, output, alive>>
    BY <1>1 DEF Run!Accept, Run!Goto, Run!worldVars
  <2>2. RunTypeInv' /\ HeardInv'
    BY <2>1, Kept DEF RunInv, RunTypeInv
  <2>3. ProcessInv' /\ AliveInv'
    BY <2>1 DEF RunInv, ProcessInv, Starting, AliveInv
  <2>4. StatusInv'
    BY <1>1, <2>1 DEF RunInv, StatusInv, Run!Accepts, Finally
  <2> QED
    BY <2>2, <2>3, <2>4 DEF RunInv
<1>2. ASSUME Run!Accept, output = Run!NoOutput \/ ~Run!Accepts(output)
      PROVE  RunInv'
  BY <1>2, FailedStep DEF Run!Accept, Run!Trying
<1>3. ASSUME Run!Return PROVE RunInv'
  <2>1. /\ runPc = "return" /\ runPc' = "cleanPlayback" /\ exit' = 0
        /\ UNCHANGED <<status, process, resultFile, nodes, heard, monitor, output, alive>>
    BY <1>3 DEF Run!Return, Run!Goto, Run!worldVars
  <2>2. RunTypeInv' /\ HeardInv'
    BY <2>1, Kept DEF RunInv, RunTypeInv
  <2>3. ProcessInv' /\ AliveInv'
    BY <2>1 DEF RunInv, ProcessInv, Starting, AliveInv
  <2>4. StatusInv'
    BY <2>1 DEF RunInv, StatusInv, Run!Accepts, Finally
  <2> QED
    BY <2>2, <2>3, <2>4 DEF RunInv
<1> QED
  BY <1>1, <1>2, <1>3

\* A process is cleaned up, in its place.
LEMMA CleaningStep ==
  ASSUME RunInv, Run!Cleaned \/ Run!Signal \/ Run!StopTimesOut
  PROVE  RunInv'
<1>1. ASSUME Run!Cleaned PROVE RunInv'
  <2>1. /\ \/ runPc = "stopMonitor" /\ runPc' = "accept"
           \/ runPc \in Finally \ {"ended"} /\ runPc' \in Finally \ {"ended"}
        /\ UNCHANGED <<status, resultFile, exit, process, nodes, heard, monitor, output, alive>>
    BY <1>1 DEF Run!Cleaned, Run!InCleanup, Run!Cleaning, Run!AfterCleaning, Run!Goto, Run!worldVars, Finally
  <2>2. RunTypeInv' /\ HeardInv'
    BY <2>1, Kept DEF RunInv, RunTypeInv
  <2>3. ProcessInv' /\ AliveInv'
    BY <2>1 DEF RunInv, ProcessInv, Starting, AliveInv, Finally
  <2>4. StatusInv'
    BY <2>1 DEF RunInv, StatusInv, Run!Accepts, Finally
  <2> QED
    BY <2>2, <2>3, <2>4 DEF RunInv
<1>2. ASSUME Run!Signal PROVE RunInv'
  BY <1>2 DEF Run!Signal, Run!worldVars, RunInv, RunTypeInv, HeardInv, ProcessInv, AliveInv, StatusInv, Run!Accepts
<1>3. ASSUME Run!StopTimesOut PROVE RunInv'
  BY <1>3, FailedStep DEF Run!StopTimesOut, Run!Trying
<1> QED
  BY <1>1, <1>2, <1>3

\* Finally ends, with the result written or by an exception.
LEMMA EndingStep ==
  ASSUME RunInv, Run!FinallyRaises \/ Run!WriteResult
  PROVE  RunInv'
<1>1. /\ runPc # "ended" /\ runPc' = "ended"
      /\ UNCHANGED <<status, process, nodes, heard, monitor, output, alive>>
      /\ \/ resultFile' = resultFile /\ exit' = 2
         \/ resultFile' = [of |-> "this", status |-> status] /\ exit' = exit
  BY DEF Run!FinallyRaises, Run!WriteResult, Run!Goto
<1>2. RunTypeInv' /\ HeardInv'
  BY <1>1, Kept DEF RunInv, RunTypeInv
<1>3. ProcessInv' /\ AliveInv'
  BY <1>1 DEF RunInv, ProcessInv, Starting, AliveInv
<1>4. StatusInv'
  BY <1>1 DEF RunInv, StatusInv, Run!Accepts, Finally
<1> QED
  BY <1>2, <1>3, <1>4 DEF RunInv

\* Every step of the runner and of its processes keeps the invariant.
LEMMA RunStepwise == RunInv /\ [Run!RunNext]_runVars => RunInv'
<1> SUFFICES ASSUME RunInv, [Run!RunNext]_runVars
             PROVE  RunInv'
  OBVIOUS
<1>1. CASE Run!Runner
  BY <1>1, StartingStep, PlayedStep, AcceptingStep, CleaningStep, EndingStep DEF Run!Runner
<1>2. CASE Run!Interrupted
  BY <1>2, FailedStep DEF Run!Interrupted
<1>3. CASE Run!Killed
  <2>1. Run!At \in Run!Processes /\ Run!ProcessEnds(Run!At)
    BY <1>3 DEF Run!Killed, Run!InCleanup, Run!At, Run!Cleaning, Run!Processes
  <2> QED
    BY <2>1, ProcessEndsStep
<1>4. CASE Run!StopTimesOut \/ Run!FinallyRaises \/ Run!WaitTimesOut
  BY <1>4, CleaningStep, EndingStep, StartingStep
<1>5. CASE Run!Received \/ Run!LaunchKilled \/ Run!CallReturns
  BY <1>5, ReceivedStep, LaunchKilledStep, CallReturnsStep
<1>6. CASE \E n \in Run!Nodes : Run!NodeReady(n) \/ Run!NodeDies(n)
  BY <1>6, NodeReadyStep, NodeDiesStep
<1>7. CASE \E p \in Run!Processes : Run!ProcessEnds(p)
  BY <1>7, ProcessEndsStep
<1>8. CASE UNCHANGED runVars
  BY <1>8 DEF runVars, RunInv, RunTypeInv, HeardInv, ProcessInv, AliveInv, StatusInv, Run!Accepts
<1> QED
  BY <1>1, <1>2, <1>3, <1>4, <1>5, <1>6, <1>7, <1>8 DEF Run!RunNext

\* What has passed is what was heard while both nodes lived.
LEMMA RunShows == RunInv => PassIsEvidence
<1> SUFFICES ASSUME RunInv
             PROVE  PassIsEvidence
  OBVIOUS
<1>1. RunTypeInv /\ HeardInv /\ ProcessInv /\ AliveInv /\ StatusInv
  BY DEF RunInv
<1>2. ASSUME resultFile = [of |-> "this", status |-> "PASS"]
      PROVE  Run!Evidence
  <2>1. status = "PASS"
    BY <1>1, <1>2 DEF StatusInv
  <2>2. output = monitor /\ Run!Accepts(monitor) /\ alive
    BY <1>1, <2>1 DEF StatusInv, ProcessInv, AliveInv
  <2>3. monitor.camera = 1 /\ monitor.imu = 1
    BY <1>1, <2>2 DEF RunTypeInv, Counters, Run!Accepts
  <2> QED
    BY <1>1, <2>2, <2>3 DEF HeardInv, Run!Accepts, Run!Evidence
<1>3. runPc = "ended" /\ exit = 0 => resultFile = [of |-> "this", status |-> "PASS"]
  BY <1>1 DEF StatusInv
<1> QED
  BY <1>2, <1>3 DEF PassIsEvidence, Run!PassIsEvidence

-----------------------------------------------------------------------------
(* The theorems *)

\* The publisher publishes the row of the odometry's time (RowOfItsTime), for every number of
\* rows, messages and sessions and every SKIP of one at least
\* (benchmark_publisher_node.cpp).
THEOREM OnlyTheRowOfItsTime == Spec => []RowOfItsTime
<1>1. Init => BenchInv
  BY BenchInitially DEF Init
<1>2. BenchInv /\ [Next]_allVars => BenchInv'
  <2> SUFFICES ASSUME BenchInv, [Next]_allVars
               PROVE  BenchInv'
    OBVIOUS
  <2>1. [Bench!BenchNext]_benchVars
    BY DEF Next, ArStep, BenchStep, RunStep, allVars
  <2> QED
    BY <2>1, BenchStepwise
<1> QED
  BY <1>1, <1>2, BenchShows, PTL DEF Spec

\* A result that says PASS is evidence of what was heard while the bag was played
\* (PassIsEvidence), for every minimum and bound of odometry messages and whatever an earlier
\* run has left (dataset_e2e.py).
THEOREM PassOnlyWithEvidence == Spec => []PassIsEvidence
<1>1. Init => RunInv
  BY RunInitially DEF Init
<1>2. RunInv /\ [Next]_allVars => RunInv'
  <2> SUFFICES ASSUME RunInv, [Next]_allVars
               PROVE  RunInv'
    OBVIOUS
  <2>1. [Run!RunNext]_runVars
    BY DEF Next, ArStep, BenchStep, RunStep, allVars
  <2> QED
    BY <2>1, RunStepwise
<1> QED
  BY <1>1, <1>2, RunShows, PTL DEF Spec

-----------------------------------------------------------------------------
(* The AR demo: its inductive invariant *)

AllFaces == {Ar!Faces(view) : view \in Views \cup {<<>>}}
Drawing == [image : Nat, pose : Nat, faces : AllFaces]

ImgSent == Len(images)
Shot == [stamp : Nat, session : Nat]

ArTypeInv ==
  /\ images \in Seq(Shot) /\ ImgSent \in Nat /\ poseSent \in Nat /\ poseSent <= ImgSent
  /\ imgTopic \in Seq(Nat) /\ poseTopic \in Seq(Nat) /\ img_buf \in Seq(Nat)
  /\ taken \in Seq(Drawing)
  /\ thrown \subseteq (1..ImgSent) \X (1..ImgSent)

\* Stamps increase in a session, and sessions follow each other.
StreamInv ==
  \A i, j \in 1..ImgSent : i < j =>
    /\ Ar!Session(i) <= Ar!Session(j)
    /\ Ar!Session(i) = Ar!Session(j) => Ar!Stamp(i) < Ar!Stamp(j)

Increasing(s) == \A i, j \in DOMAIN s : i < j => s[i] < s[j]

\* Images come in order, those of the topic after those of the buffer.
ImagesInv ==
  /\ Increasing(imgTopic) /\ Increasing(img_buf)
  /\ \A i \in DOMAIN imgTopic : imgTopic[i] <= ImgSent /\ \A j \in DOMAIN img_buf : img_buf[j] < imgTopic[i]
  /\ \A i \in DOMAIN img_buf : img_buf[i] <= ImgSent
\* What is waiting is newer than what was taken.
NewerInv ==
  /\ Increasing(poseTopic)
  /\ \A i \in DOMAIN poseTopic : poseTopic[i] <= poseSent /\ \A j \in DOMAIN taken : taken[j].pose < poseTopic[i]
  /\ \A j \in DOMAIN taken :
       /\ taken[j].pose <= poseSent /\ taken[j].image <= ImgSent
       /\ \A i \in DOMAIN img_buf : taken[j].image < img_buf[i]
       /\ \A i \in DOMAIN imgTopic : taken[j].image < imgTopic[i]

In(x, s) == \E i \in DOMAIN s : s[i] = x
\* Images are numbered from 1.
NumberedInv ==
  /\ \A x : In(x, poseTopic) \/ In(x, imgTopic) \/ In(x, img_buf) => x # 0
  /\ \A j \in DOMAIN taken : taken[j].image # 0 /\ taken[j].pose # 0

\* An image with a pose to come is not thrown but for a pose of an earlier session.
Somewhere(s) ==
  \/ In(s, imgTopic) \/ In(s, img_buf) \/ s \in dropped
  \/ \E k \in DOMAIN taken : taken[k].image = s
  \/ Ar!ThrownByOldPose(s)
ThereInv == \A s \in Nat : (poseSent < s /\ s <= ImgSent) \/ In(s, poseTopic) => Somewhere(s)

TakenInOrder ==
  \A i, j \in DOMAIN taken : i < j => taken[i].image < taken[j].image /\ taken[i].pose < taken[j].pose
OwnImageGone ==
  \A i \in DOMAIN taken :
    /\ taken[i].image < taken[i].pose => Ar!Session(taken[i].image) < Ar!Session(taken[i].pose)
    /\ taken[i].pose < taken[i].image =>
         \/ taken[i].pose \in dropped \/ \E k \in 1..(i - 1) : taken[k].image = taken[i].pose
         \/ Ar!ThrownByOldPose(taken[i].pose)

ArInv ==
  /\ ArTypeInv /\ StreamInv /\ ImagesInv /\ NewerInv /\ NumberedInv /\ ThereInv
  /\ TakenInOrder /\ OwnImageGone

(* The faces of the cube *)

\* The faces that are painted are three sides that meet in one corner.
Meet(faces) ==
  faces # <<>> =>
    LET corners(k) == Ar!ToSet(faces[k])
    IN  /\ \A k \in 1..3 : \E axis \in 1..3, sign \in 0..1 : corners(k) = Ar!Side(axis, sign)
        /\ Ar!Cardinality(corners(1) \cap corners(2) \cap corners(3)) = 1

LEMMA Sides ==
  /\ Ar!Side(1, 0) = {0, 2, 4, 6} /\ Ar!Side(1, 1) = {1, 3, 5, 7}
  /\ Ar!Side(2, 0) = {0, 1, 4, 5} /\ Ar!Side(2, 1) = {2, 3, 6, 7}
  /\ Ar!Side(3, 0) = {0, 1, 2, 3} /\ Ar!Side(3, 1) = {4, 5, 6, 7}
<1>1. \A j \in 0..7 : j \in {0, 1, 2, 3, 4, 5, 6, 7}
  OBVIOUS
<1>2. /\ \A j \in {0, 2, 4, 6} : Ar!Corner[j][1] = 0
      /\ \A j \in {1, 3, 5, 7} : Ar!Corner[j][1] = 1
      /\ \A j \in {0, 1, 4, 5} : Ar!Corner[j][2] = 0
      /\ \A j \in {2, 3, 6, 7} : Ar!Corner[j][2] = 1
      /\ \A j \in {0, 1, 2, 3} : Ar!Corner[j][3] = 0
      /\ \A j \in {4, 5, 6, 7} : Ar!Corner[j][3] = 1
  BY DEF Ar!Corner
<1> QED  BY <1>1, <1>2 DEF Ar!Side

\* The set of a row of point_group, and the side it is.
IsFace(nearest, k, S, axis, sign) ==
  Ar!ToSet(Ar!Face(nearest, k)) = S /\ Ar!Side(axis, sign) = S

LEMMA Quarter ==
  ASSUME NEW row \in Seq(Nat), Len(row) = 12, NEW k \in 1..3
  PROVE  Ar!ToSet(SubSeq(row, 4 * k - 3, 4 * k)) = {row[4 * k - 3], row[4 * k - 2], row[4 * k - 1], row[4 * k]}
<1> DEFINE s == SubSeq(row, 4 * k - 3, 4 * k)
<1>1. DOMAIN s = 1..4 /\ \A i \in 1..4 : s[i] = row[4 * k - 3 + i - 1]
  OBVIOUS
<1> HIDE DEF s
<1>2. s[1] = row[4 * k - 3] /\ s[2] = row[4 * k - 2] /\ s[3] = row[4 * k - 1] /\ s[4] = row[4 * k]
  BY <1>1
<1>3. Ar!ToSet(s) = {s[1], s[2], s[3], s[4]}
  BY <1>1 DEF Ar!ToSet
<1> QED  BY <1>2, <1>3 DEF s

LEMMA Rows ==
  ASSUME NEW n \in 0..7
  PROVE  Ar!PointGroup[n + 1] \in Seq(Nat) /\ Len(Ar!PointGroup[n + 1]) = 12
<1> DEFINE Twelve(x) == x \in Seq(Nat) /\ Len(x) = 12
           table == Ar!PointGroup
<1>1. Twelve(table[1])
  BY DEF Ar!PointGroup
<1>2. Twelve(table[2])
  BY DEF Ar!PointGroup
<1>3. Twelve(table[3])
  BY DEF Ar!PointGroup
<1>4. Twelve(table[4])
  BY DEF Ar!PointGroup
<1>5. Twelve(table[5])
  BY DEF Ar!PointGroup
<1>6. Twelve(table[6])
  BY DEF Ar!PointGroup
<1>7. Twelve(table[7])
  BY DEF Ar!PointGroup
<1>8. Twelve(table[8])
  BY DEF Ar!PointGroup
<1> HIDE DEF Twelve, table
<1>9. Twelve(table[n + 1])
  <2>1. n + 1 \in {1, 2, 3, 4, 5, 6, 7, 8}
    OBVIOUS
  <2> QED  BY <1>1, <1>2, <1>3, <1>4, <1>5, <1>6, <1>7, <1>8, <2>1
<1> QED  BY <1>9 DEF Twelve, table

LEMMA FaceIs ==
  ASSUME NEW n \in 0..7, NEW k \in 1..3
  PROVE  LET row == Ar!PointGroup[n + 1]
         IN  Ar!ToSet(Ar!Face(n, k)) = {row[4 * k - 3], row[4 * k - 2], row[4 * k - 1], row[4 * k]}
BY Quarter, Rows DEF Ar!Face

LEMMA FaceTable ==
  /\ \A n \in {0, 1, 4, 5} : IsFace(n, 1, {0, 1, 4, 5}, 2, 0)
  /\ \A n \in {2, 3, 6, 7} : IsFace(n, 1, {2, 3, 6, 7}, 2, 1)
  /\ \A n \in {0, 2, 4, 6} : IsFace(n, 2, {0, 2, 4, 6}, 1, 0)
  /\ \A n \in {1, 3, 5, 7} : IsFace(n, 2, {1, 3, 5, 7}, 1, 1)
  /\ \A n \in {0, 1, 2, 3} : IsFace(n, 3, {0, 1, 2, 3}, 3, 0)
  /\ \A n \in {4, 5, 6, 7} : IsFace(n, 3, {4, 5, 6, 7}, 3, 1)
<1>1. \A n \in {0, 1, 4, 5} : Ar!ToSet(Ar!Face(n, 1)) = {0, 1, 4, 5}
  <2>1. ASSUME NEW n \in {0, 1, 4, 5} PROVE Ar!ToSet(Ar!Face(n, 1)) = {0, 1, 4, 5}
    <3> DEFINE row == Ar!PointGroup[n + 1]
    <3>1. Ar!ToSet(Ar!Face(n, 1)) = {row[1], row[2], row[3], row[4]}
      <4>1. n \in 0..7 /\ 1 \in 1..3 /\ 4 * 1 - 3 = 1 /\ 4 * 1 - 2 = 2 /\ 4 * 1 - 1 = 3 /\ 4 * 1 = 4
        OBVIOUS
      <4> QED  BY <4>1, FaceIs
    <3>2. {row[1], row[2], row[3], row[4]} = {0, 1, 4, 5}
      BY DEF Ar!PointGroup
    <3> QED  BY <3>1, <3>2
  <2> QED  BY <2>1
<1>2. \A n \in {2, 3, 6, 7} : Ar!ToSet(Ar!Face(n, 1)) = {2, 3, 6, 7}
  <2>1. ASSUME NEW n \in {2, 3, 6, 7} PROVE Ar!ToSet(Ar!Face(n, 1)) = {2, 3, 6, 7}
    <3> DEFINE row == Ar!PointGroup[n + 1]
    <3>1. Ar!ToSet(Ar!Face(n, 1)) = {row[1], row[2], row[3], row[4]}
      <4>1. n \in 0..7 /\ 1 \in 1..3 /\ 4 * 1 - 3 = 1 /\ 4 * 1 - 2 = 2 /\ 4 * 1 - 1 = 3 /\ 4 * 1 = 4
        OBVIOUS
      <4> QED  BY <4>1, FaceIs
    <3>2. {row[1], row[2], row[3], row[4]} = {2, 3, 6, 7}
      BY DEF Ar!PointGroup
    <3> QED  BY <3>1, <3>2
  <2> QED  BY <2>1
<1>3. \A n \in {0, 2, 4, 6} : Ar!ToSet(Ar!Face(n, 2)) = {0, 2, 4, 6}
  <2>1. ASSUME NEW n \in {0, 2, 4, 6} PROVE Ar!ToSet(Ar!Face(n, 2)) = {0, 2, 4, 6}
    <3> DEFINE row == Ar!PointGroup[n + 1]
    <3>1. Ar!ToSet(Ar!Face(n, 2)) = {row[5], row[6], row[7], row[8]}
      <4>1. n \in 0..7 /\ 2 \in 1..3 /\ 4 * 2 - 3 = 5 /\ 4 * 2 - 2 = 6 /\ 4 * 2 - 1 = 7 /\ 4 * 2 = 8
        OBVIOUS
      <4> QED  BY <4>1, FaceIs
    <3>2. {row[5], row[6], row[7], row[8]} = {0, 2, 4, 6}
      BY DEF Ar!PointGroup
    <3> QED  BY <3>1, <3>2
  <2> QED  BY <2>1
<1>4. \A n \in {1, 3, 5, 7} : Ar!ToSet(Ar!Face(n, 2)) = {1, 3, 5, 7}
  <2>1. ASSUME NEW n \in {1, 3, 5, 7} PROVE Ar!ToSet(Ar!Face(n, 2)) = {1, 3, 5, 7}
    <3> DEFINE row == Ar!PointGroup[n + 1]
    <3>1. Ar!ToSet(Ar!Face(n, 2)) = {row[5], row[6], row[7], row[8]}
      <4>1. n \in 0..7 /\ 2 \in 1..3 /\ 4 * 2 - 3 = 5 /\ 4 * 2 - 2 = 6 /\ 4 * 2 - 1 = 7 /\ 4 * 2 = 8
        OBVIOUS
      <4> QED  BY <4>1, FaceIs
    <3>2. {row[5], row[6], row[7], row[8]} = {1, 3, 5, 7}
      BY DEF Ar!PointGroup
    <3> QED  BY <3>1, <3>2
  <2> QED  BY <2>1
<1>5. \A n \in {0, 1, 2, 3} : Ar!ToSet(Ar!Face(n, 3)) = {0, 1, 2, 3}
  <2>1. ASSUME NEW n \in {0, 1, 2, 3} PROVE Ar!ToSet(Ar!Face(n, 3)) = {0, 1, 2, 3}
    <3> DEFINE row == Ar!PointGroup[n + 1]
    <3>1. Ar!ToSet(Ar!Face(n, 3)) = {row[9], row[10], row[11], row[12]}
      <4>1. n \in 0..7 /\ 3 \in 1..3 /\ 4 * 3 - 3 = 9 /\ 4 * 3 - 2 = 10 /\ 4 * 3 - 1 = 11 /\ 4 * 3 = 12
        OBVIOUS
      <4> QED  BY <4>1, FaceIs
    <3>2. {row[9], row[10], row[11], row[12]} = {0, 1, 2, 3}
      BY DEF Ar!PointGroup
    <3> QED  BY <3>1, <3>2
  <2> QED  BY <2>1
<1>6. \A n \in {4, 5, 6, 7} : Ar!ToSet(Ar!Face(n, 3)) = {4, 5, 6, 7}
  <2>1. ASSUME NEW n \in {4, 5, 6, 7} PROVE Ar!ToSet(Ar!Face(n, 3)) = {4, 5, 6, 7}
    <3> DEFINE row == Ar!PointGroup[n + 1]
    <3>1. Ar!ToSet(Ar!Face(n, 3)) = {row[9], row[10], row[11], row[12]}
      <4>1. n \in 0..7 /\ 3 \in 1..3 /\ 4 * 3 - 3 = 9 /\ 4 * 3 - 2 = 10 /\ 4 * 3 - 1 = 11 /\ 4 * 3 = 12
        OBVIOUS
      <4> QED  BY <4>1, FaceIs
    <3>2. {row[9], row[10], row[11], row[12]} = {4, 5, 6, 7}
      BY DEF Ar!PointGroup
    <3> QED  BY <3>1, <3>2
  <2> QED  BY <2>1
<1> QED  BY <1>1, <1>2, <1>3, <1>4, <1>5, <1>6, Sides DEF IsFace

LEMMA ArCardinality == \A S : Ar!Cardinality(S) = Cardinality(S)
BY DEF Ar!Cardinality, Cardinality

OneSide(S) == \E axis \in 1..3, sign \in 0..1 : S = Ar!Side(axis, sign)

LEMMA SideIs ==
  ASSUME NEW axis \in 1..3, NEW sign \in 0..1, NEW S, S = Ar!Side(axis, sign)
  PROVE  OneSide(S)
BY DEF OneSide

LEMMA FacesMeet ==
  ASSUME NEW faces \in AllFaces
  PROVE  Meet(faces)
<1>1. PICK view \in Views \cup {<<>>} : faces = Ar!Faces(view)
  BY DEF AllFaces
<1>2. CASE view = <<>>
  BY <1>1, <1>2 DEF Ar!Faces, Meet
<1>3. CASE view # <<>>
  <2>1. view[1] \in 0..7
    BY <1>1, <1>3, ViewsAssumption
  <2> DEFINE n == view[1]
             side(k) == Ar!ToSet(faces[k])
  <2>2. \A k \in 1..3 : faces[k] = Ar!Face(n, k)
    BY <1>1, <1>3 DEF Ar!Faces
  <2> HIDE DEF n
  <2>3. /\ n \in {0, 1, 4, 5} => IsFace(n, 1, {0, 1, 4, 5}, 2, 0)
        /\ n \in {2, 3, 6, 7} => IsFace(n, 1, {2, 3, 6, 7}, 2, 1)
        /\ n \in {0, 2, 4, 6} => IsFace(n, 2, {0, 2, 4, 6}, 1, 0)
        /\ n \in {1, 3, 5, 7} => IsFace(n, 2, {1, 3, 5, 7}, 1, 1)
        /\ n \in {0, 1, 2, 3} => IsFace(n, 3, {0, 1, 2, 3}, 3, 0)
        /\ n \in {4, 5, 6, 7} => IsFace(n, 3, {4, 5, 6, 7}, 3, 1)
    BY FaceTable
  <2>4. n \in {0, 1, 2, 3, 4, 5, 6, 7}
    BY <2>1 DEF n
  <2>5. /\ side(1) = Ar!ToSet(Ar!Face(n, 1)) /\ side(2) = Ar!ToSet(Ar!Face(n, 2))
        /\ side(3) = Ar!ToSet(Ar!Face(n, 3))
    BY <2>2
  <2>6. OneSide(side(1)) /\ side(1) = IF n \in {0, 1, 4, 5} THEN {0, 1, 4, 5} ELSE {2, 3, 6, 7}
    <3>1. \/ side(1) = {0, 1, 4, 5} /\ Ar!Side(2, 0) = {0, 1, 4, 5} /\ n \in {0, 1, 4, 5}
          \/ side(1) = {2, 3, 6, 7} /\ Ar!Side(2, 1) = {2, 3, 6, 7} /\ n \in {2, 3, 6, 7}
      BY <2>3, <2>4, <2>5 DEF IsFace
    <3> HIDE DEF side
    <3>2. OneSide(side(1))
      <4>1. 2 \in 1..3 /\ 0 \in 0..1 /\ 1 \in 0..1
        OBVIOUS
      <4> QED  BY <3>1, <4>1, SideIs
    <3> QED  BY <3>1, <3>2
  <2>7. OneSide(side(2)) /\ side(2) = IF n \in {0, 2, 4, 6} THEN {0, 2, 4, 6} ELSE {1, 3, 5, 7}
    <3>1. \/ side(2) = {0, 2, 4, 6} /\ Ar!Side(1, 0) = {0, 2, 4, 6} /\ n \in {0, 2, 4, 6}
          \/ side(2) = {1, 3, 5, 7} /\ Ar!Side(1, 1) = {1, 3, 5, 7} /\ n \in {1, 3, 5, 7}
      BY <2>3, <2>4, <2>5 DEF IsFace
    <3> HIDE DEF side
    <3>2. OneSide(side(2))
      <4>1. 1 \in 1..3 /\ 0 \in 0..1 /\ 1 \in 0..1
        OBVIOUS
      <4> QED  BY <3>1, <4>1, SideIs
    <3> QED  BY <3>1, <3>2
  <2>8. OneSide(side(3)) /\ side(3) = IF n \in {0, 1, 2, 3} THEN {0, 1, 2, 3} ELSE {4, 5, 6, 7}
    <3>1. \/ side(3) = {0, 1, 2, 3} /\ Ar!Side(3, 0) = {0, 1, 2, 3} /\ n \in {0, 1, 2, 3}
          \/ side(3) = {4, 5, 6, 7} /\ Ar!Side(3, 1) = {4, 5, 6, 7} /\ n \in {4, 5, 6, 7}
      BY <2>3, <2>4, <2>5 DEF IsFace
    <3> HIDE DEF side
    <3>2. OneSide(side(3))
      <4>1. 3 \in 1..3 /\ 0 \in 0..1 /\ 1 \in 0..1
        OBVIOUS
      <4> QED  BY <3>1, <4>1, SideIs
    <3> QED  BY <3>1, <3>2
  <2> HIDE DEF side
  <2>9. side(1) \cap side(2) \cap side(3) = {n}
    BY <2>4, <2>6, <2>7, <2>8
  <2>10. Ar!Cardinality(side(1) \cap side(2) \cap side(3)) = 1
    BY <2>9, FS_Singleton, ArCardinality
  <2>11. \A k \in 1..3 : OneSide(side(k))
    <3>1. \A k \in 1..3 : k = 1 \/ k = 2 \/ k = 3
      OBVIOUS
    <3> QED  BY <2>6, <2>7, <2>8, <3>1
  <2> QED  BY <2>10, <2>11 DEF Meet, side, OneSide
<1> QED  BY <1>2, <1>3

\* Steps of the queues.
LEMMA TailOf ==
  ASSUME NEW s \in Seq(Nat), s # <<>>
  PROVE  /\ Head(s) \in Nat /\ Head(s) = s[1] /\ 1 \in DOMAIN s
         /\ Tail(s) \in Seq(Nat) /\ \A i \in DOMAIN Tail(s) : i + 1 \in DOMAIN s /\ Tail(s)[i] = s[i + 1]
         /\ \A x : In(x, s) <=> x = Head(s) \/ In(x, Tail(s))
<1>1. /\ Head(s) \in Nat /\ Head(s) = s[1] /\ 1 \in DOMAIN s
      /\ Tail(s) \in Seq(Nat) /\ \A i \in DOMAIN Tail(s) : i + 1 \in DOMAIN s /\ Tail(s)[i] = s[i + 1]
  OBVIOUS
<1>2. ASSUME NEW x, In(x, s), x # Head(s) PROVE In(x, Tail(s))
  <2>1. PICK i \in DOMAIN s : s[i] = x
    BY <1>2 DEF In
  <2>2. i # 1 /\ i - 1 \in DOMAIN Tail(s) /\ Tail(s)[i - 1] = s[i]
    BY <1>1, <1>2, <2>1
  <2> QED  BY <2>1, <2>2 DEF In
<1>3. ASSUME NEW x, x = Head(s) \/ In(x, Tail(s)) PROVE In(x, s)
  BY <1>1, <1>3 DEF In
<1> QED  BY <1>1, <1>2, <1>3

LEMMA AppendOf ==
  ASSUME NEW s \in Seq(Nat), NEW x \in Nat
  PROVE  /\ Append(s, x) \in Seq(Nat) /\ DOMAIN Append(s, x) = DOMAIN s \cup {Len(s) + 1}
         /\ \A i \in DOMAIN s : Append(s, x)[i] = s[i] /\ i < Len(s) + 1
         /\ Append(s, x)[Len(s) + 1] = x
         /\ \A y : In(y, Append(s, x)) <=> y = x \/ In(y, s)
<1>1. /\ Append(s, x) \in Seq(Nat) /\ DOMAIN Append(s, x) = DOMAIN s \cup {Len(s) + 1}
      /\ \A i \in DOMAIN s : Append(s, x)[i] = s[i] /\ i < Len(s) + 1
      /\ Append(s, x)[Len(s) + 1] = x
  OBVIOUS
<1>2. \A y : In(y, Append(s, x)) <=> y = x \/ In(y, s)
  BY <1>1 DEF In
<1> QED  BY <1>1, <1>2

LEMMA IncreasingTail ==
  ASSUME NEW s \in Seq(Nat), s # <<>>, Increasing(s)
  PROVE  Increasing(Tail(s)) /\ \A i \in DOMAIN Tail(s) : Head(s) < Tail(s)[i]
<1>1. /\ Head(s) = s[1] /\ 1 \in DOMAIN s /\ DOMAIN s \subseteq Nat /\ DOMAIN Tail(s) \subseteq Nat \ {0}
      /\ \A i \in DOMAIN Tail(s) : i + 1 \in DOMAIN s /\ Tail(s)[i] = s[i + 1]
  BY TailOf
<1>2. Increasing(Tail(s))
  <2> SUFFICES ASSUME NEW i \in DOMAIN Tail(s), NEW j \in DOMAIN Tail(s), i < j
               PROVE  Tail(s)[i] < Tail(s)[j]
    BY DEF Increasing
  <2>1. i + 1 < j + 1
    BY <1>1
  <2> QED  BY <1>1, <2>1 DEF Increasing
<1>3. ASSUME NEW i \in DOMAIN Tail(s) PROVE Head(s) < Tail(s)[i]
  <2>1. 1 < i + 1
    BY <1>1
  <2> QED  BY <1>1, <2>1 DEF Increasing
<1> QED  BY <1>2, <1>3

LEMMA IncreasingAppend ==
  ASSUME NEW s \in Seq(Nat), Increasing(s), NEW x \in Nat, \A i \in DOMAIN s : s[i] < x
  PROVE  Increasing(Append(s, x))
<1> DEFINE t == Append(s, x)
<1>1. /\ DOMAIN t = DOMAIN s \cup {Len(s) + 1} /\ \A i \in DOMAIN s : t[i] = s[i] /\ i < Len(s) + 1
      /\ t[Len(s) + 1] = x /\ Len(s) \in Nat /\ DOMAIN s \subseteq Nat
  BY AppendOf
<1> HIDE DEF t
<1>2. ASSUME NEW i \in DOMAIN t, NEW j \in DOMAIN t, i < j PROVE t[i] < t[j]
  <2>1. i \in DOMAIN s
    BY <1>1, <1>2
  <2> QED  BY <1>1, <1>2, <2>1 DEF Increasing
<1> QED  BY <1>2 DEF Increasing, t

LEMMA TakenTypes ==
  ASSUME ArTypeInv
  PROVE  /\ DOMAIN taken = 1..Len(taken) /\ Len(taken) \in Nat
         /\ \A j \in DOMAIN taken : taken[j].image \in Nat /\ taken[j].pose \in Nat /\ taken[j].faces \in AllFaces
<1>1. DOMAIN taken = 1..Len(taken) /\ Len(taken) \in Nat /\ \A j \in DOMAIN taken : taken[j] \in Drawing
  BY DEF ArTypeInv
<1> QED  BY <1>1 DEF Drawing

\* What the number of an image stands for stays, whatever comes after it.
SameShots == \A n \in 1..ImgSent : Ar!Session(n)' = Ar!Session(n) /\ Ar!Stamp(n)' = Ar!Stamp(n)

LEMMA StreamGrows ==
  ASSUME ArTypeInv, StreamInv, Ar!CameraImage
  PROVE  images' \in Seq(Shot) /\ ImgSent' = ImgSent + 1 /\ SameShots /\ StreamInv'
<1> DEFINE n == Len(images)
<1>1. images \in Seq(Shot) /\ n \in Nat /\ ImgSent = n
  BY DEF ArTypeInv, ImgSent
<1>2. PICK e \in Shot :
        /\ images' = Append(images, e)
        /\ n # 0 => \/ e.stamp > Ar!Stamp(n) /\ e.session = Ar!Session(n)
                   \/ e.session = Ar!Session(n) + 1
  <2>1. PICK d \in 1..MaxStamp :
          \/ images = <<>> /\ images' = <<[stamp |-> d, session |-> 1]>>
          \/ /\ images # <<>> /\ d > Ar!Stamp(n)
             /\ images' = Append(images, [stamp |-> d, session |-> Ar!Session(n)])
          \/ images # <<>> /\ images' = Append(images, [stamp |-> d, session |-> Ar!Session(n) + 1])
    BY DEF Ar!CameraImage
  <2>2. d \in Nat
    OBVIOUS
  <2>3. CASE images = <<>>
    <3> DEFINE e == [stamp |-> d, session |-> 1]
    <3>1. images' = Append(images, e) /\ n = 0
      BY <2>1, <2>3
    <3>2. e \in Shot
      BY <2>2 DEF Shot
    <3> HIDE DEF e
    <3> QED  BY <3>1, <3>2
  <2>4. CASE images # <<>>
    <3>1. n # 0 /\ images[n] \in Shot
      BY <1>1, <2>4
    <3>2. Ar!Session(n) \in Nat
      BY <3>1 DEF Shot, Ar!Session
    <3>3. CASE d > Ar!Stamp(n) /\ images' = Append(images, [stamp |-> d, session |-> Ar!Session(n)])
      <4> DEFINE e == [stamp |-> d, session |-> Ar!Session(n)]
      <4>1. e \in Shot /\ e.stamp = d /\ e.session = Ar!Session(n) /\ images' = Append(images, e)
        BY <2>2, <3>2, <3>3 DEF Shot
      <4> HIDE DEF e
      <4> QED  BY <3>3, <4>1
    <3>4. CASE images' = Append(images, [stamp |-> d, session |-> Ar!Session(n) + 1])
      <4> DEFINE e == [stamp |-> d, session |-> Ar!Session(n) + 1]
      <4>1. e \in Shot /\ e.session = Ar!Session(n) + 1 /\ images' = Append(images, e)
        BY <2>2, <3>2, <3>4 DEF Shot
      <4> HIDE DEF e
      <4> QED  BY <4>1
    <3> QED  BY <2>1, <2>4, <3>3, <3>4
  <2> QED  BY <2>3, <2>4
<1>3. /\ images' \in Seq(Shot) /\ Len(images') = n + 1 /\ images'[n + 1] = e
      /\ \A i \in 1..n : images'[i] = images[i] /\ images[i] \in Shot
  BY <1>1, <1>2
<1>4. ImgSent' = n + 1
  BY <1>3 DEF ImgSent
<1>5. \A i \in 1..n : Ar!Session(i)' = Ar!Session(i) /\ Ar!Stamp(i)' = Ar!Stamp(i)
  BY <1>3 DEF Ar!Session, Ar!Stamp
<1>6. /\ \A j : j = n + 1 => Ar!Session(j)' = e.session /\ Ar!Stamp(j)' = e.stamp
      /\ e.session \in Nat /\ e.stamp \in Nat
  <2>1. e.session \in Nat /\ e.stamp \in Nat
    BY DEF Shot
  <2>2. images'[n + 1] = e
    BY <1>3
  <2> QED  BY <2>1, <2>2 DEF Ar!Session, Ar!Stamp
<1>7. \A i \in 1..n : Ar!Session(i) \in Nat /\ Ar!Stamp(i) \in Nat
  BY <1>3 DEF Ar!Session, Ar!Stamp, Shot
<1> HIDE DEF n
<1>8. ASSUME NEW i \in 1..(n + 1), NEW j \in 1..(n + 1), i < j
      PROVE  /\ Ar!Session(i)' <= Ar!Session(j)'
             /\ Ar!Session(i)' = Ar!Session(j)' => Ar!Stamp(i)' < Ar!Stamp(j)'
  <2>1. i \in 1..n /\ (j \in 1..n \/ j = n + 1)
    BY <1>1, <1>8
  <2>2. CASE j \in 1..n
    BY <1>1, <1>5, <1>8, <2>1, <2>2 DEF StreamInv
  <2>3. CASE j = n + 1
    <3>1. n \in 1..n /\ n # 0 /\ (i = n \/ i < n)
      BY <1>1, <2>1
    <3>2. Ar!Session(i) <= Ar!Session(n) /\ (Ar!Session(i) = Ar!Session(n) => Ar!Stamp(i) <= Ar!Stamp(n))
      <4>1. CASE i = n
        BY <1>7, <3>1, <4>1
      <4>2. CASE i < n
        BY <1>1, <1>7, <2>1, <3>1, <4>2 DEF StreamInv
      <4> QED  BY <3>1, <4>1, <4>2
    <3>3. n # 0 => \/ e.stamp > Ar!Stamp(n) /\ e.session = Ar!Session(n)
                  \/ e.session = Ar!Session(n) + 1
      BY <1>2
    <3>4. Ar!Session(i)' = Ar!Session(i) /\ Ar!Stamp(i)' = Ar!Stamp(i)
      BY <1>5, <2>1
    <3>5. Ar!Session(j)' = e.session /\ Ar!Stamp(j)' = e.stamp /\ e.session \in Nat /\ e.stamp \in Nat
      BY <1>6, <2>3
    <3>6. Ar!Session(i) \in Nat /\ Ar!Stamp(i) \in Nat /\ Ar!Session(n) \in Nat /\ Ar!Stamp(n) \in Nat
      BY <1>7, <2>1, <3>1
    <3> QED  BY <3>1, <3>2, <3>3, <3>4, <3>5, <3>6
  <2> QED  BY <2>1, <2>2, <2>3
<1>9. StreamInv'
  BY <1>4, <1>8 DEF StreamInv
<1> QED  BY <1>1, <1>3, <1>4, <1>5, <1>9 DEF SameShots

LEMMA SameStream ==
  ASSUME UNCHANGED images
  PROVE  /\ ImgSent' = ImgSent /\ SameShots /\ (StreamInv => StreamInv')
         /\ UNCHANGED thrown => \A n : Ar!ThrownByOldPose(n)' <=> Ar!ThrownByOldPose(n)
BY DEF ImgSent, SameShots, StreamInv, Ar!Session, Ar!Stamp, Ar!ThrownByOldPose

\* An earlier image whose stamp is not lower is of an earlier session.
LEMMA AcrossJump ==
  ASSUME ArInv, NEW m \in 1..ImgSent, NEW n \in 1..ImgSent, m < n, ~ (Ar!Stamp(m) < Ar!Stamp(n))
  PROVE  Ar!Session(m) < Ar!Session(n)
<1>1. images[m] \in Shot /\ images[n] \in Shot
  BY DEF ArInv, ArTypeInv, ImgSent
<1>2. Ar!Session(m) \in Nat /\ Ar!Session(n) \in Nat
  BY <1>1 DEF Ar!Session, Shot
<1> QED  BY <1>2 DEF ArInv, StreamInv

\* The histories keep what they say of an image.
LEMMA HistoriesKept ==
  ASSUME ArInv, SameShots, thrown \subseteq thrown', NEW n
  PROVE  Ar!ThrownByOldPose(n) => Ar!ThrownByOldPose(n)'
<1> SUFFICES ASSUME NEW u \in thrown, u[1] = n, Ar!Session(u[2]) < Ar!Session(n)
             PROVE  Ar!ThrownByOldPose(n)'
  BY DEF Ar!ThrownByOldPose
<1>1. u[1] \in 1..ImgSent /\ u[2] \in 1..ImgSent /\ u \in thrown'
  BY DEF ArInv, ArTypeInv
<1>2. Ar!Session(u[2])' < Ar!Session(n)'
  BY <1>1 DEF SameShots
<1> QED  BY <1>1, <1>2 DEF Ar!ThrownByOldPose

LEMMA TakenNumbers ==
  ASSUME ArInv, NEW j \in DOMAIN taken
  PROVE  taken[j].image \in 1..ImgSent /\ taken[j].pose \in 1..ImgSent
<1>1. taken[j].image \in Nat /\ taken[j].pose \in Nat /\ ArTypeInv
  BY TakenTypes DEF ArInv
<1>2. taken[j].pose <= poseSent /\ taken[j].image <= ImgSent /\ taken[j].image # 0 /\ taken[j].pose # 0
  BY DEF ArInv, NewerInv, NumberedInv
<1> QED  BY <1>1, <1>2 DEF ArTypeInv

\* What was taken stays as it was.
LEMMA TakenKept ==
  ASSUME ArInv, SameShots, thrown \subseteq thrown', dropped \subseteq dropped', taken' = taken
  PROVE  TakenInOrder' /\ OwnImageGone'
<1>1. TakenInOrder'
  BY DEF ArInv, TakenInOrder
<1>2. ASSUME NEW i \in DOMAIN taken
      PROVE  /\ taken[i].image < taken[i].pose => Ar!Session(taken[i].image)' < Ar!Session(taken[i].pose)'
             /\ taken[i].pose < taken[i].image =>
                  \/ taken[i].pose \in dropped' \/ \E k \in 1..(i - 1) : taken[k].image = taken[i].pose
                  \/ Ar!ThrownByOldPose(taken[i].pose)'
  <2>1. taken[i].image \in 1..ImgSent /\ taken[i].pose \in 1..ImgSent
    BY TakenNumbers
  <2>2. taken[i].image < taken[i].pose => Ar!Session(taken[i].image)' < Ar!Session(taken[i].pose)'
    BY <2>1 DEF ArInv, OwnImageGone, SameShots
  <2>3. taken[i].pose < taken[i].image =>
          \/ taken[i].pose \in dropped \/ \E k \in 1..(i - 1) : taken[k].image = taken[i].pose
          \/ Ar!ThrownByOldPose(taken[i].pose)
    BY DEF ArInv, OwnImageGone
  <2>4. Ar!ThrownByOldPose(taken[i].pose) => Ar!ThrownByOldPose(taken[i].pose)'
    BY HistoriesKept
  <2> QED  BY <2>2, <2>3, <2>4
<1>3. \A n : Ar!Session(n)' = images'[n].session
  BY DEF Ar!Session
<1>4. OwnImageGone'
  BY <1>2 DEF OwnImageGone, Ar!Session, Ar!ThrownByOldPose
<1> QED  BY <1>1, <1>4

LEMMA CameraImageStep ==
  ASSUME ArInv, Ar!CameraImage
  PROVE  ArInv'
<1> DEFINE x == ImgSent + 1
<1>1. /\ ImgSent' = x /\ images' \in Seq(Shot) /\ SameShots /\ StreamInv' /\ imgTopic' = Append(imgTopic, x)
      /\ UNCHANGED <<poseSent, poseTopic, img_buf, taken, dropped, thrown>>
  BY StreamGrows DEF Ar!CameraImage, ArInv, ImgSent
<1>2. ArTypeInv /\ x \in Nat /\ ImgSent \in Nat /\ poseSent \in Nat /\ poseSent <= ImgSent /\ imgTopic \in Seq(Nat)
  BY DEF ArInv, ArTypeInv
<1>3. x > ImgSent
  BY <1>2
<1> HIDE DEF x
<1>4. /\ Append(imgTopic, x) \in Seq(Nat) /\ DOMAIN Append(imgTopic, x) = DOMAIN imgTopic \cup {Len(imgTopic) + 1}
      /\ \A i \in DOMAIN imgTopic : Append(imgTopic, x)[i] = imgTopic[i]
      /\ Append(imgTopic, x)[Len(imgTopic) + 1] = x
      /\ \A y : In(y, Append(imgTopic, x)) <=> y = x \/ In(y, imgTopic)
  BY <1>2, AppendOf
<1>5. ArTypeInv'
  BY <1>1, <1>2, <1>3, <1>4 DEF ArTypeInv
<1>6. /\ Increasing(imgTopic) /\ Increasing(img_buf)
      /\ \A i \in DOMAIN imgTopic : imgTopic[i] \in Nat /\ imgTopic[i] <= ImgSent
      /\ \A i \in DOMAIN imgTopic : \A j \in DOMAIN img_buf : img_buf[j] < imgTopic[i]
      /\ \A i \in DOMAIN img_buf : img_buf[i] \in Nat /\ img_buf[i] <= ImgSent
  BY <1>2 DEF ArInv, ImagesInv, ArTypeInv
<1>7. Increasing(Append(imgTopic, x))
  <2>1. \A i \in DOMAIN imgTopic : imgTopic[i] < x
    BY <1>2, <1>3, <1>6
  <2> QED  BY <1>2, <1>6, <2>1, IncreasingAppend
<1>8. ImagesInv'
  BY <1>1, <1>2, <1>3, <1>4, <1>6, <1>7 DEF ImagesInv
<1>9. \A j \in DOMAIN taken : taken[j].image \in Nat /\ taken[j].pose \in Nat
  BY TakenTypes DEF ArInv
<1>10. NewerInv'
  BY <1>1, <1>2, <1>3, <1>4, <1>9 DEF ArInv, NewerInv
<1>11. ThereInv'
  <2> SUFFICES ASSUME NEW s \in Nat, (poseSent < s /\ s <= ImgSent') \/ In(s, poseTopic) PROVE Somewhere(s)'
    BY <1>1 DEF ThereInv
  <2>1. CASE s = x
    BY <1>1, <1>4, <2>1 DEF Somewhere
  <2>2. CASE s # x
    <3>1. (poseSent < s /\ s <= ImgSent) \/ In(s, poseTopic)
      BY <1>1, <1>2, <2>2 DEF x
    <3>2. Somewhere(s)
      BY <3>1 DEF ArInv, ThereInv
    <3>3. Ar!ThrownByOldPose(s) => Ar!ThrownByOldPose(s)'
      BY <1>1, HistoriesKept
    <3> QED  BY <1>1, <1>4, <3>2, <3>3 DEF Somewhere
  <2> QED  BY <2>1, <2>2
<1>12. TakenInOrder' /\ OwnImageGone'
  BY <1>1, TakenKept
<1>13. NumberedInv'
  BY <1>1, <1>2, <1>3, <1>4 DEF ArInv, NumberedInv
<1> QED  BY <1>1, <1>5, <1>8, <1>10, <1>11, <1>12, <1>13 DEF ArInv

LEMMA CameraPoseStep ==
  ASSUME ArInv, Ar!CameraPose
  PROVE  ArInv'
<1>1. PICK x \in (poseSent + 1)..ImgSent :
        /\ poseSent' = x /\ poseTopic' = Append(poseTopic, x)
        /\ UNCHANGED <<images, imgTopic, img_buf, taken, dropped, thrown>>
  BY DEF Ar!CameraPose, ImgSent
<1>0. ImgSent' = ImgSent /\ SameShots /\ StreamInv' /\ \A n : Ar!ThrownByOldPose(n)' <=> Ar!ThrownByOldPose(n)
  BY <1>1, SameStream DEF ArInv
<1>2. ImgSent \in Nat /\ poseSent \in Nat /\ poseTopic \in Seq(Nat)
  BY DEF ArInv, ArTypeInv
<1>3. x \in Nat /\ poseSent < x /\ x <= ImgSent
  BY <1>1, <1>2
<1>4. /\ Append(poseTopic, x) \in Seq(Nat) /\ DOMAIN Append(poseTopic, x) = DOMAIN poseTopic \cup {Len(poseTopic) + 1}
      /\ \A i \in DOMAIN poseTopic : Append(poseTopic, x)[i] = poseTopic[i]
      /\ Append(poseTopic, x)[Len(poseTopic) + 1] = x
      /\ \A y : In(y, Append(poseTopic, x)) <=> y = x \/ In(y, poseTopic)
  BY <1>2, <1>3, AppendOf
<1>5. ArTypeInv'
  BY <1>0, <1>1, <1>2, <1>3, <1>4 DEF ArInv, ArTypeInv
<1>6. ImagesInv'
  BY <1>0, <1>1 DEF ArInv, ImagesInv
<1>7. \A j \in DOMAIN taken : taken[j].image \in Nat /\ taken[j].pose \in Nat
  BY TakenTypes DEF ArInv
<1>8. \A i \in DOMAIN poseTopic : poseTopic[i] \in Nat /\ poseTopic[i] <= poseSent
  BY <1>2 DEF ArInv, NewerInv
<1>9. NewerInv'
  <2>1. Increasing(Append(poseTopic, x))
    <3>1. Increasing(poseTopic) /\ \A i \in DOMAIN poseTopic : poseTopic[i] < x
      BY <1>2, <1>3, <1>8 DEF ArInv, NewerInv
    <3> QED  BY <1>2, <1>3, <3>1, IncreasingAppend
  <2>2. \A i \in DOMAIN poseTopic' : poseTopic'[i] <= x /\ \A j \in DOMAIN taken : taken[j].pose < poseTopic'[i]
    BY <1>1, <1>2, <1>3, <1>4, <1>7, <1>8 DEF ArInv, NewerInv
  <2>3. \A j \in DOMAIN taken :
           /\ taken[j].pose <= x /\ taken[j].image <= ImgSent
           /\ \A i \in DOMAIN img_buf : taken[j].image < img_buf[i]
           /\ \A i \in DOMAIN imgTopic : taken[j].image < imgTopic[i]
    BY <1>2, <1>3, <1>7 DEF ArInv, NewerInv
  <2> QED  BY <1>0, <1>1, <2>1, <2>2, <2>3 DEF NewerInv
<1>10. ThereInv'
  <2> SUFFICES ASSUME NEW s \in Nat, (x < s /\ s <= ImgSent) \/ In(s, poseTopic') PROVE Somewhere(s)'
    BY <1>0, <1>1 DEF ThereInv
  <2>1. (poseSent < s /\ s <= ImgSent) \/ In(s, poseTopic)
    BY <1>1, <1>2, <1>3, <1>4
  <2>2. Somewhere(s)
    BY <2>1 DEF ArInv, ThereInv
  <2> QED  BY <1>0, <1>1, <2>2 DEF Somewhere
<1>11. TakenInOrder' /\ OwnImageGone'
  BY <1>0, <1>1, TakenKept
<1>12. NumberedInv'
  BY <1>1, <1>2, <1>3, <1>4 DEF ArInv, NumberedInv
<1> QED  BY <1>0, <1>5, <1>6, <1>9, <1>10, <1>11, <1>12 DEF ArInv

LEMMA ImgCallbackStep ==
  ASSUME ArInv, Ar!ImgCallback
  PROVE  ArInv'
<1> DEFINE x == Head(imgTopic)
           rest == Tail(imgTopic)
<1>1. /\ imgTopic # <<>> /\ imgTopic' = rest
      /\ \/ img_buf' = Append(img_buf, x) /\ dropped' = dropped
         \/ dropped' = dropped \cup {x} /\ img_buf' = img_buf
      /\ UNCHANGED <<images, poseSent, poseTopic, taken, thrown>>
  BY DEF Ar!ImgCallback
<1>0. ImgSent' = ImgSent /\ SameShots /\ StreamInv' /\ \A n : Ar!ThrownByOldPose(n)' <=> Ar!ThrownByOldPose(n)
  BY <1>1, SameStream DEF ArInv
<1>2. ArTypeInv /\ imgTopic \in Seq(Nat) /\ img_buf \in Seq(Nat) /\ ImgSent \in Nat
  BY DEF ArInv, ArTypeInv
<1>3. /\ x \in Nat /\ x = imgTopic[1] /\ 1 \in DOMAIN imgTopic
      /\ rest \in Seq(Nat) /\ \A i \in DOMAIN rest : i + 1 \in DOMAIN imgTopic /\ rest[i] = imgTopic[i + 1]
      /\ \A y : In(y, imgTopic) <=> y = x \/ In(y, rest)
  BY <1>1, <1>2, TailOf
<1>4. Increasing(rest) /\ \A i \in DOMAIN rest : x < rest[i]
  BY <1>1, <1>2, IncreasingTail DEF ArInv, ImagesInv
<1> HIDE DEF x, rest
<1>5. /\ Append(img_buf, x) \in Seq(Nat) /\ DOMAIN Append(img_buf, x) = DOMAIN img_buf \cup {Len(img_buf) + 1}
      /\ \A i \in DOMAIN img_buf : Append(img_buf, x)[i] = img_buf[i]
      /\ Append(img_buf, x)[Len(img_buf) + 1] = x
      /\ \A y : In(y, Append(img_buf, x)) <=> y = x \/ In(y, img_buf)
  BY <1>2, <1>3, AppendOf
<1>6. /\ Increasing(img_buf) /\ x <= ImgSent
      /\ \A i \in DOMAIN rest : rest[i] <= ImgSent /\ \A j \in DOMAIN img_buf : img_buf[j] < rest[i]
      /\ \A j \in DOMAIN img_buf : img_buf[j] <= ImgSent /\ img_buf[j] < x
  BY <1>3 DEF ArInv, ImagesInv
<1>7. Increasing(Append(img_buf, x))
  BY <1>2, <1>3, <1>6, IncreasingAppend
<1>8. /\ img_buf' \in Seq(Nat) /\ Increasing(img_buf')
      /\ \A j \in DOMAIN img_buf' : img_buf'[j] = x \/ \E k \in DOMAIN img_buf : img_buf'[j] = img_buf[k]
  BY <1>1, <1>2, <1>5, <1>6, <1>7
<1>9. ArTypeInv'
  BY <1>0, <1>1, <1>2, <1>3, <1>8 DEF ArTypeInv
<1>10. ImagesInv'
  <2>1. \A j \in DOMAIN img_buf' : img_buf'[j] <= ImgSent /\ \A i \in DOMAIN rest : img_buf'[j] < rest[i]
    BY <1>4, <1>6, <1>8
  <2> QED  BY <1>0, <1>1, <1>4, <1>6, <1>8, <2>1 DEF ImagesInv
<1>11. \A j \in DOMAIN taken : \A y : In(y, imgTopic) \/ In(y, img_buf) => taken[j].image < y
  BY DEF ArInv, NewerInv, In
<1>12. NewerInv'
  <2>1. \A j \in DOMAIN taken : \A i \in DOMAIN img_buf' : taken[j].image < img_buf'[i]
    BY <1>3, <1>8, <1>11 DEF In
  <2>2. \A j \in DOMAIN taken : \A i \in DOMAIN rest : taken[j].image < rest[i]
    BY <1>3, <1>11 DEF In
  <2> QED  BY <1>0, <1>1, <2>1, <2>2 DEF ArInv, NewerInv
<1>13. ThereInv'
  <2> SUFFICES ASSUME NEW s \in Nat, (poseSent < s /\ s <= ImgSent) \/ In(s, poseTopic) PROVE Somewhere(s)'
    BY <1>0, <1>1 DEF ThereInv
  <2>1. Somewhere(s)
    BY DEF ArInv, ThereInv
  <2> QED  BY <1>0, <1>1, <1>3, <1>5, <2>1 DEF Somewhere
<1>14. TakenInOrder' /\ OwnImageGone'
  BY <1>0, <1>1, TakenKept
<1>15. NumberedInv'
  <2>1. \A y : In(y, imgTopic') \/ In(y, img_buf') => In(y, imgTopic) \/ In(y, img_buf)
    BY <1>1, <1>3, <1>5
  <2> QED  BY <1>1, <2>1 DEF ArInv, NumberedInv
<1> QED  BY <1>0, <1>9, <1>10, <1>12, <1>13, <1>14, <1>15 DEF ArInv

\* The first image the loop stops at.
LEMMA FirstStop ==
  ASSUME NEW buf \in Seq(Nat), NEW pose, Ar!Stops(buf, pose) # {}
  PROVE  LET k == Ar!Min(Ar!Stops(buf, pose))
         IN  /\ k \in DOMAIN buf /\ Ar!Stamp(buf[k]) >= Ar!Stamp(pose)
             /\ \A j \in DOMAIN buf : j < k => ~ (Ar!Stamp(buf[j]) >= Ar!Stamp(pose))
<1> DEFINE S == Ar!Stops(buf, pose)
<1>1. /\ S \subseteq DOMAIN buf /\ DOMAIN buf \subseteq Nat
      /\ \A k \in DOMAIN buf : k \in S <=> Ar!Stamp(buf[k]) >= Ar!Stamp(pose)
  BY DEF Ar!Stops, Ar!NotBefore
<1>2. Ar!Min(S) = Bench!Min(S)
  BY DEF Ar!Min, Bench!Min
<1>3. S # {}
  OBVIOUS
<1> HIDE DEF S
<1>4. S \subseteq Nat
  BY <1>1
<1>5. Ar!Min(S) \in S /\ \A l \in S : Ar!Min(S) <= l
  BY <1>2, <1>3, <1>4, LeastIsMin
<1>6. \A j \in DOMAIN buf : j < Ar!Min(S) => j \notin S
  BY <1>1, <1>5
<1> QED  BY <1>1, <1>5, <1>6 DEF S

\* A pose is taken from its topic.
LEMMA PoseTopicStep ==
  ASSUME ArInv, poseTopic # <<>>, poseTopic' = Tail(poseTopic)
  PROVE  /\ Head(poseTopic) \in Nat /\ Head(poseTopic) <= poseSent /\ In(Head(poseTopic), poseTopic)
         /\ poseTopic' \in Seq(Nat) /\ Increasing(poseTopic')
         /\ \A i \in DOMAIN poseTopic' : /\ poseTopic'[i] <= poseSent /\ Head(poseTopic) < poseTopic'[i]
                                         /\ \A j \in DOMAIN taken : taken[j].pose < poseTopic'[i]
         /\ \A j \in DOMAIN taken : taken[j].pose < Head(poseTopic)
         /\ \A y : In(y, poseTopic') => In(y, poseTopic) /\ Head(poseTopic) < y
<1> DEFINE p == Head(poseTopic)
           rest == Tail(poseTopic)
<1>1. poseTopic \in Seq(Nat) /\ Increasing(poseTopic)
  BY DEF ArInv, ArTypeInv, NewerInv
<1>2. /\ p \in Nat /\ p = poseTopic[1] /\ 1 \in DOMAIN poseTopic
      /\ rest \in Seq(Nat) /\ \A i \in DOMAIN rest : i + 1 \in DOMAIN poseTopic /\ rest[i] = poseTopic[i + 1]
      /\ \A y : In(y, poseTopic) <=> y = p \/ In(y, rest)
  BY <1>1, TailOf
<1>3. Increasing(rest) /\ \A i \in DOMAIN rest : p < rest[i]
  BY <1>1, IncreasingTail
<1> HIDE DEF p, rest
<1>4. p <= poseSent /\ \A j \in DOMAIN taken : taken[j].pose < p
  BY <1>2 DEF ArInv, NewerInv
<1>5. \A i \in DOMAIN rest : rest[i] <= poseSent /\ \A j \in DOMAIN taken : taken[j].pose < rest[i]
  BY <1>2 DEF ArInv, NewerInv
<1>6. poseTopic' = rest
  BY DEF rest
<1>7. \A y : In(y, rest) => In(y, poseTopic) /\ p < y
  BY <1>2, <1>3 DEF In
<1>8. In(p, poseTopic)
  BY <1>2
<1> QED  BY <1>2, <1>3, <1>4, <1>5, <1>6, <1>7, <1>8 DEF p

LEMMA BufferNumbers ==
  ASSUME ArInv, NEW j \in DOMAIN img_buf
  PROVE  img_buf[j] \in 1..ImgSent
<1>1. img_buf[j] \in Nat /\ ImgSent \in Nat
  BY DEF ArInv, ArTypeInv
<1>2. In(img_buf[j], img_buf) /\ img_buf[j] <= ImgSent
  BY DEF ArInv, ImagesInv, In
<1>3. img_buf[j] # 0
  BY <1>2 DEF ArInv, NumberedInv
<1> QED  BY <1>1, <1>2, <1>3

\* An image of an earlier session, or one that the pose is not older than.
LEMMA NotAcrossJump ==
  ASSUME ArInv, NEW m \in 1..ImgSent, NEW n \in 1..ImgSent, m < n
  PROVE  /\ Ar!Stamp(m) >= Ar!Stamp(n) => Ar!Session(m) < Ar!Session(n)
         /\ ~ (Ar!Stamp(n) >= Ar!Stamp(m)) => Ar!Session(m) < Ar!Session(n)
<1>1. images[m] \in Shot /\ images[n] \in Shot
  BY DEF ArInv, ArTypeInv, ImgSent
<1>2. Ar!Stamp(m) \in Nat /\ Ar!Stamp(n) \in Nat
  BY <1>1 DEF Ar!Stamp, Shot
<1>3. ~ (Ar!Stamp(m) < Ar!Stamp(n)) => Ar!Session(m) < Ar!Session(n)
  BY AcrossJump
<1> QED  BY <1>2, <1>3

\* The images a pose throws: the later ones are of a later session.
LEMMA ThrownStep ==
  ASSUME ArInv, UNCHANGED images, NEW p \in 1..ImgSent, NEW J \in SUBSET DOMAIN img_buf,
         \A j \in J : ~ (Ar!Stamp(img_buf[j]) >= Ar!Stamp(p)),
         thrown' = thrown \cup {<<img_buf[j], p>> : j \in J}
  PROVE  /\ thrown' \subseteq (1..ImgSent) \X (1..ImgSent)
         /\ \A j \in J : \A s : s = img_buf[j] /\ p < s => Ar!ThrownByOldPose(s)'
<1>1. \A j \in J : img_buf[j] \in 1..ImgSent
  BY BufferNumbers
<1>2. thrown \subseteq (1..ImgSent) \X (1..ImgSent)
  BY DEF ArInv, ArTypeInv
<1>3. thrown' \subseteq (1..ImgSent) \X (1..ImgSent)
  BY <1>1, <1>2
<1>4. ASSUME NEW j \in J, NEW s, s = img_buf[j], p < s PROVE Ar!ThrownByOldPose(s)'
  <2> DEFINE u == <<s, p>>
  <2>1. s \in 1..ImgSent
    BY <1>1, <1>4
  <2>2. ~ (Ar!Stamp(s) >= Ar!Stamp(p))
    BY <1>4
  <2>3. Ar!Session(p) < Ar!Session(s)
    BY <1>4, <2>1, <2>2, NotAcrossJump
  <2>4. Ar!Session(p)' < Ar!Session(s)'
    BY <2>3 DEF Ar!Session
  <2>5. u \in thrown' /\ u[1] = s /\ u[2] = p
    BY <1>4
  <2> HIDE DEF u
  <2> QED  BY <2>4, <2>5 DEF Ar!ThrownByOldPose
<1> QED  BY <1>3, <1>4

\* A pose that takes no image: the images it throws are older, or of a later session.
LEMMA PoseAloneStep ==
  ASSUME ArInv, poseTopic # <<>>, poseTopic' = Tail(poseTopic),
         UNCHANGED <<images, poseSent, imgTopic, taken, dropped>>,
         \/ img_buf' = img_buf /\ thrown' = thrown
         \/ /\ img_buf' = <<>>
            /\ \A j \in DOMAIN img_buf : ~ (Ar!Stamp(img_buf[j]) >= Ar!Stamp(Head(poseTopic)))
            /\ thrown' = thrown \cup {<<img_buf[j], Head(poseTopic)>> : j \in DOMAIN img_buf}
  PROVE  ArInv'
<1> DEFINE p == Head(poseTopic)
<1>1. /\ p \in Nat /\ p <= poseSent /\ In(p, poseTopic)
      /\ poseTopic' \in Seq(Nat) /\ Increasing(poseTopic')
      /\ \A i \in DOMAIN poseTopic' : poseTopic'[i] <= poseSent /\ \A j \in DOMAIN taken : taken[j].pose < poseTopic'[i]
      /\ \A y : In(y, poseTopic') => In(y, poseTopic) /\ p < y
  BY PoseTopicStep
<1> HIDE DEF p
<1>2. img_buf \in Seq(Nat) /\ poseSent \in Nat /\ ImgSent \in Nat /\ poseSent <= ImgSent
  BY DEF ArInv, ArTypeInv
<1>9. ImgSent' = ImgSent /\ SameShots /\ StreamInv'
  BY SameStream DEF ArInv
<1>10. p \in 1..ImgSent
  <2>1. p # 0
    BY <1>1 DEF ArInv, NumberedInv
  <2>2. p \in Nat /\ p <= poseSent
    BY <1>1
  <2>3. poseSent \in Nat /\ ImgSent \in Nat /\ poseSent <= ImgSent
    BY <1>2
  <2> QED  BY <2>1, <2>2, <2>3
<1>11. /\ thrown \subseteq thrown' /\ thrown' \subseteq (1..ImgSent) \X (1..ImgSent)
       /\ \A s : p < s /\ In(s, img_buf) => In(s, img_buf') \/ Ar!ThrownByOldPose(s)'
  <2>1. CASE img_buf' = img_buf /\ thrown' = thrown
    BY <2>1 DEF ArInv, ArTypeInv, In
  <2>2. CASE /\ img_buf' = <<>>
             /\ \A j \in DOMAIN img_buf : ~ (Ar!Stamp(img_buf[j]) >= Ar!Stamp(p))
             /\ thrown' = thrown \cup {<<img_buf[j], p>> : j \in DOMAIN img_buf}
    <3>1. /\ thrown' \subseteq (1..ImgSent) \X (1..ImgSent)
          /\ \A j \in DOMAIN img_buf : \A s : s = img_buf[j] /\ p < s => Ar!ThrownByOldPose(s)'
      BY <1>10, <2>2, ThrownStep
    <3> QED  BY <2>2, <3>1 DEF In
  <2> QED  BY <2>1, <2>2 DEF p
<1>3. ArTypeInv'
  <2>1. img_buf' = img_buf \/ img_buf' = <<>>
    OBVIOUS
  <2>3. img_buf' \in Seq(Nat)
    <3>1. <<>> \in Seq(Nat) /\ img_buf \in Seq(Nat)
      BY <1>2
    <3>2. CASE img_buf' = img_buf
      BY <3>1, <3>2
    <3>3. CASE img_buf' = <<>>
      BY <3>1, <3>3
    <3> QED  BY <2>1, <3>2, <3>3
  <2>2. UNCHANGED <<images, poseSent, imgTopic, taken>>
    OBVIOUS
  <2> QED  BY <1>1, <1>2, <1>9, <1>11, <2>2, <2>3 DEF ArInv, ArTypeInv
<1>4. Increasing(img_buf') /\ \A j \in DOMAIN img_buf' : j \in DOMAIN img_buf /\ img_buf'[j] = img_buf[j]
  BY DEF ArInv, ImagesInv, Increasing
<1>5. ImagesInv'
  BY <1>4, <1>9 DEF ArInv, ImagesInv
<1>6. NewerInv'
  BY <1>1, <1>4, <1>9 DEF ArInv, NewerInv
<1>7. ThereInv'
  <2> SUFFICES ASSUME NEW s \in Nat, (poseSent < s /\ s <= ImgSent) \/ In(s, poseTopic') PROVE Somewhere(s)'
    BY <1>9 DEF ThereInv
  <2>1. p < s
    BY <1>1, <1>2
  <2>2. Somewhere(s)
    BY <1>1 DEF ArInv, ThereInv
  <2>3. In(s, img_buf) => In(s, img_buf') \/ Ar!ThrownByOldPose(s)'
    BY <1>11, <2>1
  <2>4. Ar!ThrownByOldPose(s) => Ar!ThrownByOldPose(s)'
    BY <1>9, <1>11, HistoriesKept
  <2> QED  BY <2>2, <2>3, <2>4 DEF Somewhere
<1>8. TakenInOrder' /\ OwnImageGone'
  BY <1>9, <1>11, TakenKept
<1>12. NumberedInv'
  BY <1>1, <1>4 DEF ArInv, NumberedInv, In
<1> QED  BY <1>3, <1>5, <1>6, <1>7, <1>8, <1>9, <1>12 DEF ArInv

\* A pose that takes the first image not older than it.
LEMMA PoseTakesStep ==
  ASSUME ArInv, poseTopic # <<>>, poseTopic' = Tail(poseTopic),
         UNCHANGED <<images, poseSent, imgTopic, dropped>>,
         NEW k \in DOMAIN img_buf, Ar!Stamp(img_buf[k]) >= Ar!Stamp(Head(poseTopic)),
         \A j \in DOMAIN img_buf : j < k => ~ (Ar!Stamp(img_buf[j]) >= Ar!Stamp(Head(poseTopic))),
         thrown' = thrown \cup {<<img_buf[j], Head(poseTopic)>> : j \in 1..(k - 1)},
         img_buf' = SubSeq(img_buf, k + 1, Len(img_buf)), NEW faces \in AllFaces,
         taken' = Append(taken, [image |-> img_buf[k], pose |-> Head(poseTopic), faces |-> faces])
  PROVE  ArInv'
<1> DEFINE p == Head(poseTopic)
           x == img_buf[k]
           n == Len(taken)
<1>1. /\ p \in Nat /\ p <= poseSent /\ In(p, poseTopic)
      /\ poseTopic' \in Seq(Nat) /\ Increasing(poseTopic')
      /\ \A i \in DOMAIN poseTopic' : /\ poseTopic'[i] <= poseSent /\ p < poseTopic'[i]
                                      /\ \A j \in DOMAIN taken : taken[j].pose < poseTopic'[i]
      /\ \A j \in DOMAIN taken : taken[j].pose < p
      /\ \A y : In(y, poseTopic') => In(y, poseTopic) /\ p < y
  BY PoseTopicStep
<1>2. /\ img_buf \in Seq(Nat) /\ x \in Nat /\ poseSent \in Nat /\ ImgSent \in Nat /\ poseSent <= ImgSent
      /\ taken \in Seq(Drawing)
  BY SMTT(30) DEF ArInv, ArTypeInv
<1>3. /\ Ar!Stamp(x) >= Ar!Stamp(p)
      /\ \A j \in DOMAIN img_buf : j < k => ~ (Ar!Stamp(img_buf[j]) >= Ar!Stamp(p))
  OBVIOUS
<1>19. ImgSent' = ImgSent /\ SameShots /\ StreamInv'
  BY SameStream DEF ArInv
<1>20. thrown' = thrown \cup {<<img_buf[j], p>> : j \in 1..(k - 1)}
  OBVIOUS
<1> HIDE DEF p
<1>21. p \in 1..ImgSent
  <2>1. p # 0
    BY <1>1 DEF ArInv, NumberedInv
  <2>2. p \in Nat /\ p <= poseSent
    BY <1>1
  <2>3. poseSent \in Nat /\ ImgSent \in Nat /\ poseSent <= ImgSent
    BY <1>2
  <2> QED  BY <2>1, <2>2, <2>3
<1>22. x \in 1..ImgSent
  BY BufferNumbers
<1>23. /\ thrown \subseteq thrown' /\ thrown' \subseteq (1..ImgSent) \X (1..ImgSent)
       /\ \A j \in DOMAIN img_buf : \A s : j < k /\ s = img_buf[j] /\ p < s => Ar!ThrownByOldPose(s)'
  <2> DEFINE J == 1..(k - 1)
  <2>1. DOMAIN img_buf = 1..Len(img_buf) /\ Len(img_buf) \in Nat
    BY <1>2
  <2>2. J \subseteq DOMAIN img_buf /\ \A j \in DOMAIN img_buf : j \in J <=> j < k
    BY <2>1
  <2>3. thrown' = thrown \cup {<<img_buf[j], p>> : j \in J}
    BY <1>20
  <2> HIDE DEF J
  <2>4. \A j \in J : ~ (Ar!Stamp(img_buf[j]) >= Ar!Stamp(p))
    BY <1>3, <2>2
  <2>5. /\ thrown' \subseteq (1..ImgSent) \X (1..ImgSent)
        /\ \A j \in J : \A s : s = img_buf[j] /\ p < s => Ar!ThrownByOldPose(s)'
    BY <1>21, <2>2, <2>3, <2>4, ThrownStep
  <2> QED  BY <2>2, <2>3, <2>5
<1>4. /\ img_buf' \in Seq(Nat)
      /\ \A i \in DOMAIN img_buf' : k + i \in DOMAIN img_buf /\ k < k + i /\ img_buf'[i] = img_buf[k + i]
      /\ \A j \in DOMAIN img_buf : k < j => j - k \in DOMAIN img_buf' /\ img_buf'[j - k] = img_buf[j]
  <2>1. k \in 1..Len(img_buf) /\ Len(img_buf) \in Nat
    BY <1>2
  <2>2. /\ img_buf' \in Seq(Nat) /\ DOMAIN img_buf' = 1..(Len(img_buf) - k)
        /\ \A i \in 1..(Len(img_buf) - k) : img_buf'[i] = img_buf[k + i]
    <3>1. \A i \in k + 1..Len(img_buf) : img_buf[i] \in Nat
      BY <1>2, <2>1, SMTT(30)
    <3>2. /\ SubSeq(img_buf, k + 1, Len(img_buf)) \in Seq(Nat)
          /\ Len(SubSeq(img_buf, k + 1, Len(img_buf)))
               = IF k + 1 <= Len(img_buf) THEN Len(img_buf) - (k + 1) + 1 ELSE 0
          /\ \A i \in 1..Len(img_buf) - (k + 1) + 1 :
               SubSeq(img_buf, k + 1, Len(img_buf))[i] = img_buf[k + 1 + i - 1]
      BY <2>1, <3>1, SubSeqProperties
    <3> DEFINE s == SubSeq(img_buf, k + 1, Len(img_buf))
               m == Len(img_buf)
    <3>3. s \in Seq(Nat) /\ Len(s) = m - k /\ \A i \in 1..(m - k) : s[i] = img_buf[k + i]
      <4> HIDE DEF s
      <4>1. m \in Nat /\ k \in 1..m
        BY <2>1
      <4>2. /\ s \in Seq(Nat) /\ Len(s) = IF k + 1 <= m THEN m - (k + 1) + 1 ELSE 0
            /\ \A i \in 1..m - (k + 1) + 1 : s[i] = img_buf[k + 1 + i - 1]
        BY <3>2 DEF s
      <4> HIDE DEF m
      <4>3. m - (k + 1) + 1 = m - k /\ \A i \in 1..(m - k) : k + 1 + i - 1 = k + i
        BY <4>1
      <4>4. Len(s) = m - k
        BY <4>1, <4>2
      <4>5. ASSUME NEW i \in 1..(m - k) PROVE s[i] = img_buf[k + i]
        <5>1. i \in 1..m - (k + 1) + 1 /\ k + 1 + i - 1 = k + i
          BY <4>3
        <5>2. s[i] = img_buf[k + 1 + i - 1]
          BY <4>2, <5>1
        <5> QED  BY <5>1, <5>2
      <4> QED  BY <4>2, <4>4, <4>5
    <3>4. img_buf' = s
      OBVIOUS
    <3> HIDE DEF s
    <3>5. DOMAIN s = 1..Len(s)
      BY <3>3
    <3> QED  BY <3>3, <3>4, <3>5
  <2>3. DOMAIN img_buf = 1..Len(img_buf)
    BY <1>2
  <2> DEFINE m == Len(img_buf)
  <2> HIDE DEF m
  <2>4. k \in 1..m /\ m \in Nat /\ DOMAIN img_buf' = 1..(m - k) /\ DOMAIN img_buf = 1..m
    BY <2>1, <2>2, <2>3 DEF m
  <2>5. \A i \in 1..(m - k) : k + i \in 1..m /\ k < k + i
    BY <2>4
  <2>6. \A j \in 1..m : k < j => j - k \in 1..(m - k) /\ k + (j - k) = j
    BY <2>4
  <2>7. \A i \in 1..(m - k) : img_buf'[i] = img_buf[k + i]
    BY <2>2 DEF m
  <2>8. \A j \in 1..m : k < j => img_buf'[j - k] = img_buf[j]
    BY <2>6, <2>7
  <2> QED  BY <2>2, <2>4, <2>5, <2>6, <2>7, <2>8
<1> HIDE DEF x
<1>5. [image |-> x, pose |-> p, faces |-> faces] \in Drawing
  BY <1>1, <1>2 DEF Drawing
<1>6. /\ n \in Nat /\ DOMAIN taken = 1..n /\ taken' \in Seq(Drawing) /\ DOMAIN taken' = 1..(n + 1)
      /\ \A j \in 1..n : taken'[j] = taken[j]
      /\ taken'[n + 1].image = x /\ taken'[n + 1].pose = p
  <2> DEFINE d == [image |-> x, pose |-> p, faces |-> faces]
  <2>1. taken' = Append(taken, d) /\ d.image = x /\ d.pose = p
    BY DEF p, x
  <2> HIDE DEF d
  <2>2. d \in Drawing
    BY <1>5 DEF d
  <2> QED  BY <1>2, <2>1, <2>2
<1> HIDE DEF n
<1>7. \A j \in 1..n : taken[j].image \in Nat /\ taken[j].pose \in Nat
  BY <1>6, TakenTypes DEF ArInv
<1>8. ArTypeInv'
  BY <1>1, <1>2, <1>4, <1>6, <1>19, <1>23 DEF ArInv, ArTypeInv
<1>9. Increasing(img_buf) /\ Increasing(imgTopic) /\ DOMAIN img_buf \subseteq Nat /\ DOMAIN img_buf' \subseteq Nat
  <2>1. Increasing(img_buf) /\ Increasing(imgTopic)
    BY DEF ArInv, ImagesInv
  <2>2. DOMAIN img_buf = 1..Len(img_buf) /\ DOMAIN img_buf' = 1..Len(img_buf')
    BY <1>2, <1>4, SMTT(30)
  <2> QED  BY <2>1, <2>2
<1>10. /\ \A i \in DOMAIN imgTopic : /\ imgTopic[i] \in Nat /\ imgTopic[i] <= ImgSent /\ x < imgTopic[i]
                                     /\ \A j \in DOMAIN img_buf : img_buf[j] < imgTopic[i]
       /\ \A j \in DOMAIN img_buf : img_buf[j] \in Nat /\ img_buf[j] <= ImgSent
       /\ x <= ImgSent
  <2>1. imgTopic \in Seq(Nat)
    BY DEF ArInv, ArTypeInv
  <2>2. /\ \A i \in DOMAIN imgTopic : imgTopic[i] <= ImgSent /\ \A j \in DOMAIN img_buf : img_buf[j] < imgTopic[i]
        /\ \A j \in DOMAIN img_buf : img_buf[j] <= ImgSent
    BY DEF ArInv, ImagesInv
  <2>3. /\ \A i \in DOMAIN imgTopic : imgTopic[i] \in Nat
        /\ \A j \in DOMAIN img_buf : img_buf[j] \in Nat
    <3>1. \A i \in DOMAIN imgTopic : imgTopic[i] \in Nat
      BY <2>1
    <3>2. img_buf \in Seq(Nat)
      BY <1>2
    <3> QED  BY <3>1, <3>2
  <2>4. x <= ImgSent /\ \A i \in DOMAIN imgTopic : x < imgTopic[i]
    BY <2>2 DEF x
  <2> QED  BY <2>2, <2>3, <2>4
<1>11. ImagesInv'
  <2>1. ASSUME NEW i \in DOMAIN img_buf', NEW j \in DOMAIN img_buf', i < j PROVE img_buf'[i] < img_buf'[j]
    <3>1. k + i < k + j
      BY <1>2, <1>9, <2>1
    <3> QED  BY <1>4, <1>9, <3>1 DEF Increasing
  <2>2. Increasing(img_buf')
    BY <2>1 DEF Increasing
  <2>3. \A i \in DOMAIN imgTopic : \A j \in DOMAIN img_buf' : img_buf'[j] < imgTopic[i]
    BY <1>4, <1>10
  <2>4. \A i \in DOMAIN img_buf' : img_buf'[i] <= ImgSent
    BY <1>4, <1>10
  <2> QED  BY <1>9, <1>10, <1>19, <2>2, <2>3, <2>4 DEF ImagesInv
<1>12. \A j \in 1..n : /\ taken[j].pose <= poseSent /\ taken[j].image <= ImgSent /\ taken[j].image < x
                       /\ \A i \in DOMAIN img_buf : taken[j].image < img_buf[i]
                       /\ \A i \in DOMAIN imgTopic : taken[j].image < imgTopic[i]
  BY <1>6 DEF ArInv, NewerInv, x
<1>13. \A j \in DOMAIN taken' : j \in 1..n \/ j = n + 1
  BY <1>6
<1>14. NewerInv'
  <2>1. \A i \in DOMAIN poseTopic' : \A j \in DOMAIN taken' : taken'[j].pose < poseTopic'[i]
    BY <1>1, <1>6, <1>13
  <2>2. \A j \in DOMAIN taken' : taken'[j].pose <= poseSent /\ taken'[j].image <= ImgSent
    BY <1>1, <1>6, <1>10, <1>12, <1>13
  <2>3. \A j \in DOMAIN taken' : \A i \in DOMAIN img_buf' : taken'[j].image < img_buf'[i]
    <3>1. \A i \in DOMAIN img_buf' : x < img_buf'[i]
      BY <1>4, <1>9 DEF Increasing, x
    <3>2. \A j \in 1..n : \A i \in DOMAIN img_buf' : taken[j].image < img_buf'[i]
      BY <1>4, <1>12
    <3>3. ASSUME NEW j \in DOMAIN taken', NEW i \in DOMAIN img_buf' PROVE taken'[j].image < img_buf'[i]
      <4>1. CASE j \in 1..n
        BY <1>6, <3>2, <4>1
      <4>2. CASE j = n + 1
        BY <1>6, <3>1, <4>2
      <4> QED  BY <1>13, <4>1, <4>2
    <3> QED  BY <3>3
  <2>4. \A j \in DOMAIN taken' : \A i \in DOMAIN imgTopic : taken'[j].image < imgTopic[i]
    BY <1>6, <1>10, <1>12, <1>13
  <2>5. UNCHANGED <<images, poseSent, imgTopic>>
    OBVIOUS
  <2> QED  BY <1>1, <1>19, <2>1, <2>2, <2>3, <2>4, <2>5 DEF NewerInv
<1>15. ThereInv'
  <2> SUFFICES ASSUME NEW s \in Nat, (poseSent < s /\ s <= ImgSent) \/ In(s, poseTopic') PROVE Somewhere(s)'
    BY <1>19 DEF ThereInv
  <2>1. p < s
    BY <1>1, <1>2
  <2>2. Somewhere(s)
    BY <1>1 DEF ArInv, ThereInv
  <2>3. CASE In(s, img_buf)
    <3>1. PICK j \in DOMAIN img_buf : img_buf[j] = s
      BY <2>3 DEF In
    <3>2. CASE j < k
      <4>1. Ar!ThrownByOldPose(s)'
        BY <1>23, <2>1, <3>1, <3>2
      <4> QED  BY <4>1 DEF Somewhere
    <3>3. CASE j = k
      <4>1. taken'[n + 1].image = s /\ n + 1 \in DOMAIN taken'
        BY <1>6, <3>1, <3>3 DEF x
      <4> QED  BY <4>1 DEF Somewhere
    <3>4. CASE k < j
      <4>1. In(s, img_buf')
        BY <1>4, <3>1, <3>4 DEF In
      <4> QED  BY <4>1 DEF Somewhere
    <3> QED  BY <1>9, <3>2, <3>3, <3>4
  <2>6. CASE Ar!ThrownByOldPose(s)
    BY <1>19, <1>23, <2>6, HistoriesKept DEF Somewhere
  <2>4. CASE In(s, imgTopic) \/ s \in dropped
    BY <2>4 DEF Somewhere
  <2>5. CASE \E j \in DOMAIN taken : taken[j].image = s
    <3>1. PICK j \in 1..n : taken[j].image = s
      BY <1>6, <2>5
    <3>2. taken'[j].image = s /\ j \in DOMAIN taken'
      BY <1>6, <3>1
    <3> QED  BY <3>2 DEF Somewhere
  <2> QED  BY <2>2, <2>3, <2>4, <2>5, <2>6 DEF Somewhere
<1>16. TakenInOrder'
  <2>1. ASSUME NEW i \in DOMAIN taken', NEW j \in DOMAIN taken', i < j
        PROVE  taken'[i].image < taken'[j].image /\ taken'[i].pose < taken'[j].pose
    <3>1. i \in 1..n
      BY <1>6, <2>1
    <3>2. CASE j \in 1..n
      BY <1>6, <2>1, <3>1, <3>2 DEF ArInv, TakenInOrder
    <3>3. CASE j = n + 1
      BY <1>1, <1>6, <1>12, <3>1, <3>3
    <3> QED  BY <1>13, <3>2, <3>3
  <2> QED  BY <2>1 DEF TakenInOrder
<1>17. p < x => \/ p \in dropped \/ \E j \in 1..n : taken[j].image = p
                \/ Ar!ThrownByOldPose(p)
  <2> SUFFICES ASSUME p < x PROVE p \in dropped \/ (\E j \in 1..n : taken[j].image = p) \/ Ar!ThrownByOldPose(p)
    OBVIOUS
  <2>1. Somewhere(p)
    BY <1>1 DEF ArInv, ThereInv
  <2>2. ~In(p, imgTopic)
    BY <1>1, <1>2, <1>10 DEF In
  <2>3. ~In(p, img_buf)
    <3> SUFFICES ASSUME NEW j \in DOMAIN img_buf, img_buf[j] = p PROVE FALSE
      BY DEF In
    <3>1. Ar!Stamp(p) \in Nat
      <4>1. images[p] \in Shot
        BY <1>21 DEF ArInv, ArTypeInv, ImgSent
      <4> QED  BY <4>1 DEF Ar!Stamp, Shot
    <3>2. ~(j < k)
      BY <1>3, <3>1
    <3>3. j # k
      BY <1>1, <1>2 DEF x
    <3>4. k < j
      BY <1>9, <3>2, <3>3
    <3>5. x < p
      BY <1>9, <3>4 DEF Increasing, x
    <3> QED  BY <1>1, <1>2, <3>5
  <2> QED  BY <1>6, <2>1, <2>2, <2>3 DEF Somewhere
<1>18. OwnImageGone'
  <2> DEFINE Gone(i) ==
        /\ taken'[i].image < taken'[i].pose => images'[taken'[i].image].session < images'[taken'[i].pose].session
        /\ taken'[i].pose < taken'[i].image =>
             \/ taken'[i].pose \in dropped' \/ \E j \in 1..(i - 1) : taken'[j].image = taken'[i].pose
             \/ \E u \in thrown' : u[1] = taken'[i].pose /\ images'[u[2]].session < images'[taken'[i].pose].session
  <2>1. \A s : Ar!ThrownByOldPose(s) =>
               \E u \in thrown' : u[1] = s /\ images'[u[2]].session < images'[s].session
    <3> TAKE s
    <3>1. Ar!ThrownByOldPose(s) => Ar!ThrownByOldPose(s)'
      BY <1>19, <1>23, HistoriesKept
    <3> QED  BY <3>1 DEF Ar!ThrownByOldPose, Ar!Session
  <2>2. ASSUME NEW i \in 1..n PROVE Gone(i)
    <3>1. \A j \in 1..(i - 1) : taken'[j] = taken[j]
      BY <1>6
    <3>2. taken'[i] = taken[i] /\ i \in DOMAIN taken
      BY <1>6
    <3>3. /\ taken[i].image < taken[i].pose => Ar!Session(taken[i].image) < Ar!Session(taken[i].pose)
          /\ taken[i].pose < taken[i].image =>
               \/ taken[i].pose \in dropped \/ \E j \in 1..(i - 1) : taken[j].image = taken[i].pose
               \/ Ar!ThrownByOldPose(taken[i].pose)
      BY <3>2 DEF ArInv, OwnImageGone
    <3>4. taken[i].image < taken[i].pose => images'[taken[i].image].session < images'[taken[i].pose].session
      BY <3>3 DEF Ar!Session
    <3>5. taken[i].pose < taken[i].image =>
            \/ taken[i].pose \in dropped' \/ \E j \in 1..(i - 1) : taken'[j].image = taken[i].pose
            \/ \E u \in thrown' : u[1] = taken[i].pose
                                  /\ images'[u[2]].session < images'[taken[i].pose].session
      <4>1. dropped' = dropped
        OBVIOUS
      <4>2. (\E j \in 1..(i - 1) : taken[j].image = taken[i].pose)
              => \E j \in 1..(i - 1) : taken'[j].image = taken[i].pose
        BY <3>1
      <4> QED  BY <2>1, <3>3, <4>1, <4>2
    <3> QED  BY <3>2, <3>4, <3>5
  <2>3. Gone(n + 1)
    <3>1. (n + 1) - 1 = n /\ taken'[n + 1].image = x /\ taken'[n + 1].pose = p
      BY <1>6
    <3>2. x < p => images'[x].session < images'[p].session
      <4>1. x < p => Ar!Session(x) < Ar!Session(p)
        BY <1>3, <1>21, <1>22, NotAcrossJump
      <4> QED  BY <4>1 DEF Ar!Session
    <3>3. \A j \in 1..n : taken'[j] = taken[j]
      BY <1>6
    <3>4. p < x => \/ p \in dropped' \/ \E j \in 1..n : taken'[j].image = p
                  \/ \E u \in thrown' : u[1] = p /\ images'[u[2]].session < images'[p].session
      BY <1>17, <2>1, <3>3
    <3> QED  BY <3>1, <3>2, <3>4
  <2>4. \A i \in DOMAIN taken' : Gone(i)
    BY <1>13, <2>2, <2>3
  <2> QED  BY <2>4 DEF OwnImageGone, Ar!Session, Ar!ThrownByOldPose
<1>24. NumberedInv'
  <2>1. \A y : In(y, img_buf') => In(y, img_buf)
    <3>1. \A i \in DOMAIN img_buf' : k + i \in DOMAIN img_buf /\ img_buf'[i] = img_buf[k + i]
      BY <1>4
    <3> SUFFICES ASSUME NEW y, NEW i \in DOMAIN img_buf', img_buf'[i] = y PROVE In(y, img_buf)
      BY DEF In
    <3> QED  BY <3>1 DEF In
  <2>2. \A y : In(y, poseTopic') \/ In(y, imgTopic') \/ In(y, img_buf') => y # 0
    BY <1>1, <2>1 DEF ArInv, NumberedInv, In
  <2>3. \A j \in DOMAIN taken' : taken'[j].image # 0 /\ taken'[j].pose # 0
    BY <1>6, <1>13, <1>21, <1>22 DEF ArInv, NumberedInv
  <2> QED  BY <2>2, <2>3 DEF NumberedInv
<1> QED  BY <1>8, <1>11, <1>14, <1>15, <1>16, <1>18, <1>19, <1>24 DEF ArInv

LEMMA PoseCallbackStep ==
  ASSUME ArInv, Ar!PoseCallback
  PROVE  ArInv'
<1> DEFINE p == Head(poseTopic)
           stops == Ar!Stops(img_buf, p)
           k == Ar!Min(stops)
<1>1. poseTopic # <<>> /\ poseTopic' = Tail(poseTopic) /\ UNCHANGED <<images, poseSent, imgTopic, dropped>>
  BY DEF Ar!PoseCallback
<1>2. \/ UNCHANGED <<img_buf, taken, thrown>>
      \/ /\ stops = {} /\ img_buf' = <<>> /\ UNCHANGED taken
         /\ thrown' = thrown \cup {<<img_buf[j], p>> : j \in DOMAIN img_buf}
      \/ /\ stops # {} /\ Ar!Callback(img_buf[k], p)
         /\ img_buf' = SubSeq(img_buf, k + 1, Len(img_buf))
         /\ thrown' = thrown \cup {<<img_buf[j], p>> : j \in 1..(k - 1)}
  BY DEF Ar!PoseCallback
<1>3. img_buf \in Seq(Nat) /\ p \in Nat
  BY <1>1, PoseTopicStep DEF ArInv, ArTypeInv
<1>4. CASE UNCHANGED <<img_buf, taken, thrown>>
  BY <1>1, <1>4, PoseAloneStep
<1>5. CASE /\ stops = {} /\ img_buf' = <<>> /\ UNCHANGED taken
           /\ thrown' = thrown \cup {<<img_buf[j], p>> : j \in DOMAIN img_buf}
  <2>1. \A j \in DOMAIN img_buf : ~ (Ar!Stamp(img_buf[j]) >= Ar!Stamp(p))
    BY <1>5 DEF Ar!Stops, Ar!NotBefore
  <2> QED  BY <1>1, <1>5, <2>1, PoseAloneStep
<1>6. CASE /\ stops # {} /\ Ar!Callback(img_buf[k], p) /\ img_buf' = SubSeq(img_buf, k + 1, Len(img_buf))
           /\ thrown' = thrown \cup {<<img_buf[j], p>> : j \in 1..(k - 1)}
  <2>1. /\ k \in DOMAIN img_buf /\ Ar!Stamp(img_buf[k]) >= Ar!Stamp(p)
        /\ \A j \in DOMAIN img_buf : j < k => ~ (Ar!Stamp(img_buf[j]) >= Ar!Stamp(p))
    BY <1>3, <1>6, FirstStop
  <2>2. PICK faces \in AllFaces : taken' = Append(taken, [image |-> img_buf[k], pose |-> p, faces |-> faces])
    <3>1. <<>> \in AllFaces
      <4>1. Ar!Faces(<<>>) = <<>>
        BY DEF Ar!Faces
      <4> QED  BY <4>1 DEF AllFaces
    <3> HIDE DEF k, p
    <3>2. \E faces \in AllFaces : taken' = Append(taken, [image |-> img_buf[k], pose |-> p, faces |-> faces])
      BY <1>6, <3>1 DEF Ar!Callback, AllFaces
    <3> QED  BY <3>2
  <2> HIDE DEF k
  <2> QED  BY <1>1, <1>6, <2>1, <2>2, PoseTakesStep
<1> QED  BY <1>2, <1>4, <1>5, <1>6

LEMMA ArInvariant == Ar!ArSpec => []ArInv
<1>1. Ar!ArInit => ArInv
  <2> SUFFICES ASSUME Ar!ArInit PROVE ArInv
    OBVIOUS
  <2>1. images = <<>> /\ poseSent = 0 /\ imgTopic = <<>> /\ poseTopic = <<>> /\ img_buf = <<>> /\ taken = <<>> /\ thrown = {}
    BY DEF Ar!ArInit
  <2>2. ImgSent = 0
    BY <2>1 DEF ImgSent
  <2>3. ArTypeInv
    BY <2>1, <2>2 DEF ArTypeInv
  <2>4. StreamInv
    BY <2>2 DEF StreamInv
  <2>5. ImagesInv /\ NewerInv /\ NumberedInv /\ TakenInOrder /\ OwnImageGone
    BY <2>1 DEF ImagesInv, NewerInv, NumberedInv, TakenInOrder, OwnImageGone, Increasing, In
  <2>6. ThereInv
    BY <2>1, <2>2 DEF ThereInv, In
  <2> QED  BY <2>3, <2>4, <2>5, <2>6 DEF ArInv
<1>2. ArInv /\ [Ar!ArNext]_(Ar!arVars) => ArInv'
  <2> SUFFICES ASSUME ArInv, [Ar!ArNext]_(Ar!arVars) PROVE ArInv'
    OBVIOUS
  <2>1. CASE Ar!CameraImage
    BY <2>1, CameraImageStep
  <2>2. CASE Ar!CameraPose
    BY <2>2, CameraPoseStep
  <2>3. CASE Ar!ImgCallback
    BY <2>3, ImgCallbackStep
  <2>4. CASE Ar!PoseCallback
    BY <2>4, PoseCallbackStep
  <2>5. CASE Ar!PointCallback \/ UNCHANGED Ar!arVars
    <3>1. UNCHANGED <<images, poseSent, imgTopic, poseTopic, img_buf, taken, dropped, thrown>>
      BY <2>5 DEF Ar!PointCallback, Ar!arVars
    <3>2. ImgSent' = ImgSent /\ SameShots /\ StreamInv' /\ \A n : Ar!ThrownByOldPose(n)' <=> Ar!ThrownByOldPose(n)
      BY <3>1, SameStream DEF ArInv
    <3>3. ArTypeInv' /\ ImagesInv' /\ NewerInv' /\ NumberedInv'
      BY <3>1, <3>2 DEF ArInv, ArTypeInv, ImagesInv, NewerInv, NumberedInv, In
    <3>4. ThereInv'
      BY <3>1, <3>2 DEF ArInv, ThereInv, Somewhere, In
    <3>5. TakenInOrder' /\ OwnImageGone'
      BY <3>1, <3>2, TakenKept
    <3> QED  BY <3>2, <3>3, <3>4, <3>5 DEF ArInv
  <2> QED  BY <2>1, <2>2, <2>3, <2>4, <2>5 DEF Ar!ArNext
<1> QED  BY <1>1, <1>2, PTL DEF Ar!ArSpec

\* However many images and poses there are, in whatever order they arrive and however
\* often the stamps jump back: an image is drawn once and in order; with another pose than
\* its own only when it was left over across a jump, or when the image of that pose is gone;
\* and the faces painted are three sides that meet in one corner (ar_demo_node.cpp:311-347,
\* 459-494, feature_tracker_node.cpp:40).
THEOREM ImagesKeepTheirPose == Ar!ArSpec => []DrawnWithItsPose
<1>1. ArInv => DrawnWithItsPose
  <2> SUFFICES ASSUME ArInv PROVE DrawnWithItsPose
    OBVIOUS
  <2>1. \A i, j \in DOMAIN taken : i < j => taken[i].image < taken[j].image /\ taken[i].pose < taken[j].pose
    BY DEF ArInv, TakenInOrder
  <2>2. \A i \in DOMAIN taken :
          /\ taken[i].image < taken[i].pose => Ar!Session(taken[i].image) < Ar!Session(taken[i].pose)
          /\ taken[i].image > taken[i].pose =>
               \/ taken[i].pose \in dropped \cup {taken[k].image : k \in 1..(i - 1)}
               \/ Ar!ThrownByOldPose(taken[i].pose)
    <3> TAKE i \in DOMAIN taken
    <3>1. taken[i].image \in Nat /\ taken[i].pose \in Nat
      BY TakenTypes DEF ArInv
    <3> QED  BY <3>1 DEF ArInv, OwnImageGone
  <2>3. \A i \in DOMAIN taken : Meet(taken[i].faces)
    BY TakenTypes, FacesMeet DEF ArInv
  <2>4. Ar!DrawnWithItsPose
    BY <2>1, <2>2, <2>3 DEF Meet, Ar!DrawnWithItsPose
  <2> QED  BY <2>4 DEF DrawnWithItsPose
<1> QED  BY <1>1, ArInvariant, PTL
=============================================================================
