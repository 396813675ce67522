-------------------------- MODULE Marginalization --------------------------
(* MarginalizationInfo: the residual blocks of one marginalization are       *)
(* collected, their parameter blocks are laid out in the columns of the      *)
(* normal equations, threads sum the factors dealt to them, and what remains *)
(* of the equations becomes the prior of the next optimisation.              *)
(* A parameter block is known by its name, a factor by its position; an      *)
(* entry of the matrix is the sequence of factors added to it. The maps are  *)
(* unordered, so every iteration over one may meet its keys in any order.    *)
EXTENDS Integers, Sequences, FiniteSets

CONSTANTS
  NumThreads,   \* NUM_THREADS
  Size,         \* size of every parameter block
  Graphs        \* the residual blocks optimization() may add: the parameter
                \* blocks of each, and its drop_set

VARIABLES
  marginPc,   \* the loop or method that comes next
  factors,    \* factors: parameter blocks of each residual block, and its drop_set
  columns,    \* parameter_block_idx, for the blocks that have been given one
  pos,        \* columns given out
  firstKept,  \* m
  saved,      \* parameter_block_data: the value copied for a block
  value,      \* the value of a block in the window, which the solver goes on to change
  todo,       \* sub_factors a thread has not added yet
  sums,       \* A of every thread: factors added at the columns of two blocks
  total,      \* A
  joining,    \* the thread marginalize joins next
  kept        \* keep_block_size, _idx, _data and the shifted addresses

vars == <<marginPc, factors, columns, pos, firstKept, saved, value, todo, sums, total, joining, kept>>

Threads == 0..(NumThreads - 1)
LocalSize(size) == IF size = 7 THEN 6 ELSE size

BlocksOf(f) == {factors[f].blocks[i] : i \in DOMAIN factors[f].blocks}
\* parameter_block_size and the keys drop_set puts into parameter_block_idx.
AllBlocks == UNION {BlocksOf(f) : f \in DOMAIN factors}
Dropped == UNION {{factors[f].blocks[i] : i \in factors[f].drop} : f \in DOMAIN factors}

Init ==
  /\ marginPc = "add"
  /\ factors = <<>>
  /\ columns = <<>>
  /\ pos = 0
  /\ firstKept = 0
  /\ saved = <<>>
  /\ value = [b \in DOMAIN Size |-> "linearized"]
  /\ todo = [t \in Threads |-> {}]
  /\ sums = [t \in Threads |-> <<>>]
  /\ total = <<>>
  /\ joining = NumThreads - 1
  /\ kept = <<>>

\* addResidualBlockInfo for every residual block the marginalization involves.
AddResidualBlockInfo ==
  /\ marginPc = "add"
  /\ factors' \in Graphs
  /\ marginPc' = "preMarginalize"
  /\ UNCHANGED <<columns, pos, firstKept, saved, value, todo, sums, total, joining, kept>>

\* preMarginalize: every factor is evaluated and the value of every block is
\* copied the first time its address is met.
PreMarginalize ==
  /\ marginPc = "preMarginalize"
  /\ saved' = [b \in AllBlocks |-> value[b]]
  /\ marginPc' = "dropped"
  /\ UNCHANGED <<factors, columns, pos, firstKept, value, todo, sums, total, joining, kept>>

\* A block is given the next columns.
LayOut(b) ==
  /\ columns' = [c \in DOMAIN columns \cup {b} |-> IF c = b THEN pos ELSE columns[c]]
  /\ pos' = pos + LocalSize(Size[b])
  /\ UNCHANGED <<factors, firstKept, saved, value, todo, sums, total, joining, kept>>

\* The loop over parameter_block_idx, which holds the dropped blocks only.
LayOutDropped(b) ==
  /\ marginPc = "dropped"
  /\ b \in Dropped \ DOMAIN columns
  /\ LayOut(b)
  /\ UNCHANGED marginPc

\* m = pos.
DroppedLaidOut ==
  /\ marginPc = "dropped"
  /\ Dropped \subseteq DOMAIN columns
  /\ firstKept' = pos
  /\ marginPc' = "others"
  /\ UNCHANGED <<factors, columns, pos, saved, value, todo, sums, total, joining, kept>>

\* The loop over parameter_block_size, for the blocks without columns.
LayOutOther(b) ==
  /\ marginPc = "others"
  /\ b \in AllBlocks \ DOMAIN columns
  /\ LayOut(b)
  /\ UNCHANGED marginPc

\* The factors a thread is given: every NumThreads-th of them.
Dealt(t) == {f \in DOMAIN factors : (f - 1) % NumThreads = t}
Zero == LET starts == {columns[b] : b \in AllBlocks} IN [p \in starts \X starts |-> <<>>]

\* Factors are dealt, and every thread is created with a matrix of zeros.
CreateThreads ==
  /\ marginPc = "others"
  /\ AllBlocks \subseteq DOMAIN columns
  /\ todo' = [t \in Threads |-> Dealt(t)]
  /\ sums' = [t \in Threads |-> Zero]
  /\ total' = Zero
  /\ marginPc' = "sum"
  /\ UNCHANGED <<factors, columns, pos, firstKept, saved, value, joining, kept>>

\* One factor added to a thread's matrix, at the columns of every two of its blocks:
\* the jacobians of the i-th and j-th, i <= j, are added at the columns of the i-th
\* and the j-th, and the transposed sum is assigned across the diagonal.
WithFactor(matrix, f) ==
  LET blocks == factors[f].blocks
      touched == {columns[b] : b \in BlocksOf(f)}
      position(start) == CHOOSE i \in DOMAIN blocks : columns[blocks[i]] = start
      Added(p) == IF position(p[1]) <= position(p[2]) THEN p ELSE <<p[2], p[1]>>
  IN  [p \in DOMAIN matrix |-> IF p[1] \in touched /\ p[2] \in touched
                                 THEN Append(matrix[Added(p)], f) ELSE matrix[p]]

\* ThreadsConstructA, one factor at a time, on the thread's own matrix.
ThreadsConstructA(t) ==
  /\ marginPc = "sum"
  /\ \E f \in todo[t] :
       /\ \A g \in todo[t] : f <= g
       /\ sums' = [sums EXCEPT ![t] = WithFactor(sums[t], f)]
       /\ todo' = [todo EXCEPT ![t] = todo[t] \ {f}]
  /\ UNCHANGED <<marginPc, factors, columns, pos, firstKept, saved, value, total, joining, kept>>

\* pthread_join, from the last thread to the first, and the sum of its matrix.
JoinThread(t) ==
  /\ marginPc = "sum"
  /\ t = joining
  /\ todo[t] = {}
  /\ total' = [p \in DOMAIN total |-> total[p] \o sums[t][p]]
  /\ joining' = joining - 1
  /\ UNCHANGED <<marginPc, factors, columns, pos, firstKept, saved, value, todo, sums, kept>>

\* The Schur complement keeps the rows and columns from m on; the decomposition
\* into linearized_jacobians does not move columns.
Marginalized ==
  /\ marginPc = "sum"
  /\ joining = -1
  /\ marginPc' = "keep"
  /\ UNCHANGED <<factors, columns, pos, firstKept, saved, value, todo, sums, total, joining, kept>>

\* Mutant: the block at column m is left out.
IsKeptStrict(b) == columns[b] > firstKept
\* The blocks getParameterBlocks returns: those whose columns start at m or later.
IsKept(b) == columns[b] >= firstKept

\* The orders in which a loop may meet the keys S of a map, each of them once.
Orders(S) == {order \in [1..Cardinality(S) -> S] :
                \A b \in S : \E i \in DOMAIN order : \A j \in DOMAIN order : order[j] = b <=> j = i}

\* getParameterBlocks: four parallel vectors, here one sequence of records. The
\* window goes on to change the values.
GetParameterBlocks ==
  /\ marginPc = "keep"
  /\ \E order \in Orders({b \in AllBlocks : IsKept(b)}) :
       kept' = [i \in DOMAIN order |-> [block |-> order[i], size |-> Size[order[i]],
                                        idx |-> columns[order[i]], data |-> saved[order[i]]]]
  /\ value' = [b \in DOMAIN Size |-> "optimized"]
  /\ marginPc' = "prior"
  /\ UNCHANGED <<factors, columns, pos, firstKept, saved, todo, sums, total, joining>>

Next ==
  \/ AddResidualBlockInfo \/ PreMarginalize
  \/ \E b \in DOMAIN Size : LayOutDropped(b) \/ LayOutOther(b)
  \/ DroppedLaidOut \/ CreateThreads
  \/ \E t \in Threads : ThreadsConstructA(t) \/ JoinThread(t)
  \/ Marginalized \/ GetParameterBlocks

Spec == Init /\ [][Next]_vars
-----------------------------------------------------------------------------
\* The columns MarginalizationFactor::Evaluate takes for its i-th parameter.
Taken(i) == (kept[i].idx - firstKept)..(kept[i].idx - firstKept + LocalSize(kept[i].size) - 1)

\* MarginalizationFactor: the residual has n rows, and the jacobian of every
\* parameter is made of columns between 0 and n - 1.
NumResiduals == pos - firstKept

Connecting(p, q) == {f \in DOMAIN factors : p \in BlocksOf(f) /\ q \in BlocksOf(f)}

\* The prior constrains what its factors constrained: every block that was not
\* dropped is a parameter of it exactly once, with columns of its own and the
\* value it was linearised at, and at the columns of two blocks stands the sum
\* of exactly the factors that connected them, each once, whatever thread added
\* them and in whatever order the maps were met
\* (marginalization_factor.cpp:141-380).
PriorOfItsFactors ==
  marginPc = "prior" =>
    /\ {kept[i].block : i \in DOMAIN kept} = AllBlocks \ Dropped
    /\ \A i, j \in DOMAIN kept : i # j => /\ kept[i].block # kept[j].block
                                          /\ Taken(i) \cap Taken(j) = {}
    /\ UNION {Taken(i) : i \in DOMAIN kept} = 0..(NumResiduals - 1)
    /\ \A i \in DOMAIN kept : kept[i].data = "linearized"
    /\ \A i, j \in DOMAIN kept :
         LET sum == total[<<kept[i].idx, kept[j].idx>>]
         IN  /\ {sum[k] : k \in DOMAIN sum} = Connecting(kept[i].block, kept[j].block)
             /\ \A k, l \in DOMAIN sum : sum[k] = sum[l] => k = l
=============================================================================
