-------------------------- MODULE MCBatchInvariant --------------------------
(***************************************************************************)
(* The persistent product on three programs, groups of two blocks of rows   *)
(* and three blocks of columns of which the last is short.  Batches of one  *)
(* to six rows have a short last group and short last blocks, and cross the *)
(* threshold of the witness's large block.  The other operations run on     *)
(* tensors of up to three dimensions, with dimensions of size one, blocks   *)
(* cut short, and every kind of broadcasting.                               *)
(***************************************************************************)
EXTENDS BatchInvariant

MCConfigs == {[m |-> 2, n |-> 3, k |-> 2]}

MCShapes == {<<4>>, <<2, 3>>, <<1, 3>>, <<2, 1, 3>>, <<2, 2, 2>>}

MCMeans == UNION {{[op |-> "mean", shape |-> s, dims |-> d, keep |-> k] :
                     d \in SUBSET (0 .. Len(s) - 1), k \in BOOLEAN} : s \in MCShapes}

MCOperations ==
    MCMeans
    \cup [op : {"log_softmax"}, rows : {1, 2}, cols : {1, 2, 4, 5}]
    \cup [op : {"rms_norm"}, rows : {1, 2}, cols : {1, 2, 4, 5},
          weighted : BOOLEAN, residual : BOOLEAN]
    \cup [op : {"bmm"}, b : {1, 2}, m : {1, 3, 4}, n : {1, 2, 5}, k : {3, 4}, bm : {2}, bn : {2}]
    \cup {[op |-> "matmul", a |-> ab[1], b |-> ab[2]] :
             ab \in {<<<<2, 3>>, <<3, 2>>>>, <<<<3>>, <<3, 2>>>>,
                     <<<<2, 2, 3>>, <<3, 2>>>>, <<<<2, 3>>, <<2, 3, 2>>>>,
                     <<<<1, 2, 3>>, <<3, 3, 2>>>>, <<<<3, 2, 3>>, <<1, 3, 2>>>>,
                     <<<<2, 1, 2, 3>>, <<3, 3, 2>>>>, <<<<3, 2, 3>>, <<2, 1, 3, 2>>>>,
                     <<<<3>>, <<2, 3, 2>>>>, <<<<2, 3>>, <<3>>>>}}
=============================================================================
