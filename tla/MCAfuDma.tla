------------------------------ MODULE MCAfuDma ------------------------------
(* Instances of AfuDma for TLC.                                            *)
EXTENDS AfuDma, TLC

Buf(start, pages) == [iova |-> start, length |-> pages]

\* Three buffers side by side, of one and two pages.
Disjoint == {Buf(1, 1), Buf(2, 2), Buf(4, 1)}

\* A buffer of four pages, its second page, and the pages before and after.
Nested == {Buf(1, 1), Buf(2, 4), Buf(3, 1), Buf(6, 1)}

Symmetry == Permutations(Handles)

AtRest == umsg = [enable |-> FALSE, init_complete |-> FALSE, base |-> 0,
                  mode |-> 0]
Alone == Cardinality({owner[h] : h \in Files}) <= 1

\* Umsgs are taken into use only by a process that is alone with the port and
\* has its charge right, and it stays alone until they are at rest: charges
\* and umsgs have nothing to do with each other, and together they are too
\* many states.
Apart ==
    /\ AtRest /\ ~AtRest' => /\ ~warned /\ exited = {}
                            /\ \A h \in Files : locked_vm[owner[h]] = Held
                            /\ Charged = Held
    /\ ~AtRest' => Alone'

\* The DMA regions and the umsgs, apart.
DmaSpec == Init /\ [][Next /\ Apart]_vars

\* The trees of three and of four nodes are as many as there are binary trees.
ASSUME TreesCounted ==
    /\ Cardinality(SearchTrees(Disjoint)) = 5
    /\ Cardinality(SearchTrees(Nested)) = 14
=============================================================================
