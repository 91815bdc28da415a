--------------------------- MODULE MCBaselineFetch ---------------------------
(* An instance of BaselineFetch for TLC: a good archive and every way it    *)
(* may differ, on both sides of each limit.                                 *)
EXTENDS BaselineFetch, TLC

MCManifests == [size : {1, 2, 3}, sum : {"sum"}, version : {"new"}]

Good == [kind |-> "database", declared |-> 3, packed |-> 2, actual |-> 3,
         sound |-> TRUE, version |-> "new"]

Entries == {Good, [Good EXCEPT !.kind = "other"], [Good EXCEPT !.declared = 4],
            [Good EXCEPT !.packed = 1], [Good EXCEPT !.packed = 0], [Good EXCEPT !.actual = 4],
            [Good EXCEPT !.sound = FALSE], [Good EXCEPT !.version = "old"]}

Whole(entries) == [size |-> 2, sum |-> "sum", entries |-> entries]

MCArchives ==
    {Whole(<<e>>) : e \in Entries}
    \cup {Whole(<<>>), Whole(<<Good, Good>>), [Whole(<<Good>>) EXCEPT !.sum = "other"]}
    \cup {[Whole(<<Good>>) EXCEPT !.size = n] : n \in {0, 1, 3, 4}}
=============================================================================
