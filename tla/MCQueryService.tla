--------------------------- MODULE MCQueryService ---------------------------
(* Instances of QueryService for TLC.  One source or three, by name; " b"   *)
(* is "b" with blanks around it, "x" is not enabled.                        *)
EXTENDS QueryService

MCSpellings == {"a", "b"}
MCBlank == ""
MCTrimSpace == [r \in MCSpellings |-> r]
MCOneSource == <<"a">>

(* Three sources, for the order of priority.  A client turns the order      *)
(* round, with a blank, a repetition and a source that is not enabled; asks *)
(* for one source; for none that is enabled; for nothing.                   *)
MC3Spellings == {"a", "b", "c", " b", "x", ""}
MC3Names == {"a", "b", "c", "x"}
MC3TrimSpace == [r \in MC3Spellings |-> IF r = " b" THEN "b" ELSE r]
MC3DefaultList == <<"a", "b", "c">>
MC3Lists == {<<"x", "c", " b", "", "a", "b">>, <<"b">>, <<"x", "">>, <<>>}

MCNoRows == {}
(* The source in the middle is known; a failed read hides it. *)
MCOldRow == Phones \X {"b"}
=============================================================================
