---------------------------- MODULE PhoneSearch ----------------------------
(***************************************************************************)
(* Finder.Find (phone/phone_data.go): the binary search for the first      *)
(* seven digits of a number in the index at the end of the embedded file.  *)
(* The index is counted from 0, as in the code; `right` starts one past    *)
(* its last entry, and the bounds check ends the search there.             *)
(***************************************************************************)
EXTENDS Integers, Sequences

CONSTANTS
    Table,       \* the embedded index: prefixes in ascending order
    Prefixes,    \* the first seven digits of a number
    Unreadable   \* the prefixes whose record in the file is malformed

ASSUME TableAssumption ==
    /\ Table \in Seq(Nat)
    /\ \A i, j \in 1..Len(Table) : i < j => Table[i] < Table[j]

ASSUME PrefixesAssumption == Prefixes \subseteq Nat

VARIABLES
    prefix,       \* what is looked for
    left, right,  \* the bounds of the search
    search        \* where it is

searchVars == <<prefix, left, right, search>>

SearchStates == {"off", "searching", "found", "none", "unsearchable"}

SearchInit ==
    /\ prefix = 0
    /\ left = 0 /\ right = 0
    /\ search = "off"

Entry(i) == Table[i + 1]

(* Defect: the last entry is never looked at. *)
BeforeTheEnd == Len(Table) - 2

PastTheEnd == Len(Table)

(* A number of fewer than 7 or more than 11 digits has no location. *)
Find(digits, searchable) ==
    /\ search = "off"
    /\ prefix' = digits
    /\ IF searchable
       THEN left' = 0 /\ right' = PastTheEnd /\ search' = "searching"
       ELSE search' = "unsearchable" /\ UNCHANGED <<left, right>>

Middle == (left + right) \div 2

Ends(how) == search' = how /\ UNCHANGED <<left, right>>

(* Defect: the entry that was too small is looked at again. *)
Same == Middle

Above == Middle + 1

Look ==
    /\ search = "searching"
    /\ \/ left > right /\ Ends("none")
       \/ left <= right /\ Middle >= Len(Table) /\ Ends("none")
       \/ /\ left <= right /\ Middle < Len(Table)
          /\ \/ Entry(Middle) > prefix /\ right' = Middle - 1 /\ UNCHANGED <<left, search>>
             \/ Entry(Middle) < prefix /\ left' = Above /\ UNCHANGED <<right, search>>
             \/ Entry(Middle) = prefix /\ Ends(IF prefix \in Unreadable THEN "none" ELSE "found")
    /\ UNCHANGED prefix

SearchTypeOK ==
    /\ prefix \in Prefixes \cup {0}
    /\ left \in Nat /\ right \in Int
    /\ search \in SearchStates

(* The location is found exactly if the index has the prefix and its       *)
(* record can be read, at whatever end of the index it stands              *)
(* (phone_data.go Find).                                                   *)
LocationFound ==
    /\ search = "found" => \E i \in 1..Len(Table) : Table[i] = prefix
    /\ search = "none" /\ prefix \notin Unreadable =>
           \A i \in 1..Len(Table) : Table[i] # prefix
=============================================================================
