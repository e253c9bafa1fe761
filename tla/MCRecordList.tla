---------------------------- MODULE MCRecordList ----------------------------
(***************************************************************************)
(* Two lists, one of them with two pages.  A row of the first may name the *)
(* other, and one of the second a row of the first: a chain of references  *)
(* that a cascade does not follow to its end.                              *)
(***************************************************************************)
EXTENDS RecordList

MCRows == {1, 2, 3}
MCTableOf == <<"incidents", "incidents", "problems">>
MCLinks == {<<2, 1>>, <<3, 2>>}
MCKindOf == [l \in MCLinks |-> "nullable"]

=============================================================================
