----------------------------- MODULE MCSearchPage -----------------------------
(* Bounds for checking SearchPage: everything, one kind, one text.         *)
EXTENDS SearchPage, TLC

MCHits ==
  [q \in Queries |->
     IF q.text = Garbled THEN <<>>
     ELSE IF q.kinds = {} THEN (IF q.text = NoText THEN <<1, 2, 3, 4, 5>> ELSE <<2, 4, 5>>)
     ELSE IF q.text = NoText THEN <<1, 2, 3>> ELSE <<4>>]

KindSymmetry == Permutations(Kinds)
=============================================================================
