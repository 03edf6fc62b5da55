------------------------------ MODULE MCSpending ------------------------------
(* A small instance of Spending: the executor works for a project, a *)
(* request thread tests the connection.                              *)
EXTENDS Spending

CONSTANTS executor, request, novel, all

TwoCallers  == {executor, request}
ProjectOf   == [c \in TwoCallers |-> IF c = executor THEN novel ELSE all]
TwoAmounts  == {1, 2}
LimitValues == {2, 3}
=============================================================================
