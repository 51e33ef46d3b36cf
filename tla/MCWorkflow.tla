----------------------------- MODULE MCWorkflow -----------------------------
(***************************************************************************)
(* Workflow for TLC: statements of one or two currencies, whose value      *)
(* dates fall into two months of two days.                                 *)
(***************************************************************************)
EXTENDS Workflow

St(i, c, d, t) == [id |-> i, currency |-> c, date |-> d, type |-> t]

TwoStatements == {St(1, "CZK", 1, "DEPOSIT"), St(2, "CZK", 2, "DEPOSIT")}
ThreeStatements == TwoStatements \cup {St(3, "CZK", 3, "INTEREST")}
MixedStatements == {St(1, "CZK", 1, "DEPOSIT"), St(2, "CZK", 2, "INTEREST"),
                    St(3, "EUR", 2, "DEPOSIT")}
ForeignStatements == {St(1, "CZK", 1, "DEPOSIT"), St(2, "CZK", 2, "INTEREST"),
                      St(3, "USD", 2, "DEPOSIT")}
=============================================================================
