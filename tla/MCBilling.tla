------------------------------ MODULE MCBilling ------------------------------
(***************************************************************************)
(* Billing on small instances.  Bills depend on the figures, the stored    *)
(* data and the number of students who share the expenses, so that a       *)
(* change of any of the three between two steps shows in an invoice.       *)
(***************************************************************************)
EXTENDS Billing, FiniteSets, TLC

MCInvoiceOf ==
    [x \in Figure \X Input \X SUBSET Student |->
        [s \in Student |-> 1 + x[2] + (IF x[3] = Student THEN 2 ELSE 0)]]

MCChargeable == Input \X (SUBSET Student \ {{}})

Symmetry == Permutations(Session) \cup Permutations(Student) \cup Permutations(Utr)
==============================================================================
