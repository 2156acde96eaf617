------------------------------- MODULE MCInvoices -------------------------------
(* Small instances of Invoices for the model checker.                        *)
EXTENDS Invoices, TLC

(* Workspaces are interchangeable. *)
Symmetry == Permutations(Workspaces)
=============================================================================
