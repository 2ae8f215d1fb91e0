-------------------------- MODULE MCDispatchQueue --------------------------
(***************************************************************************)
(* Model values for the checks of DispatchQueue.                           *)
(***************************************************************************)
EXTENDS DispatchBoard, TLC

\* Rows are interchangeable where none is gated or copied, printers always.
RowsAndPrinters == Permutations(Items) \union Permutations(Printers)
PrintersOnly    == Permutations(Printers)

=============================================================================
