--------------------------- MODULE MCInvoiceLedger ---------------------------
(* Instances of InvoiceLedger for TLC.  A net of 4 carries a VAT of 1 at 25  *)
(* percent.                                                                  *)
EXTENDS InvoiceLedger, TLC

CONSTANTS i1, i2, i3, s1, s2

LedgerSymmetry == Permutations(Invoices) \cup Permutations(Slots)

Discounted == 0 :> {-5, -4} @@ 25 :> {4, 8}
Partial    == 25 :> {4, 8}

(* Bounds of the discounts' instance: nothing is marked sent (the race does  *)
(* that), and a document in another currency nets 8 at 25 percent or nothing. *)
DiscountBounds ==
  \A i \in Invoices : ~inv[i].sent /\ (inv[i].terms.currency # "SEK" => inv[i].lines.net \in {0 :> 0 @@ 25 :> 0, 0 :> 0 @@ 25 :> 8})
=============================================================================
