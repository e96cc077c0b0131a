------------------------------ MODULE HourBook ------------------------------
(***************************************************************************)
(* What putting hours on invoices promises (C75, C80 of the repository's   *)
(* plan): every unit of tracked time is in one place, free, off the list,  *)
(* or on one invoice, and an issued invoice lets go of it by a credit only.*)
(* BilledHours implements it.                                              *)
(***************************************************************************)
CONSTANTS Units, Invoices, Free, Off

VARIABLES
  place,  \* where each unit of time is
  book    \* each invoice: "none", "DRAFT", "ISSUED", "PARTLY" (credited), "CREDITED"

vars == <<place, book>>

Init ==
  /\ place = [u \in Units |-> Free]
  /\ book = [i \in Invoices |-> "none"]

On(i)    == {u \in Units : place[u] = i}
FreeOnes == {u \in Units : place[u] = Free}
To(S, p) == place' = [u \in Units |-> IF u \in S THEN p ELSE place[u]]
Becomes(i, b) == book' = [book EXCEPT ![i] = b]

(* Free time is billed, on a draft; never other time, never on an issued    *)
(* invoice.                                                                 *)
Put(i)      == /\ book[i] \in {"none", "DRAFT"}
               /\ \E S \in (SUBSET FreeOnes) \ {{}} : To(S, i)
               /\ Becomes(i, "DRAFT")
TakeOff(i)  == /\ book[i] = "DRAFT"
               /\ \E S \in SUBSET On(i) : To(S, Free)
               /\ \E b \in {"DRAFT", "none"} : Becomes(i, b) /\ (b = "none" => On(i)' = {})
Issue(i)    == book[i] = "DRAFT" /\ Becomes(i, "ISSUED") /\ UNCHANGED place
CreditPart(i) == book[i] \in {"ISSUED", "PARTLY"} /\ Becomes(i, "PARTLY") /\ UNCHANGED place
Return(i)   == /\ book[i] = "PARTLY"
               /\ \E S \in (SUBSET On(i)) \ {{}} : To(S, Free)
               /\ UNCHANGED book
Credit(i)   == book[i] \in {"ISSUED", "PARTLY"} /\ Becomes(i, "CREDITED") /\ To(On(i), Free)
(* The corrected copy bills all that the original did.                      *)
Correct(i, j) == /\ book[i] = "ISSUED" /\ book[j] = "none"
                 /\ book' = [book EXCEPT ![i] = "CREDITED", ![j] = "DRAFT"]
                 /\ To(On(i), j)
SetAside    == \E S \in SUBSET FreeOnes : To(S, Off) /\ UNCHANGED book
BringBack   == \E S \in SUBSET On(Off) : To(S, Free) /\ UNCHANGED book

Next ==
  \/ \E i \in Invoices : \/ Put(i) \/ TakeOff(i) \/ Issue(i) \/ CreditPart(i) \/ Return(i) \/ Credit(i)
                         \/ \E j \in Invoices : Correct(i, j)
  \/ SetAside \/ BringBack

Spec == Init /\ [][Next]_vars
=============================================================================
