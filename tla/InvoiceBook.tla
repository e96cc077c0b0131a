----------------------------- MODULE InvoiceBook -----------------------------
(***************************************************************************)
(* What invoicing promises, without drafts, locks or requests: a book to   *)
(* which documents are only added, each with the next number, in which     *)
(* credit notes take back no more of an entry than it charged.             *)
(***************************************************************************)
EXTENDS Integers, Sequences

CONSTANTS Rates, Firsts,
          Amounts  \* what an entry may net to at one rate

VARIABLES first,   \* the number of the first entry, 0 before it is set
          book,    \* the entries: what they credit (0: nothing) and their net per rate
          settled  \* the entries credited in full

bookVars == <<first, book, settled>>

Init == first = 0 /\ book = <<>> /\ settled = {}

Start(n) ==
  /\ book = <<>>
  /\ first' = n
  /\ UNCHANGED <<book, settled>>

(* What the credit notes in the book take of entry k at rate r. *)
Taken(entries, k, r) ==
  LET sum[n \in 0 .. Len(entries)] ==
        IF n = 0 THEN 0
        ELSE sum[n - 1] + (IF entries[n].of = k THEN entries[n].net[r] ELSE 0)
  IN  sum[Len(entries)]

Add(entry) ==
  /\ first # 0
  /\ book' = Append(book, entry)
  /\ UNCHANGED first

Charge(net) == Add([of |-> 0, net |-> net]) /\ UNCHANGED settled

Credit(k, net) ==
  /\ k \notin settled /\ book[k].of = 0
  /\ Add([of |-> k, net |-> net])
  /\ \A r \in Rates :
       LET taken == Taken(book', k, r)
           all   == book[k].net[r]
       IN  (0 <= taken /\ taken <= all) \/ (all <= taken /\ taken <= 0)
  /\ settled' = IF \A r \in Rates : Taken(book', k, r) = book[k].net[r]
                  THEN settled \cup {k} ELSE settled

Next ==
  \/ \E n \in Firsts : Start(n)
  \/ \E net \in [Rates -> Amounts] :
       Charge(net) \/ \E k \in 1 .. Len(book) : Credit(k, net)

Spec == Init /\ [][Next]_bookVars
=============================================================================
