----------------------------- MODULE VoucherBook -----------------------------
(***************************************************************************)
(* What the nightly send promises, without runs, leases, answers or time:  *)
(* of the entries handed to a connection each gets at most one voucher,    *)
(* in their order, and none is passed over but by a person's word.         *)
(***************************************************************************)
EXTENDS Naturals, Sequences

CONSTANTS LastEntry, Owners, NoOwner

Entries == 1 .. LastEntry

VARIABLES
  owner,   \* the connection each entry was handed to
  word,    \* whether a person has decided the entry
  series   \* the vouchers of the series, others' among them

bookVars == <<owner, word, series>>

Init ==
  /\ owner = [e \in Entries |-> NoOwner]
  /\ word = [e \in Entries |-> FALSE]
  /\ series = <<>>

InBook(e) == \E i \in DOMAIN series : series[i] = e

(* The next entries of the books go to a connection, for good.              *)
Entrust(S, c) ==
  /\ S # {} /\ \A e \in S : owner[e] = NoOwner
  /\ owner' = [e \in Entries |-> IF e \in S THEN c ELSE owner[e]]
  /\ UNCHANGED <<word, series>>

(* An entry's voucher, once, every earlier one of its connection's in the   *)
(* series or decided.                                                       *)
Voucher(e) ==
  /\ owner[e] # NoOwner /\ ~InBook(e)
  /\ \A f \in Entries : f < e /\ owner[f] = owner[e] => InBook(f) \/ word[f]
  /\ series' = Append(series, e)
  /\ UNCHANGED <<owner, word>>

OthersVoucher ==
  /\ series' = Append(series, 0)
  /\ UNCHANGED <<owner, word>>

Decide(S) ==
  /\ S # {} /\ \A e \in S : owner[e] # NoOwner /\ ~word[e]
  /\ word' = [e \in Entries |-> word[e] \/ e \in S]
  /\ UNCHANGED <<owner, series>>

Next ==
  \/ \E S \in SUBSET Entries : Decide(S) \/ \E c \in Owners : Entrust(S, c)
  \/ \E e \in Entries : Voucher(e)
  \/ OthersVoucher

Spec == Init /\ [][Next]_bookVars
=============================================================================
