----------------------------- MODULE MailDelivery -----------------------------
(***************************************************************************)
(* What the email outbox promises, without rows, leases or drains: mail is *)
(* sent at least once or dropped for a reason, in the end one of the two,  *)
(* and nothing is sent for a mail that is settled.                         *)
(***************************************************************************)
EXTENDS Naturals

CONSTANT Mails

VARIABLES state,  \* what has become of each mail
          copies  \* how often the transport has taken it

mailVars == <<state, copies>>

MailTypeOK ==
  /\ state \in [Mails -> {"none", "waiting", "sent", "dropped"}]
  /\ copies \in [Mails -> Nat]

Init ==
  /\ state = [m \in Mails |-> "none"]
  /\ copies = [m \in Mails |-> 0]

(* A mail is made; one that was dropped may be made again. *)
Post(m) ==
  /\ state[m] \in {"none", "dropped"}
  /\ state' = [state EXCEPT ![m] = "waiting"]
  /\ UNCHANGED copies

(* The transport takes a copy, only while the mail waits. *)
Deliver(m) ==
  /\ state[m] = "waiting"
  /\ copies' = [copies EXCEPT ![m] = @ + 1]
  /\ UNCHANGED state

(* Recorded as sent, only after a copy was taken. *)
Confirm(m) ==
  /\ state[m] = "waiting" /\ copies[m] > 0
  /\ state' = [state EXCEPT ![m] = "sent"]
  /\ UNCHANGED copies

(* Some waiting mails are dropped together. *)
Drop(M) ==
  /\ M # {} /\ \A m \in M : state[m] = "waiting"
  /\ state' = [m \in Mails |-> IF m \in M THEN "dropped" ELSE state[m]]
  /\ UNCHANGED copies

Next ==
  \/ \E m \in Mails : Post(m) \/ Deliver(m) \/ Confirm(m)
  \/ \E M \in SUBSET Mails : Drop(M)

Settle(m) == Confirm(m) \/ \E M \in SUBSET Mails : m \in M /\ Drop(M)

SafeSpec == Init /\ [][Next]_mailVars

Spec == SafeSpec /\ \A m \in Mails : WF_mailVars(Settle(m))
=============================================================================
