----------------------------- MODULE OutboxProofs -----------------------------
(***************************************************************************)
(* Proofs about Outbox, for any number of rows and drains: the inductive   *)
(* invariant IInv, and from it the safety properties the runs check.       *)
(***************************************************************************)
EXTENDS Outbox, TLAPS

(* Facts about constants, kept small for the record arithmetic below. *)
LEMMA ConstantFacts ==
  /\ 0 \in 0 .. Lease
  /\ NoDrain \in Drains \cup {NoDrain}
  /\ Drains \subseteq Drains \cup {NoDrain}
  /\ MaxAttempts \in Nat \ {0}
  /\ \A n \in 0 .. MaxAttempts - 1 : Backoff[n] \in Nat
  /\ {"QUEUED", "SENDING", "FAILED", "DEAD", "SENT", "SKIPPED", "SUPPRESSED", "ABSENT"} \subseteq Statuses
  BY OutboxAssumption DEF Statuses, Terminal

(* A row the claim or a drain closes is a row, with the attempts it had. *)
LEMMA ClosedRow ==
  ASSUME NEW x \in Row, NEW s \in Statuses, NEW tag \in BOOLEAN
  PROVE  /\ Closed(x, s, tag) \in Row
         /\ Closed(x, s, tag).status = s
         /\ Closed(x, s, tag).attempts = x.attempts
  <1>1. Closed(x, s, tag) \in Row
    BY ConstantFacts, Zenon DEF Closed, Row
  <1>2. Closed(x, s, tag).status = s /\ Closed(x, s, tag).attempts = x.attempts
    BY DEF Closed, Row
  <1> QED BY <1>1, <1>2

(* A row put back to the queue is a row, with the attempts it had. *)
LEMMA QueuedRow ==
  ASSUME NEW x \in Row, NEW w \in Nat
  PROVE  /\ Queued(x, w) \in Row
         /\ Queued(x, w).status = "QUEUED"
         /\ Queued(x, w).attempts = x.attempts
  <1>0. "QUEUED" \in Statuses
    BY ConstantFacts
  <1>1. Queued(x, w) \in Row
    BY <1>0, ConstantFacts, Zenon DEF Queued, Row
  <1>2. Queued(x, w).status = "QUEUED" /\ Queued(x, w).attempts = x.attempts
    BY DEF Queued, Row
  <1> QED BY <1>1, <1>2

(* So is one that the receiver's quiet hours hold back. *)
LEMMA HeldBackRow ==
  ASSUME NEW x \in Row, NEW w \in Nat, NEW h \in Nat
  PROVE  /\ [Queued(x, w) EXCEPT !.holds = h] \in Row
         /\ [Queued(x, w) EXCEPT !.holds = h].status = "QUEUED"
         /\ [Queued(x, w) EXCEPT !.holds = h].attempts = x.attempts
  BY QueuedRow DEF Row

(* The claim's UPDATE leases a row to its drain with a fresh stamp. *)
LEMMA LeasedRow ==
  ASSUME NEW x \in Row, NEW d \in Drains
  PROVE  /\ Leased(x, d) \in Row
         /\ Leased(x, d).status = "SENDING"
         /\ Leased(x, d).owner = d
         /\ Leased(x, d).lease = 0
         /\ Leased(x, d).attempts = x.attempts
  <1>0. "SENDING" \in Statuses /\ d \in Drains \cup {NoDrain}
    BY ConstantFacts
  <1>1. Leased(x, d) \in Row
    BY <1>0, ConstantFacts, Zenon DEF Leased, Row
  <1>2. /\ Leased(x, d).status = "SENDING" /\ Leased(x, d).owner = d
        /\ Leased(x, d).lease = 0 /\ Leased(x, d).attempts = x.attempts
    BY DEF Leased, Row
  <1> QED BY <1>1, <1>2

(* failureData: while tries are left, one more failure uses up one of them *)
(* and the row is dead exactly when that was the last.                      *)
LEMMA FailedRow ==
  ASSUME NEW x \in Row, x.attempts < MaxAttempts
  PROVE  LET y == Failed(x, x.attempts)
         IN  /\ y \in Row
             /\ y.attempts = x.attempts + 1
             /\ \/ y.status = "DEAD" /\ y.attempts = MaxAttempts
                \/ y.status = "FAILED" /\ y.attempts < MaxAttempts
  <1>0. x.attempts \in Nat
    BY DEF Row
  <1>1. CASE x.attempts + 1 >= MaxAttempts
    <2> DEFINE c == Closed(x, "DEAD", FALSE)
    <2>1. c \in Row /\ c.status = "DEAD" /\ c.attempts = x.attempts
      BY ConstantFacts, ClosedRow
    <2>2. Failed(x, x.attempts) = [c EXCEPT !.attempts = @ + 1]
      BY <1>1 DEF Failed
    <2> HIDE DEF c
    <2>3. [c EXCEPT !.attempts = @ + 1] \in Row
      BY <2>1 DEF Row
    <2>4. [c EXCEPT !.attempts = @ + 1].status = "DEAD" /\ [c EXCEPT !.attempts = @ + 1].attempts = x.attempts + 1
      BY <2>1 DEF Row
    <2> QED BY <1>0, <1>1, <2>2, <2>3, <2>4, ConstantFacts
  <1>2. CASE ~ (x.attempts + 1 >= MaxAttempts)
    <2> DEFINE c == Closed(x, "FAILED", FALSE)
               n == x.attempts + 1
               w == Backoff[x.attempts]
    <2>1. c \in Row /\ c.status = "FAILED" /\ c.attempts = x.attempts
      BY ConstantFacts, ClosedRow
    <2>2. Failed(x, x.attempts) = [c EXCEPT !.attempts = n, !.wait = w]
      BY <1>2, <2>1 DEF Failed
    <2>0. n \in Nat /\ w \in Nat
      BY <1>0, <1>2, ConstantFacts
    <2> HIDE DEF c, n, w
    <2>3. [c EXCEPT !.attempts = n, !.wait = w] \in Row
      BY <2>0, <2>1 DEF Row
    <2>4. [c EXCEPT !.attempts = n, !.wait = w].status = "FAILED" /\ [c EXCEPT !.attempts = n, !.wait = w].attempts = n
      BY <2>1 DEF Row
    <2> QED BY <1>0, <1>2, <2>2, <2>3, <2>4, ConstantFacts DEF n
  <1> QED BY <1>1, <1>2

-----------------------------------------------------------------------------
(* The inductive invariant, one row and one drain at a time. *)

Fit(x, r) ==
  /\ x \in Row
  /\ x.attempts <= MaxAttempts
  /\ x.status \in {"ABSENT", "QUEUED", "FAILED", "SENDING"} => x.attempts < MaxAttempts
  /\ x.status = "DEAD" => x.attempts = MaxAttempts \/ Kind[r] = "retired"

Holds(x) == x.todo \cup x.ready \cup x.cur

Pace(x) ==
  Holds(x) # {} =>
    /\ x.age < Lease
    /\ x.phase = "none" => x.busy = 0
    /\ x.phase = "counting" => x.busy <= CallTime /\ x.age <= RecountBudget + x.busy
    /\ x.phase = "sending" => x.busy <= CallTime /\ x.age <= SendBudget + x.busy

Sound(x) == x \in Drain /\ Orderly(x) /\ Pace(x)

RowsInv == row \in [Rows -> Row] /\ \A r \in Rows : Fit(row[r], r)

DrainsInv == drain \in [Drains -> Drain] /\ \A d \in Drains : Sound(drain[d])

CountsInv ==
  /\ suppressed \subseteq Rows
  /\ delivered \in [Rows -> Nat]
  /\ lost \in [Rows -> Nat]
  /\ faults \in 0 .. MaxFaults

IInv == RowsInv /\ DrainsInv /\ CountsInv /\ HeldIsLeased /\ DeliveryAccount

(* What a drain holds is read off its record alone. *)
LEMMA HeldHolds == \A d : Held(d) = Holds(drain[d])
  BY DEF Held, Holds

(* An idle drain is sound. *)
LEMMA NewDrainSound == Sound(NewDrain) /\ Holds(NewDrain) = {} /\ NewDrain.phase = "none"
  <1>1. NewDrain \in Drain
    BY OutboxAssumption DEF NewDrain, Drain, Phases, Answers
  <1>2. Orderly(NewDrain) /\ Holds(NewDrain) = {} /\ NewDrain.phase = "none"
    BY DEF NewDrain, Orderly, Holds
  <1> QED BY <1>1, <1>2 DEF Sound, Pace

(* A drain that returns with nothing in hand forgets only its memory. *)
LEMMA RestSound ==
  ASSUME NEW x, Sound(x)
  PROVE  /\ Sound(Rest(x))
         /\ Holds(Rest(x)) = Holds(x)
         /\ Holds(x) # {} => Rest(x) = x
         /\ Holds(x) = {} => Rest(x) = NewDrain
         /\ Rest(x).cur = x.cur
         /\ Rest(x).phase = x.phase
  <1>1. CASE Holds(x) = {}
    <2>1. Rest(x) = NewDrain /\ x.cur = {}
      BY <1>1 DEF Rest, Holds
    <2>2. x.phase = "none"
      BY <2>1 DEF Sound, Orderly
    <2> QED BY <1>1, <2>1, <2>2, NewDrainSound DEF Holds
  <1>2. CASE Holds(x) # {}
    BY <1>2 DEF Rest, Holds
  <1> QED BY <1>1, <1>2

(* Done with its current row, a drain is sound and keeps its other rows. *)
LEMMA DoneSound ==
  ASSUME NEW d \in Drains, IInv
  PROVE  /\ Sound(Done(d))
         /\ Done(d).cur = {} /\ Done(d).phase = "none" /\ Done(d).busy = 0
         /\ Done(d).todo = drain[d].todo /\ Done(d).ready = drain[d].ready
         /\ Done(d).age = drain[d].age /\ Done(d).snap = drain[d].snap
         /\ Done(d).gone = drain[d].gone /\ Done(d).streak = drain[d].streak
  <1>1. drain[d] \in Drain /\ Sound(drain[d])
    BY DEF IInv, DrainsInv
  <1>2. /\ Done(d).cur = {} /\ Done(d).phase = "none" /\ Done(d).busy = 0
        /\ Done(d).todo = drain[d].todo /\ Done(d).ready = drain[d].ready
        /\ Done(d).age = drain[d].age /\ Done(d).snap = drain[d].snap
        /\ Done(d).gone = drain[d].gone /\ Done(d).streak = drain[d].streak
    BY <1>1 DEF Done, Drain
  <1>3. Done(d) \in Drain
    <2>1. "none" \in Phases /\ {} \in SUBSET Rows /\ 0 \in Nat
      BY DEF Phases
    <2> QED BY <1>1, <2>1 DEF Done, Drain
  <1>4. Orderly(Done(d)) /\ Pace(Done(d))
    BY <1>1, <1>2 DEF Sound, Orderly, Pace, Holds
  <1> QED BY <1>2, <1>3, <1>4 DEF Sound

(* An empty table and idle drains satisfy the invariant. *)
LEMMA InitIInv == Init => IInv
  <1> SUFFICES ASSUME Init PROVE IInv  OBVIOUS
  <1>1. NoRow \in Row /\ NoRow.attempts = 0 /\ NoRow.status = "ABSENT"
    BY ConstantFacts, Zenon DEF NoRow, Row
  <1>2. RowsInv
    BY <1>1, ConstantFacts DEF Init, RowsInv, Fit
  <1>3. DrainsInv /\ HeldIsLeased /\ DeliveryAccount
    BY <1>1, NewDrainSound
    DEF Init, DrainsInv, Sound, HeldIsLeased, Held, Holds, DeliveryAccount, Unrecorded
  <1>4. CountsInv
    BY OutboxAssumption DEF Init, CountsInv
  <1> QED BY <1>2, <1>3, <1>4 DEF IInv

-----------------------------------------------------------------------------
(* A row nobody holds, neither leased nor sent, goes to the queue. *)
LEMMA RequeueIInv ==
  ASSUME IInv, NEW r \in Rows, NEW x, Fit(x, r), x.status = "QUEUED",
         row[r].status \notin {"SENDING", "SENT"},
         row' = [row EXCEPT ![r] = x],
         UNCHANGED <<drain, delivered, lost, faults, suppressed>>
  PROVE  IInv'
  <1>1. RowsInv'
    BY DEF IInv, RowsInv, Fit
  <1>2. DrainsInv'
    BY DEF IInv, DrainsInv
  <1>3. CountsInv'
    BY DEF IInv, CountsInv
  <1>4. HeldIsLeased'
    BY DEF IInv, HeldIsLeased, Held, RowsInv
  <1>5. DeliveryAccount'
    BY DEF IInv, DeliveryAccount, Unrecorded, RowsInv
  <1> QED BY <1>1, <1>2, <1>3, <1>4, <1>5 DEF IInv

(* A queued row has the tries it had, held back or not. *)
LEMMA QueuedFit ==
  ASSUME NEW x, NEW r \in Rows, Fit(x, r), x.attempts < MaxAttempts, NEW w \in Nat
  PROVE  Fit(Queued(x, w), r) /\ \A h \in Nat : Fit([Queued(x, w) EXCEPT !.holds = h], r)
  BY QueuedRow, HeldBackRow, ConstantFacts DEF Fit, Row

(* emitNotification and its like make a row that no drain holds. *)
LEMMA EnqueueIInv == ASSUME IInv, NEW r \in Rows, Enqueue(r) PROVE IInv'
  <1>1. PICK w \in 0 .. MaxDelay, h \in {0, 1} :
          row' = [row EXCEPT ![r] = [Queued(row[r], w) EXCEPT !.holds = h]]
    BY DEF Enqueue
  <1>2. Fit(row[r], r) /\ row[r].status = "ABSENT"
    BY DEF Enqueue, IInv, RowsInv
  <1>3. w \in Nat /\ h \in Nat
    BY OutboxAssumption
  <1>4. row[r].attempts < MaxAttempts
    BY <1>2 DEF Fit
  <1>5. /\ Fit([Queued(row[r], w) EXCEPT !.holds = h], r)
        /\ [Queued(row[r], w) EXCEPT !.holds = h].status = "QUEUED"
    BY <1>2, <1>3, <1>4, QueuedFit, HeldBackRow DEF Fit
  <1> QED BY <1>1, <1>2, <1>5, RequeueIInv DEF Enqueue

(* enqueueReportMails replaces a row closed unsent, which no drain holds. *)
LEMMA RemakeIInv == ASSUME IInv, NEW r \in Rows, Remake(r) PROVE IInv'
  <1>1. row[r].status = "SKIPPED" /\ row' = [row EXCEPT ![r] = Queued(NoRow, 0)]
    BY DEF Remake
  <1>2. drain' = drain
    <2>1. \A d \in Drains : r \notin Held(d)
      BY <1>1 DEF IInv, HeldIsLeased
    <2> QED BY <2>1 DEF Remake, IInv, DrainsInv
  <1>3. NoRow \in Row /\ NoRow.attempts = 0 /\ NoRow.status = "ABSENT"
    BY ConstantFacts, Zenon DEF NoRow, Row
  <1>4. Fit(Queued(NoRow, 0), r) /\ Queued(NoRow, 0).status = "QUEUED"
    BY <1>3, ConstantFacts, QueuedRow, 0 \in Nat DEF Fit
  <1>5. UNCHANGED <<drain, delivered, lost, faults, suppressed>>
    BY <1>2 DEF Remake
  <1> QED BY <1>1, <1>4, <1>5, RequeueIInv

(* retimeHeldMail moves the time of a queued row, which no drain holds. *)
LEMMA RetimeIInv == ASSUME IInv, NEW r \in Rows, Retime(r) PROVE IInv'
  <1>1. PICK w \in 0 .. MaxDelay :
          row' = [row EXCEPT ![r] = [Queued(row[r], w) EXCEPT !.holds = row[r].holds + 1]]
    BY DEF Retime
  <1>2. Fit(row[r], r) /\ row[r].status = "QUEUED"
    BY DEF Retime, IInv, RowsInv
  <1>3. w \in Nat /\ row[r].holds + 1 \in Nat /\ row[r].attempts < MaxAttempts
    <2>1. w \in Nat
      BY OutboxAssumption
    <2>2. row[r].holds \in Nat /\ row[r].attempts < MaxAttempts
      BY <1>2, Zenon DEF Fit, Row
    <2> QED BY <2>1, <2>2
  <1>4. /\ Fit([Queued(row[r], w) EXCEPT !.holds = row[r].holds + 1], r)
        /\ [Queued(row[r], w) EXCEPT !.holds = row[r].holds + 1].status = "QUEUED"
    BY <1>2, <1>3, QueuedFit, HeldBackRow DEF Fit
  <1> QED BY <1>1, <1>2, <1>4, RequeueIInv DEF Retime

(* A bounce, or support lifting a block, touches no row. *)
LEMMA SuppressionIInv == ASSUME IInv, NEW r \in Rows, Block(r) \/ Lift(r) PROVE IInv'
  BY DEF Block, Lift, IInv, RowsInv, DrainsInv, CountsInv, HeldIsLeased, Held,
         DeliveryAccount, Unrecorded

-----------------------------------------------------------------------------
(* A drain takes a row in hand, or gives one up: the table stays. *)
LEMMA MoveIInv ==
  ASSUME IInv, NEW d \in Drains, NEW x, Sound(x), Holds(x) \subseteq Held(d),
         Holds(x) # {} => x.age = drain[d].age /\ x.snap = drain[d].snap,
         x.phase # "accepted", drain[d].phase # "accepted",
         drain' = [drain EXCEPT ![d] = x],
         UNCHANGED <<row, suppressed, delivered, lost, faults>>
  PROVE  IInv'
  <1>1. RowsInv' /\ CountsInv'
    BY DEF IInv, RowsInv, CountsInv
  <1>2. DrainsInv'
    BY DEF IInv, DrainsInv, Sound
  <1>3. HeldIsLeased'
    BY HeldHolds DEF IInv, HeldIsLeased, Held, Holds, DrainsInv
  <1>4. DeliveryAccount'
    BY DEF IInv, DeliveryAccount, Unrecorded, DrainsInv
  <1> QED BY <1>1, <1>2, <1>3, <1>4 DEF IInv

(* A recount begins: a row moves from todo to cur. *)
LEMMA RecountBeginIInv == ASSUME IInv, NEW d \in Drains, RecountBegin(d) PROVE IInv'
  <1>1. PICK r \in drain[d].todo :
          drain' = [drain EXCEPT ![d].todo = @ \ {r}, ![d].cur = {r}, ![d].phase = "counting"]
    BY DEF RecountBegin
  <1> DEFINE old == drain[d]
             x == [old EXCEPT !.todo = old.todo \ {r}, !.cur = {r}, !.phase = "counting"]
  <1>2. old \in Drain /\ Sound(old) /\ drain \in [Drains -> Drain]
    BY DEF IInv, DrainsInv, Sound
  <1>3. drain' = [drain EXCEPT ![d] = x]
    BY <1>1, <1>2 DEF Drain
  <1>4. /\ x.todo = old.todo \ {r} /\ x.cur = {r} /\ x.phase = "counting"
        /\ x.ready = old.ready /\ x.age = old.age /\ x.busy = old.busy /\ x.snap = old.snap
    BY <1>2 DEF Drain
  <1>5. x \in Drain
    <2>1. old.todo \ {r} \in SUBSET Rows /\ {r} \in SUBSET Rows /\ "counting" \in Phases
      BY <1>2 DEF Drain, Phases
    <2> QED BY <1>2, <2>1 DEF Drain
  <1>6. old.phase = "none" /\ old.busy = 0 /\ old.age <= RecountBudget /\ r \in old.todo /\ old.cur = {}
    BY <1>2 DEF RecountBegin, Sound, Orderly, Pace, Holds
  <1>7. Orderly(x)
    BY <1>2, <1>4, <1>6 DEF Sound, Orderly
  <1>8. Pace(x) /\ Holds(x) \subseteq Held(d)
    BY <1>2, <1>4, <1>6, HeldHolds, OutboxAssumption DEF Sound, Pace, Holds, Drain
  <1> HIDE DEF x
  <1> QED
    BY <1>3, <1>4, <1>5, <1>6, <1>7, <1>8, MoveIInv DEF RecountBegin, Sound

(* A send begins: a row moves from ready to cur. *)
LEMMA SendBeginIInv == ASSUME IInv, NEW d \in Drains, SendBegin(d) PROVE IInv'
  <1>1. PICK r \in drain[d].ready, p \in {"sending", "blocked", "failed"} :
          drain' = [drain EXCEPT ![d].ready = @ \ {r}, ![d].cur = {r}, ![d].phase = p]
    BY DEF SendBegin
  <1> DEFINE old == drain[d]
             x == [old EXCEPT !.ready = old.ready \ {r}, !.cur = {r}, !.phase = p]
  <1>2. old \in Drain /\ Sound(old) /\ drain \in [Drains -> Drain]
    BY DEF IInv, DrainsInv, Sound
  <1>3. drain' = [drain EXCEPT ![d] = x]
    BY <1>1, <1>2 DEF Drain
  <1>4. /\ x.ready = old.ready \ {r} /\ x.cur = {r} /\ x.phase = p
        /\ x.todo = old.todo /\ x.age = old.age /\ x.busy = old.busy /\ x.snap = old.snap
    BY <1>2 DEF Drain
  <1>5. x \in Drain
    <2>1. old.ready \ {r} \in SUBSET Rows /\ {r} \in SUBSET Rows /\ p \in Phases
      BY <1>2 DEF Drain, Phases, Answers
    <2> QED BY <1>2, <2>1 DEF Drain
  <1>6. old.phase = "none" /\ old.busy = 0 /\ old.age <= SendBudget /\ r \in old.ready /\ old.cur = {}
    BY <1>2, OutboxAssumption DEF SendBegin, Exhausted, Sound, Orderly, Pace, Holds, Drain
  <1>7. Orderly(x)
    BY <1>2, <1>4, <1>6 DEF Sound, Orderly
  <1>8. Pace(x) /\ Holds(x) \subseteq Held(d)
    BY <1>2, <1>4, <1>6, HeldHolds, OutboxAssumption DEF Sound, Pace, Holds, Drain
  <1> HIDE DEF x
  <1> QED
    BY <1>3, <1>4, <1>5, <1>6, <1>7, <1>8, MoveIInv DEF SendBegin, Sound

-----------------------------------------------------------------------------
(* A drain deals with its current row, whether the write lands or not. *)
LEMMA WriteIInv ==
  ASSUME IInv, NEW d \in Drains, NEW r \in drain[d].cur, NEW x, NEW y,
         Sound(x), Holds(x) \subseteq Held(d) \ {r},
         Holds(x) # {} => x.age = drain[d].age /\ x.snap = drain[d].snap,
         x.phase = "none",
         Fit(y, r), y.status = "SENT" <=> drain[d].phase = "accepted",
         drain' = [drain EXCEPT ![d] = x],
         Write(d, r, y),
         UNCHANGED <<suppressed, delivered>>
  PROVE  IInv'
  <1>1. r \in Rows /\ drain \in [Drains -> Drain] /\ Sound(drain[d]) /\ drain[d].cur = {r}
    BY DEF IInv, DrainsInv, Sound, Orderly, Drain
  <1>2. row[r].status = "SENDING" /\ r \in Held(d) /\ \A e \in Drains \ {d} : r \notin Held(e)
    BY DEF IInv, HeldIsLeased, Held
  <1>3. DrainsInv'
    BY DEF IInv, DrainsInv, Sound
  <1>4. CASE row' = [row EXCEPT ![r] = y] /\ UNCHANGED <<lost, faults>>
    <2>1. RowsInv' /\ CountsInv'
      BY <1>1, <1>4 DEF IInv, RowsInv, CountsInv, Fit
    <2>2. HeldIsLeased'
      BY <1>1, <1>2, <1>4 DEF IInv, RowsInv, HeldIsLeased, Held, Holds
    <2>3. DeliveryAccount'
      BY <1>1, <1>2, <1>4 DEF IInv, RowsInv, DeliveryAccount, Unrecorded, Held
    <2> QED BY <1>3, <2>1, <2>2, <2>3 DEF IInv
  <1>5. CASE Unwritten(d, r) /\ (faults' = faults \/ (faults < MaxFaults /\ faults' = faults + 1))
    <2>1. RowsInv' /\ CountsInv'
      <3>1. \A n \in Nat : n + (IF Unrecorded(d, r) THEN 1 ELSE 0) \in Nat
        OBVIOUS
      <3>2. lost' \in [Rows -> Nat] /\ row' = row
        BY <1>1, <1>5, <3>1 DEF Unwritten, IInv, CountsInv
      <3>3. faults' \in 0 .. MaxFaults
        BY <1>5, OutboxAssumption DEF IInv, CountsInv
      <3> QED BY <3>2, <3>3 DEF IInv, RowsInv, CountsInv
    <2>2. HeldIsLeased'
      BY <1>1, <1>2, <1>5 DEF Unwritten, IInv, HeldIsLeased, Held, Holds
    <2>3. DeliveryAccount'
      <3>1. \A q \in Rows, e \in Drains : Unrecorded(e, q)' <=> Unrecorded(e, q) /\ e # d
        BY <1>1, <1>2, <1>5 DEF Unwritten, Unrecorded, Held
      <3>2. \A e \in Drains : Unrecorded(e, r) => e = d
        BY <1>2 DEF Unrecorded, Held
      <3>3. \A q \in Rows : Unrecorded(d, q) => q = r
        BY <1>1 DEF Unrecorded
      <3>4. \A q \in Rows : lost'[q] = IF q = r /\ Unrecorded(d, r) THEN lost[q] + 1 ELSE lost[q]
        BY <1>1, <1>5 DEF Unwritten, IInv, CountsInv
      <3>5. row' = row /\ delivered' = delivered /\ lost \in [Rows -> Nat] /\ delivered \in [Rows -> Nat]
        BY <1>5 DEF Unwritten, IInv, CountsInv
      <3> QED BY <1>1, <1>2, <3>1, <3>2, <3>3, <3>4, <3>5 DEF IInv, DeliveryAccount
    <2> QED BY <1>3, <2>1, <2>2, <2>3 DEF IInv
  <1>6. \/ row' = [row EXCEPT ![r] = y] /\ UNCHANGED <<lost, faults>>
        \/ Unwritten(d, r) /\ (faults' = faults \/ (faults < MaxFaults /\ faults' = faults + 1))
    BY DEF Write
  <1> QED BY <1>4, <1>5, <1>6

(* A row closed unsent needs no tries. *)
LEMMA ClosedFit ==
  ASSUME NEW x, NEW r \in Rows, Fit(x, r), NEW s \in {"SKIPPED", "SUPPRESSED"}, NEW tag \in BOOLEAN
  PROVE  Fit(Closed(x, s, tag), r) /\ Closed(x, s, tag).status = s
  <1> DEFINE y == Closed(x, s, tag)
  <1>1. s \in Statuses
    BY ConstantFacts
  <1>2. y \in Row /\ y.status = s /\ y.attempts = x.attempts
    BY <1>1, ClosedRow DEF Fit
  <1> HIDE DEF y
  <1>3. Fit(y, r) /\ y.status = s
    BY <1>2 DEF Fit
  <1> QED BY <1>3 DEF y

(* A failed row has tries left, or is dead without any. *)
LEMMA FailedFit ==
  ASSUME NEW x, NEW r \in Rows, Fit(x, r), x.attempts < MaxAttempts
  PROVE  Fit(Failed(x, x.attempts), r) /\ Failed(x, x.attempts).status \in {"FAILED", "DEAD"}
  <1> DEFINE y == Failed(x, x.attempts)
  <1>1. /\ y \in Row
        /\ \/ y.status = "DEAD" /\ y.attempts = MaxAttempts
           \/ y.status = "FAILED" /\ y.attempts < MaxAttempts
    BY FailedRow DEF Fit
  <1> HIDE DEF y
  <1>2. Fit(y, r) /\ y.status \in {"FAILED", "DEAD"}
    BY <1>1, ConstantFacts DEF Fit, Row
  <1> QED BY <1>2 DEF y

(* What is left in hand once the current row is dealt with. *)
LEMMA DoneRest ==
  ASSUME IInv, NEW d \in Drains, NEW r \in drain[d].cur, NEW x, Sound(x),
         x.todo = drain[d].todo, x.ready = drain[d].ready, x.cur = {},
         x.age = drain[d].age, x.snap = drain[d].snap, x.phase = "none"
  PROVE  /\ Sound(Rest(x)) /\ Holds(Rest(x)) \subseteq Held(d) \ {r}
         /\ Holds(Rest(x)) # {} => Rest(x).age = drain[d].age /\ Rest(x).snap = drain[d].snap
         /\ Rest(x).phase = "none"
  <1>1. Holds(x) \subseteq Held(d) \ {r}
    BY DEF IInv, DrainsInv, Sound, Orderly, Holds, Held
  <1> QED BY <1>1, RestSound

(* A recount ends: the row is ready to send, or closed unsent. *)
LEMMA RecountEndIInv == ASSUME IInv, NEW d \in Drains, RecountEnd(d) PROVE IInv'
  <1> USE DEF RecountEnd
  <1>0. PICK r \in drain[d].cur :
          \/ /\ drain' = [drain EXCEPT ![d] = [Done(d) EXCEPT !.ready = @ \cup {r}]]
             /\ UNCHANGED <<row, lost, faults>>
          \/ /\ \E y \in {Closed(row[r], "SKIPPED", TRUE), Failed(row[r], drain[d].snap[r])}
                         \cup (IF Kind[r] = "summary" THEN {Closed(row[r], "SKIPPED", FALSE)} ELSE {}) :
                  Write(d, r, y)
             /\ drain' = [drain EXCEPT ![d] = Rest(Done(d))]
    OBVIOUS
  <1>1. /\ r \in Rows /\ drain \in [Drains -> Drain] /\ drain[d] \in Drain /\ Sound(drain[d])
        /\ drain[d].cur = {r}
    BY DEF IInv, DrainsInv, Sound, Orderly, Drain
  <1>2. Fit(row[r], r) /\ row[r].status = "SENDING" /\ drain[d].snap[r] = row[r].attempts
    BY <1>1 DEF IInv, RowsInv, HeldIsLeased, Held
  <1>3. CASE /\ drain' = [drain EXCEPT ![d] = [Done(d) EXCEPT !.ready = @ \cup {r}]]
             /\ UNCHANGED <<row, lost, faults>>
    <2> DEFINE done == Done(d)
               x == [done EXCEPT !.ready = done.ready \cup {r}]
    <2>1. /\ Sound(done) /\ done \in Drain /\ done.cur = {} /\ done.phase = "none" /\ done.busy = 0
          /\ done.todo = drain[d].todo /\ done.ready = drain[d].ready
          /\ done.age = drain[d].age /\ done.snap = drain[d].snap
      BY DoneSound DEF Sound
    <2> HIDE DEF done
    <2>2. /\ x.ready = drain[d].ready \cup {r} /\ x.todo = drain[d].todo /\ x.cur = {}
          /\ x.phase = "none" /\ x.busy = 0 /\ x.age = drain[d].age /\ x.snap = drain[d].snap
      BY <2>1 DEF Drain
    <2>3. x \in Drain
      <3>1. done.ready \cup {r} \in SUBSET Rows
        BY <1>1, <2>1 DEF Drain
      <3> QED BY <2>1, <3>1 DEF Drain
    <2>4. drain' = [drain EXCEPT ![d] = x]
      BY <1>3 DEF done
    <2> HIDE DEF x
    <2>5. Holds(x) = Held(d) /\ Orderly(x) /\ Pace(x)
      BY <1>1, <2>2 DEF Sound, Orderly, Pace, Holds, Held
    <2> QED BY <1>3, <2>2, <2>3, <2>4, <2>5, MoveIInv DEF Sound
  <1>4. CASE /\ \E y \in {Closed(row[r], "SKIPPED", TRUE), Failed(row[r], drain[d].snap[r])}
                         \cup (IF Kind[r] = "summary" THEN {Closed(row[r], "SKIPPED", FALSE)} ELSE {}) :
                  Write(d, r, y)
             /\ drain' = [drain EXCEPT ![d] = Rest(Done(d))]
    <2>1. PICK y : /\ Write(d, r, y)
                   /\ \/ y \in {Closed(row[r], "SKIPPED", TRUE), Closed(row[r], "SKIPPED", FALSE)}
                      \/ y = Failed(row[r], row[r].attempts)
      BY <1>2, <1>4
    <2>2. Fit(y, r) /\ y.status # "SENT"
      <3>1. CASE y = Failed(row[r], row[r].attempts)
        BY <1>1, <1>2, <3>1, FailedFit DEF Fit
      <3>2. ASSUME NEW tag \in BOOLEAN, y = Closed(row[r], "SKIPPED", tag)
            PROVE  Fit(y, r) /\ y.status # "SENT"
        BY <1>1, <1>2, <3>2, ClosedFit
      <3> QED BY <2>1, <3>1, <3>2
    <2> DEFINE x == Rest(Done(d))
    <2>3. /\ Sound(x) /\ Holds(x) \subseteq Held(d) \ {r} /\ x.phase = "none"
          /\ Holds(x) # {} => x.age = drain[d].age /\ x.snap = drain[d].snap
      BY DoneSound, DoneRest
    <2> HIDE DEF x
    <2>4. drain' = [drain EXCEPT ![d] = x]
      BY <1>4 DEF x
    <2> QED BY <2>1, <2>2, <2>3, <2>4, WriteIInv
  <1> QED BY <1>0, <1>3, <1>4

(* The transport answers: an acceptance is about to be recorded, or lost by *)
(* the fault that hides it from the drain.                                  *)
LEMMA AnswerIInv == ASSUME IInv, NEW d \in Drains, Answer(d) PROVE IInv'
  <1>1. PICK r \in drain[d].cur, a \in {"accepted", "refused", "failed"} :
          /\ drain' = [drain EXCEPT ![d].phase = a]
          /\ \/ a = "accepted" /\ delivered' = [delivered EXCEPT ![r] = @ + 1] /\ lost' = lost /\ faults' = faults
             \/ a # "accepted" /\ delivered' = delivered /\ lost' = lost /\ faults' = faults
             \/ /\ a = "failed" /\ faults < MaxFaults
                /\ faults' = faults + 1
                /\ delivered' = [delivered EXCEPT ![r] = @ + 1]
                /\ lost' = [lost EXCEPT ![r] = @ + 1]
    BY DEF Answer
  <1>2. /\ r \in Rows /\ drain \in [Drains -> Drain] /\ drain[d] \in Drain /\ Sound(drain[d])
        /\ drain[d].cur = {r} /\ drain[d].phase = "sending"
    BY DEF Answer, IInv, DrainsInv, Sound, Orderly, Drain
  <1>3. row[r].status = "SENDING" /\ r \in Held(d) /\ \A e \in Drains \ {d} : r \notin Held(e)
    BY <1>2 DEF IInv, HeldIsLeased, Held
  <1> DEFINE old == drain[d]
             x == [old EXCEPT !.phase = a]
  <1>4. /\ x.todo = old.todo /\ x.ready = old.ready /\ x.cur = old.cur /\ x.phase = a
        /\ x.age = old.age /\ x.busy = old.busy /\ x.snap = old.snap
    BY <1>2 DEF Drain
  <1>5. x \in Drain
    <2>1. a \in Phases
      BY DEF Phases, Answers
    <2> QED BY <1>2, <2>1 DEF Drain
  <1>6. drain' = [drain EXCEPT ![d] = x]
    BY <1>1, <1>2
  <1> HIDE DEF x
  <1>7. Sound(x) /\ Holds(x) = Held(d)
    BY <1>2, <1>4, <1>5 DEF Sound, Orderly, Pace, Holds, Held
  <1>8. RowsInv' /\ row' = row
    BY DEF Answer, IInv, RowsInv
  <1>9. DrainsInv'
    BY <1>6, <1>7 DEF IInv, DrainsInv, Sound
  <1>10. CountsInv'
    <2>1. delivered' \in [Rows -> Nat] /\ lost' \in [Rows -> Nat]
      BY <1>1, <1>2 DEF IInv, CountsInv
    <2>2. faults' \in 0 .. MaxFaults
      BY <1>1, OutboxAssumption DEF IInv, CountsInv
    <2> QED BY <2>1, <2>2 DEF Answer, IInv, CountsInv
  <1>11. HeldIsLeased'
    BY <1>2, <1>4, <1>6, <1>7, <1>8 DEF IInv, HeldIsLeased, Held, Holds
  <1>12. DeliveryAccount'
    <2>1. \A q \in Rows, e \in Drains :
            Unrecorded(e, q)' <=> IF e = d THEN q = r /\ a = "accepted" ELSE Unrecorded(e, q)
      BY <1>2, <1>4, <1>6 DEF Unrecorded
    <2>2. \A e \in Drains : ~ Unrecorded(e, r)
      BY <1>2, <1>3 DEF Unrecorded, Held
    <2>3. \A q \in Rows : ~ Unrecorded(d, q)
      BY <1>2 DEF Unrecorded
    <2>4. lost \in [Rows -> Nat] /\ delivered \in [Rows -> Nat]
      BY DEF IInv, CountsInv
    <2>5. \A q \in Rows \ {r} :
            /\ delivered'[q] = delivered[q] /\ lost'[q] = lost[q]
            /\ (\E e \in Drains : Unrecorded(e, q)') <=> (\E e \in Drains : Unrecorded(e, q))
      BY <1>1, <2>1, <2>3, <2>4
    <2>6. /\ a = "accepted" => delivered'[r] = delivered[r] + 1 /\ lost'[r] = lost[r]
          /\ a # "accepted" => delivered'[r] - delivered[r] = lost'[r] - lost[r]
      BY <1>1, <1>2, <2>4
    <2>7. delivered[r] = lost[r]
      BY <1>2, <1>3, <2>2, <2>4 DEF IInv, DeliveryAccount
    <2>8. (\E e \in Drains : Unrecorded(e, r)') <=> a = "accepted"
      BY <1>2, <2>1, <2>2
    <2>9. /\ delivered'[r] \in Nat /\ lost'[r] \in Nat /\ delivered[r] \in Nat /\ lost[r] \in Nat
      BY <1>2, <1>10, <2>4 DEF CountsInv
    <2>10. delivered'[r] = lost'[r] + (IF row'[r].status = "SENT" \/ \E e \in Drains : Unrecorded(e, r)'
                                        THEN 1 ELSE 0)
      BY <1>3, <1>8, <2>6, <2>7, <2>8, <2>9
    <2>11. ASSUME NEW q \in Rows \ {r}
           PROVE delivered'[q] = lost'[q] + (IF row'[q].status = "SENT" \/ \E e \in Drains : Unrecorded(e, q)'
                                        THEN 1 ELSE 0)
      <3>1. delivered[q] = lost[q] + (IF row[q].status = "SENT" \/ \E e \in Drains : Unrecorded(e, q)
                                        THEN 1 ELSE 0)
        BY DEF IInv, DeliveryAccount
      <3>2. row'[q].status = "SENT" <=> row[q].status = "SENT"
        BY <1>8
      <3>3. delivered'[q] = delivered[q] /\ lost'[q] = lost[q]
        BY <2>5
      <3>4. CASE \E e \in Drains : Unrecorded(e, q)
        BY <2>5, <3>1, <3>3, <3>4
      <3>5. CASE ~ \E e \in Drains : Unrecorded(e, q)
        BY <2>5, <3>1, <3>2, <3>3, <3>5
      <3> QED BY <3>4, <3>5
    <2> QED BY <2>10, <2>11 DEF DeliveryAccount
  <1> QED BY <1>8, <1>9, <1>10, <1>11, <1>12 DEF IInv

(* The answer is written: an accepted mail's row is SENT, or the acceptance *)
(* is lost by the fault that failed the write.                              *)
LEMMA FinaliseIInv == ASSUME IInv, NEW d \in Drains, Finalise(d) PROVE IInv'
  <1>1. PICK r \in drain[d].cur : Write(d, r, Finalised(row[r], drain[d].snap[r], drain[d].phase))
    BY DEF Finalise
  <1>2. /\ r \in Rows /\ drain \in [Drains -> Drain] /\ drain[d] \in Drain /\ Sound(drain[d])
        /\ drain[d].cur = {r} /\ drain[d].phase \in Answers
    BY DEF Finalise, IInv, DrainsInv, Sound, Orderly, Drain
  <1>3. Fit(row[r], r) /\ row[r].status = "SENDING" /\ drain[d].snap[r] = row[r].attempts
    BY <1>2 DEF IInv, RowsInv, HeldIsLeased, Held
  <1> DEFINE p == drain[d].phase
             y == Finalised(row[r], row[r].attempts, p)
  <1>4. Fit(y, r) /\ (y.status = "SENT" <=> p = "accepted")
    <2>0. row[r] \in Row /\ row[r].dropped \in BOOLEAN /\ row[r].attempts < MaxAttempts /\ row[r].attempts \in Nat
      BY <1>3 DEF Fit, Row
    <2>1. CASE p = "blocked"
      BY <1>2, <1>3, <2>0, <2>1, ClosedFit DEF Finalised
    <2>2. CASE p \in {"refused", "failed"}
      BY <1>2, <1>3, <2>0, <2>2, FailedFit DEF Finalised
    <2>3. CASE p = "accepted"
      <3> DEFINE c == Closed(row[r], "SENT", row[r].dropped)
                 n == row[r].attempts + 1
      <3>1. c \in Row /\ c.status = "SENT" /\ c.attempts = row[r].attempts
        <4>1. "SENT" \in Statuses
          BY ConstantFacts
        <4> QED BY <2>0, <4>1, ClosedRow
      <3>2. y = [c EXCEPT !.attempts = n]
        BY <2>3, <3>1 DEF Finalised
      <3>3. n \in Nat /\ n <= MaxAttempts
        BY <2>0, ConstantFacts
      <3> HIDE DEF c, n, y
      <3>4. y \in Row /\ y.status = "SENT" /\ y.attempts = n
        BY <3>1, <3>2, <3>3 DEF Row
      <3> QED BY <2>3, <3>3, <3>4 DEF Fit
    <2> QED BY <1>2, <2>1, <2>2, <2>3 DEF Answers
  <1> DEFINE done == Done(d)
             s == NextStreak(done.streak, p)
             x == [done EXCEPT !.streak = s]
  <1>5. /\ Sound(done) /\ done \in Drain /\ done.cur = {} /\ done.phase = "none" /\ done.busy = 0
        /\ done.todo = drain[d].todo /\ done.ready = drain[d].ready
        /\ done.age = drain[d].age /\ done.snap = drain[d].snap
    BY DoneSound DEF Sound
  <1>6. s \in Nat
    BY <1>2, <1>5 DEF NextStreak, Drain, Answers
  <1>7. drain' = [drain EXCEPT ![d] = Rest(x)]
    BY <1>2 DEF Finalise
  <1> HIDE DEF s, done
  <1>8. /\ x \in Drain /\ x.todo = drain[d].todo /\ x.ready = drain[d].ready /\ x.cur = {}
        /\ x.age = drain[d].age /\ x.snap = drain[d].snap /\ x.phase = "none" /\ x.busy = 0
    BY <1>5, <1>6 DEF Drain
  <1> HIDE DEF x
  <1>9. Sound(x)
    BY <1>5, <1>8 DEF Sound, Orderly, Pace, Holds
  <1>10. /\ Sound(Rest(x)) /\ Holds(Rest(x)) \subseteq Held(d) \ {r}
         /\ Holds(Rest(x)) # {} => Rest(x).age = drain[d].age /\ Rest(x).snap = drain[d].snap
         /\ Rest(x).phase = "none"
    BY <1>8, <1>9, DoneRest
  <1>11. Write(d, r, y)
    BY <1>1, <1>3
  <1> HIDE DEF y
  <1> QED BY <1>4, <1>7, <1>10, <1>11, WriteIInv DEF Finalise

(* releaseUnattempted hands rows back that are leased to this drain. *)
LEMMA ReleaseRowsIInv ==
  ASSUME IInv, NEW d \in Drains, NEW S, S \in {drain[d].todo, drain[d].ready}, ReleaseRows(d, S)
  PROVE  IInv'
  <1> DEFINE old == drain[d]
             x == [old EXCEPT !.todo = old.todo \ S, !.ready = old.ready \ S]
  <1>1. /\ drain \in [Drains -> Drain] /\ old \in Drain /\ Sound(old) /\ old.cur = {} /\ old.phase = "none"
    BY DEF ReleaseRows, IInv, DrainsInv, Sound, Orderly
  <1>2. drain' = [drain EXCEPT ![d] = Rest(x)]
    <2>1. drain' = [drain EXCEPT ![d] = Rest([drain[d] EXCEPT !.todo = @ \ S, !.ready = @ \ S])]
      BY DEF ReleaseRows
    <2>2. [old EXCEPT !.todo = @ \ S, !.ready = @ \ S] = x
      BY <1>1 DEF Drain
    <2> QED BY <1>1, <2>1, <2>2
  <1>3. /\ x \in Drain /\ x.todo = old.todo \ S /\ x.ready = old.ready \ S /\ x.cur = {}
        /\ x.age = old.age /\ x.snap = old.snap /\ x.phase = "none" /\ x.busy = old.busy
    <2>1. old.todo \ S \in SUBSET Rows /\ old.ready \ S \in SUBSET Rows
      BY <1>1 DEF Drain
    <2> QED BY <1>1, <2>1 DEF Drain
  <1> HIDE DEF x
  <1>4. Sound(x) /\ Holds(x) = Held(d) \ S
    BY <1>1, <1>3 DEF Sound, Orderly, Pace, Holds, Held
  <1>5. DrainsInv'
    BY <1>2, <1>4, RestSound DEF IInv, DrainsInv, Sound
  <1>6. Held(d)' = Held(d) \ S /\ \A e \in Drains \ {d} : Held(e)' = Held(e) /\ drain'[e] = drain[e]
    BY <1>1, <1>2, <1>4, RestSound DEF Held, Holds
  <1>7. \A r \in Held(d)' : drain'[d] = x
    BY <1>1, <1>2, <1>4, <1>6, RestSound
  <1>8. \A e \in Drains, q \in Rows : Unrecorded(e, q)' <=> Unrecorded(e, q)
    BY <1>1, <1>2, <1>3, <1>4, RestSound DEF Unrecorded
  <1>9. CASE row' = row /\ faults < MaxFaults /\ faults' = faults + 1
    <2>1. RowsInv' /\ CountsInv'
      BY <1>9, OutboxAssumption DEF ReleaseRows, IInv, RowsInv, CountsInv
    <2>2. HeldIsLeased'
      BY <1>3, <1>6, <1>7, <1>9 DEF IInv, HeldIsLeased
    <2>3. DeliveryAccount'
      BY <1>8, <1>9 DEF ReleaseRows, IInv, DeliveryAccount
    <2> QED BY <1>5, <2>1, <2>2, <2>3 DEF IInv
  <1>10. CASE /\ row' = [r \in Rows |-> IF r \in Mine(d, S) THEN Queued(row[r], row[r].wait) ELSE row[r]]
              /\ faults' = faults
    <2>1. \A r \in Rows : IF r \in Mine(d, S)
            THEN /\ Fit(row'[r], r) /\ row'[r].status = "QUEUED" /\ row[r].status = "SENDING"
            ELSE row'[r] = row[r]
      <3> TAKE r \in Rows
      <3>1. Fit(row[r], r) /\ row[r].wait \in Nat
        BY DEF IInv, RowsInv, Fit, Row
      <3>2. CASE r \in Mine(d, S)
        <4>1. row[r].status = "SENDING" /\ row[r].attempts < MaxAttempts
          BY <3>1, <3>2 DEF Mine, Fit
        <4> QED BY <1>10, <3>1, <3>2, <4>1, QueuedFit, QueuedRow DEF Fit
      <3>3. CASE r \notin Mine(d, S)
        BY <1>10, <3>3
      <3> QED BY <3>2, <3>3
    <2>2. RowsInv' /\ CountsInv'
      <3>1. row' \in [Rows -> Row] /\ \A r \in Rows : Fit(row'[r], r)
        BY <1>10, <2>1 DEF IInv, RowsInv, Fit
      <3> QED BY <1>10, <3>1 DEF ReleaseRows, IInv, RowsInv, CountsInv, Fit
    <2>3. HeldIsLeased'
      <3>1. \A r \in Mine(d, S) : r \in Held(d) /\ r \in S
        BY <1>1 DEF Mine, Held
      <3>2. \A e \in Drains : \A r \in Held(e)' : r \in Rows /\ r \in Held(e) /\ r \notin Mine(d, S)
        BY <1>6, <3>1 DEF IInv, HeldIsLeased, DrainsInv, Drain, Held, Mine
      <3> QED BY <1>3, <1>6, <1>7, <2>1, <3>2 DEF IInv, HeldIsLeased
    <2>4. DeliveryAccount'
      <3>1. \A r \in Rows : row'[r].status = "SENT" <=> row[r].status = "SENT"
        BY <2>1
      <3> QED BY <1>8, <3>1 DEF ReleaseRows, IInv, DeliveryAccount
    <2> QED BY <1>5, <2>2, <2>3, <2>4 DEF IInv
  <1> QED BY <1>9, <1>10 DEF ReleaseRows

(* Either budget spent, the drain hands back what it has not begun. *)
LEMMA ReleaseIInv == ASSUME IInv, NEW d \in Drains, Release(d) PROVE IInv'
  BY ReleaseRowsIInv DEF Release

(* A drain that ends with rows in hand leaves them leased to nobody alive. *)
LEMMA CrashIInv == ASSUME IInv, NEW d \in Drains, Crash(d) PROVE IInv'
  <1>1. /\ drain \in [Drains -> Drain] /\ drain' = [drain EXCEPT ![d] = NewDrain]
        /\ row' = row /\ delivered' = delivered /\ suppressed' = suppressed
    BY DEF Crash, IInv, DrainsInv
  <1>2. RowsInv'
    BY <1>1 DEF IInv, RowsInv
  <1>3. DrainsInv'
    BY <1>1, NewDrainSound DEF IInv, DrainsInv, Sound
  <1>4. lost' \in [Rows -> Nat]
    BY DEF Crash, IInv, CountsInv
  <1>5. CountsInv'
    BY <1>1, <1>4, OutboxAssumption DEF Crash, IInv, CountsInv
  <1>6. HeldIsLeased'
    BY <1>1, NewDrainSound DEF IInv, HeldIsLeased, Held, Holds
  <1>7. DeliveryAccount'
    <2>1. \A q \in Rows, e \in Drains : Unrecorded(e, q)' <=> Unrecorded(e, q) /\ e # d
      BY <1>1, NewDrainSound DEF Unrecorded
    <2>2. \A q \in Rows, e \in Drains : Unrecorded(d, q) /\ Unrecorded(e, q) => e = d /\ row[q].status = "SENDING"
      BY DEF Unrecorded, IInv, HeldIsLeased, Held
    <2>3. \A q \in Rows : lost'[q] = IF Unrecorded(d, q) THEN lost[q] + 1 ELSE lost[q]
      BY DEF Crash, IInv, CountsInv
    <2>4. lost \in [Rows -> Nat] /\ delivered \in [Rows -> Nat]
      BY DEF IInv, CountsInv
    <2> QED BY <1>1, <2>1, <2>2, <2>3, <2>4 DEF IInv, DeliveryAccount
  <1> QED BY <1>2, <1>3, <1>5, <1>6, <1>7 DEF IInv

-----------------------------------------------------------------------------
(* The claim's verdicts; only a row of a retired kind is unknown. *)
LEMMA VerdictFacts ==
  ASSUME NEW r \in Rows, NEW v \in Verdicts(r)
  PROVE  /\ v \in {"unknown", "skip", "drop", "suppressed", "throw", "hold", "send", "recount"}
         /\ v = "unknown" => Kind[r] = "retired"
  <1>1. Kind[r] \in Kinds
    BY OutboxAssumption
  <1> QED BY <1>1 DEF Verdicts, Kinds

(* Whatever the claim decides for a due row, the row keeps its tries, is not *)
(* sent yet, and is leased when it goes to a recount or to the transport.    *)
LEMMA OutcomeFit ==
  ASSUME IInv, NEW d \in Drains, NEW r \in Rows, Due(r), NEW o \in Outcomes(r, d)
  PROVE  /\ Fit(o[2], r)
         /\ o[2].status # "SENT"
         /\ o[1] \in {"send", "recount"} => o[2] = Leased(row[r], d)
  <1>1. PICK v \in Verdicts(r) : o[1] = v /\ o[2] \in Resolved(r, v, d)
    BY DEF Outcomes
  <1>2. /\ Fit(row[r], r) /\ row[r] \in Row /\ row[r].attempts < MaxAttempts
        /\ row[r].attempts \in Nat /\ row[r].holds + 1 \in Nat /\ row[r].dropped \in BOOLEAN
    BY DEF IInv, RowsInv, Fit, Due, Row
  <1> DEFINE y == o[2]
  <1>3. CASE v = "unknown"
    <2>1. y = Closed(row[r], "DEAD", FALSE) /\ Kind[r] = "retired"
      BY <1>1, <1>3, VerdictFacts DEF Resolved
    <2>2. "DEAD" \in Statuses
      BY ConstantFacts
    <2>3. y \in Row /\ y.status = "DEAD" /\ y.attempts = row[r].attempts
      <3> DEFINE z == Closed(row[r], "DEAD", FALSE)
      <3>1. z \in Row /\ z.status = "DEAD" /\ z.attempts = row[r].attempts
        BY <1>2, <2>2, ClosedRow
      <3> HIDE DEF z
      <3>2. y = z
        BY <2>1 DEF z
      <3> QED BY <3>1, <3>2
    <2> HIDE DEF y
    <2>4. Fit(y, r) /\ y.status # "SENT"
      BY <1>2, <2>1, <2>3 DEF Fit
    <2> QED BY <1>1, <1>3, <2>4 DEF y
  <1>4. CASE v \in {"skip", "drop", "suppressed"}
    <2>1. y \in {Closed(row[r], "SKIPPED", FALSE), Closed(row[r], "SKIPPED", TRUE),
                Closed(row[r], "SUPPRESSED", row[r].dropped)}
      BY <1>1, <1>4 DEF Resolved
    <2>2. Fit(y, r) /\ y.status # "SENT"
      BY <1>2, <2>1, ClosedFit
    <2> QED BY <1>1, <1>4, <2>2
  <1>5. CASE v = "throw"
    <2>1. y = Failed(row[r], row[r].attempts)
      BY <1>1, <1>5 DEF Resolved
    <2>2. Fit(y, r) /\ y.status # "SENT"
      BY <1>2, <2>1, FailedFit
    <2> QED BY <1>1, <1>5, <2>2
  <1>6. CASE v = "hold"
    <2>1. PICK w \in 1 .. MaxDelay : y = [Queued(row[r], w) EXCEPT !.holds = @ + 1]
      BY <1>1, <1>6 DEF Resolved
    <2>2. w \in Nat /\ Queued(row[r], w).holds = row[r].holds
      BY <1>2, OutboxAssumption DEF Queued, Row
    <2>3. y = [Queued(row[r], w) EXCEPT !.holds = row[r].holds + 1]
      BY <2>1, <2>2
    <2>4. Fit(y, r) /\ y.status # "SENT"
      BY <1>2, <2>2, <2>3, QueuedFit, HeldBackRow
    <2> QED BY <1>1, <1>6, <2>4
  <1>7. CASE v \in {"send", "recount"}
    <2>1. y = Leased(row[r], d)
      BY <1>1, <1>7 DEF Resolved
    <2>2. y \in Row /\ y.status = "SENDING" /\ y.attempts = row[r].attempts
      BY <1>2, <2>1, LeasedRow
    <2> HIDE DEF y
    <2>3. Fit(y, r) /\ y.status # "SENT"
      BY <1>2, <2>2 DEF Fit
    <2> QED BY <2>1, <2>3 DEF y
  <1> QED BY <1>3, <1>4, <1>5, <1>6, <1>7, VerdictFacts

(* The claim takes due rows only: under the invariant a row in a live drain's *)
(* hands is leased and younger than a lease, so the claim passes it by.      *)
LEMMA ClaimRowsIInv ==
  ASSUME IInv, NEW d \in Drains, NEW S \in SUBSET Rows, ClaimRows(d, S) PROVE IInv'
  <1>1. PICK out \in [S -> UNION {Outcomes(r, d) : r \in S}] :
          /\ \A r \in S : out[r] \in Outcomes(r, d)
          /\ row' = [r \in Rows |-> IF r \in S THEN out[r][2] ELSE row[r]]
          /\ drain' = [drain EXCEPT ![d] = Rest(
               [NewDrain EXCEPT !.todo  = {r \in S : out[r][1] = "recount"},
                                !.ready = {r \in S : out[r][1] = "send"},
                                !.snap  = [r \in Rows |-> IF r \in S THEN row[r].attempts ELSE 0]])]
    BY DEF ClaimRows
  <1> DEFINE T == {r \in S : out[r][1] = "recount"}
             R == {r \in S : out[r][1] = "send"}
             n == [r \in Rows |-> IF r \in S THEN row[r].attempts ELSE 0]
             x == [NewDrain EXCEPT !.todo = T, !.ready = R, !.snap = n]
  <1>2. /\ \A r \in S : Due(r) /\ Fit(out[r][2], r) /\ out[r][2].status # "SENT"
        /\ \A r \in T \cup R : out[r][2] = Leased(row[r], d)
    BY <1>1, OutcomeFit DEF ClaimRows
  <1>3. row \in [Rows -> Row] /\ \A r \in Rows : Fit(row[r], r) /\ row[r].attempts \in Nat
    BY DEF IInv, RowsInv, Row
  <1>4. /\ T \subseteq S /\ R \subseteq S /\ T \cap R = {} /\ n \in [Rows -> Nat]
        /\ \A r \in S : n[r] = row[r].attempts
    BY <1>3
  <1>5. drain \in [Drains -> Drain] /\ drain' = [drain EXCEPT ![d] = Rest(x)]
    BY <1>1 DEF IInv, DrainsInv
  <1> HIDE DEF T, R, n
  <1>6. /\ x \in Drain /\ x.todo = T /\ x.ready = R /\ x.snap = n /\ x.cur = {}
        /\ x.phase = "none" /\ x.age = 0 /\ x.busy = 0
    <2>1. NewDrain \in Drain /\ NewDrain.cur = {} /\ NewDrain.phase = "none" /\ NewDrain.age = 0 /\ NewDrain.busy = 0
      BY NewDrainSound DEF Sound, NewDrain
    <2>2. T \in SUBSET Rows /\ R \in SUBSET Rows
      BY <1>4
    <2> QED BY <1>4, <2>1, <2>2 DEF Drain
  <1> HIDE DEF x
  <1>7. Sound(x) /\ Holds(x) = T \cup R
    BY <1>4, <1>6, OutboxAssumption DEF Sound, Orderly, Pace, Holds
  <1>8. DrainsInv'
    BY <1>5, <1>7, RestSound DEF IInv, DrainsInv, Sound
  <1>9. /\ Held(d)' = T \cup R
        /\ T \cup R # {} => drain'[d] = x
        /\ \A e \in Drains \ {d} : Held(e)' = Held(e) /\ drain'[e] = drain[e]
    BY <1>5, <1>7, RestSound DEF Held, Holds
  <1>10. \A e \in Drains, q \in Rows : Unrecorded(e, q)' <=> Unrecorded(e, q)
    BY <1>5, <1>6, <1>7, RestSound DEF ClaimRows, Unrecorded, Idle, Held
  <1>11. \A r \in S : row'[r] = out[r][2] /\ row[r].status # "SENT"
    BY <1>1, <1>2 DEF Due
  <1>12. \A r \in Rows \ S : row'[r] = row[r]
    BY <1>1
  <1>13. RowsInv'
    <2>1. \A r \in Rows : Fit(row'[r], r)
      BY <1>2, <1>3, <1>11, <1>12
    <2> QED BY <1>1, <2>1 DEF RowsInv, Fit
  <1>14. HeldIsLeased'
    <2>1. \A e \in Drains \ {d} : \A r \in Held(e) : r \in Rows /\ r \notin S
      <3> TAKE e \in Drains \ {d}
      <3> TAKE r \in Held(e)
      <3>1. r \in Rows /\ row[r].status = "SENDING" /\ row[r].lease = drain[e].age
        BY DEF IInv, HeldIsLeased, DrainsInv, Drain, Held
      <3>2. drain[e].age < Lease /\ drain[e].age \in Nat
        BY DEF IInv, DrainsInv, Sound, Pace, Holds, Held, Drain
      <3>3. ~ Due(r)
        BY <3>1, <3>2, OutboxAssumption DEF Due
      <3> QED BY <1>2, <3>1, <3>3
    <2>2. \A r \in T \cup R : /\ row'[r] = Leased(row[r], d) /\ row[r] \in Row /\ n[r] = row[r].attempts
      BY <1>2, <1>3, <1>4, <1>11
    <2>3. \A r \in Held(d)' : /\ row'[r].status = "SENDING" /\ row'[r].owner = d
                              /\ row'[r].lease = drain'[d].age
                              /\ row'[r].attempts = drain'[d].snap[r]
      BY <1>6, <1>9, <2>2, LeasedRow
    <2>4. \A e \in Drains \ {d} : \A r \in Held(e)' :
            /\ row'[r].status = "SENDING" /\ row'[r].owner = e
            /\ row'[r].lease = drain'[e].age
            /\ row'[r].attempts = drain'[e].snap[r]
      BY <1>9, <1>12, <2>1 DEF IInv, HeldIsLeased
    <2> QED BY <2>3, <2>4 DEF HeldIsLeased
  <1>15. DeliveryAccount'
    <2>1. \A r \in Rows : row'[r].status = "SENT" <=> row[r].status = "SENT"
      BY <1>2, <1>11, <1>12
    <2> QED BY <1>10, <2>1 DEF ClaimRows, IInv, DeliveryAccount
  <1>16. CountsInv'
    BY DEF ClaimRows, IInv, CountsInv
  <1> QED BY <1>8, <1>13, <1>14, <1>15, <1>16 DEF IInv

-----------------------------------------------------------------------------
(* The only step that takes time, and the only one that needs the budgets to *)
(* lie inside the lease.                                                     *)
LEMMA TickIInv == ASSUME BudgetsInsideLease, IInv, Tick PROVE IInv'
  <1>0. /\ {RecountBudget, SendBudget, CallTime} \subseteq Nat /\ Lease \in Nat
        /\ RecountBudget + CallTime < Lease /\ SendBudget + CallTime < Lease
    BY OutboxAssumption DEF BudgetsInsideLease
  <1>1. ~ Overdue /\ faults' = faults /\ UNCHANGED <<suppressed, delivered, lost>>
    <2>1. ~ Overdue
      BY DEF Tick, BudgetsInsideLease
    <2>2. faults' = faults + (IF Overdue THEN 1 ELSE 0) /\ UNCHANGED <<suppressed, delivered, lost>>
      BY Zenon DEF Tick
    <2>3. faults \in Nat
      BY DEF IInv, CountsInv
    <2> QED BY <2>1, <2>2, <2>3
  <1>2. CountsInv'
    BY <1>1 DEF IInv, CountsInv
  <1> DEFINE w(r) == IF row[r].wait > 0 THEN row[r].wait - 1 ELSE 0
             l(r) == IF row[r].status = "SENDING" /\ row[r].lease < Lease
                       THEN row[r].lease + 1 ELSE row[r].lease
  <1>3. \A r \in Rows : /\ row[r] \in Row /\ Fit(row[r], r)
                        /\ w(r) \in Nat /\ l(r) \in 0 .. Lease
    BY <1>0 DEF IInv, RowsInv, Fit, Row
  <1>4. \A r \in Rows : row'[r] = [row[r] EXCEPT !.wait = w(r), !.lease = l(r)]
    BY <1>3 DEF Tick, Row
  <1> HIDE DEF w, l
  <1>5. \A r \in Rows : /\ row'[r] \in Row /\ row'[r].status = row[r].status
                        /\ row'[r].attempts = row[r].attempts /\ row'[r].owner = row[r].owner
                        /\ row'[r].lease = l(r)
    BY <1>3, <1>4 DEF Row
  <1>6. RowsInv'
    <2>1. \A r \in Rows : Fit(row'[r], r)
      BY <1>3, <1>5 DEF Fit
    <2> QED BY <1>5, <2>1 DEF Tick, RowsInv
  <1>7. \A d \in Drains : /\ drain[d] \in Drain /\ Sound(drain[d])
                          /\ Held(d) = Holds(drain[d])
                          /\ Holds(drain[d]) # {} => drain[d].phase \in {"counting", "sending"}
                                                     /\ drain[d].busy < CallTime
    <2> TAKE d \in Drains
    <2>1. drain[d] \in Drain /\ Sound(drain[d]) /\ Held(d) = Holds(drain[d])
      BY HeldHolds DEF IInv, DrainsInv
    <2>2. Holds(drain[d]) # {} => ~ Idle(d)
      BY <2>1 DEF Idle
    <2>3. ~ Idle(d) => drain[d].phase \in {"counting", "sending"} /\ ~ (drain[d].busy >= CallTime)
      BY <1>1 DEF Tick, Overdue
    <2>4. drain[d].busy \in Nat
      BY <2>1 DEF Drain
    <2> QED BY <1>0, <2>1, <2>2, <2>3, <2>4
  <1>8. \A d \in Drains : IF Holds(drain[d]) = {} THEN drain'[d] = drain[d]
                          ELSE drain'[d] = [drain[d] EXCEPT !.age = drain[d].age + 1, !.busy = drain[d].busy + 1]
    BY <1>7 DEF Tick, Idle, Drain
  <1>9. \A d \in Drains : /\ Sound(drain'[d])
                          /\ drain'[d].todo = drain[d].todo /\ drain'[d].ready = drain[d].ready
                          /\ drain'[d].cur = drain[d].cur /\ drain'[d].phase = drain[d].phase
                          /\ drain'[d].snap = drain[d].snap
                          /\ Holds(drain[d]) # {} => drain'[d].age = drain[d].age + 1
    <2> TAKE d \in Drains
    <2>1. CASE Holds(drain[d]) = {}
      BY <1>7, <1>8, <2>1
    <2>2. CASE Holds(drain[d]) # {}
      <3> DEFINE old == drain[d]
                 a == old.age + 1
                 b == old.busy + 1
                 x == [old EXCEPT !.age = a, !.busy = b]
      <3>1. drain'[d] = x /\ a \in Nat /\ b \in Nat
        <4>1. drain'[d] = x
          BY <1>8, <2>2
        <4>2. old.age \in Nat /\ old.busy \in Nat
          BY <1>7 DEF Drain
        <4> QED BY <4>1, <4>2
      <3>2. a < Lease /\ (old.phase = "counting" => b <= CallTime /\ a <= RecountBudget + b)
              /\ (old.phase = "sending" => b <= CallTime /\ a <= SendBudget + b)
              /\ old.phase # "none"
        BY <1>0, <1>7, <2>2 DEF Sound, Pace, Drain
      <3> HIDE DEF a, b
      <3>3. /\ x \in Drain /\ x.todo = old.todo /\ x.ready = old.ready /\ x.cur = old.cur
            /\ x.phase = old.phase /\ x.snap = old.snap /\ x.age = a /\ x.busy = b
        BY <1>7, <3>1 DEF Drain
      <3> HIDE DEF x
      <3>4. Orderly(x) /\ Pace(x)
        BY <1>7, <3>2, <3>3 DEF Sound, Orderly, Pace
      <3> QED BY <3>1, <3>3, <3>4 DEF Sound, a
    <2> QED BY <2>1, <2>2
  <1>10. DrainsInv'
    BY <1>9 DEF Tick, DrainsInv, Sound
  <1>11. HeldIsLeased'
    <2> SUFFICES ASSUME NEW d \in Drains, NEW r \in Held(d)'
                 PROVE  row'[r].status = "SENDING" /\ row'[r].owner = d
                          /\ row'[r].lease = drain'[d].age /\ row'[r].attempts = drain'[d].snap[r]
      BY DEF HeldIsLeased
    <2>1. r \in Held(d) /\ r \in Rows /\ Holds(drain[d]) # {}
      BY <1>7, <1>9 DEF Held, Holds, Drain
    <2>2. /\ row[r].status = "SENDING" /\ row[r].owner = d
          /\ row[r].lease = drain[d].age /\ row[r].attempts = drain[d].snap[r]
      BY <2>1 DEF IInv, HeldIsLeased
    <2>3. drain[d].age < Lease
      BY <1>7, <2>1 DEF Sound, Pace
    <2>4. l(r) = drain[d].age + 1
      BY <2>2, <2>3 DEF l
    <2> QED BY <1>5, <1>9, <2>1, <2>2, <2>4
  <1>12. DeliveryAccount'
    <2>1. \A e \in Drains, q \in Rows : Unrecorded(e, q)' <=> Unrecorded(e, q)
      BY <1>9 DEF Unrecorded
    <2> QED BY <1>1, <1>5, <2>1 DEF IInv, DeliveryAccount
  <1> QED BY <1>2, <1>6, <1>10, <1>11, <1>12 DEF IInv

(* Every step keeps the invariant. *)
LEMMA NextIInv == ASSUME BudgetsInsideLease, IInv, [Next]_vars PROVE IInv'
  <1>1. CASE Tick
    BY <1>1, TickIInv
  <1>2. ASSUME NEW r \in Rows, Enqueue(r) \/ Remake(r) \/ Retime(r) \/ Block(r) \/ Lift(r)
        PROVE  IInv'
    BY <1>2, EnqueueIInv, RemakeIInv, RetimeIInv, SuppressionIInv
  <1>3. ASSUME NEW d \in Drains,
               \/ Claim(d) \/ RecountBegin(d) \/ RecountEnd(d) \/ SendBegin(d)
               \/ Answer(d) \/ Finalise(d) \/ Release(d) \/ Crash(d)
        PROVE  IInv'
    BY <1>3, ClaimRowsIInv, RecountBeginIInv, RecountEndIInv, SendBeginIInv,
       AnswerIInv, FinaliseIInv, ReleaseIInv, CrashIInv DEF Claim
  <1>4. CASE UNCHANGED vars
    BY <1>4 DEF vars, IInv, RowsInv, DrainsInv, CountsInv, HeldIsLeased, Held,
                DeliveryAccount, Unrecorded
  <1> QED BY <1>1, <1>2, <1>3, <1>4 DEF Next

(* The inductive invariant holds throughout, under the code's own budgets.   *)
THEOREM Inductive == ASSUME BudgetsInsideLease PROVE Spec => []IInv
  <1>1. Init => IInv
    BY InitIInv
  <1>2. IInv /\ [Next]_vars => IInv'
    BY NextIInv
  <1> QED BY <1>1, <1>2, PTL DEF Spec

(* Every variable keeps its type.                                            *)
THEOREM Typed == ASSUME BudgetsInsideLease PROVE Spec => []TypeOK
  <1>1. IInv => TypeOK
    BY DEF IInv, RowsInv, DrainsInv, CountsInv, Sound, TypeOK
  <1> QED BY <1>1, Inductive, PTL

(* A drain's rows are leased to it, the lease as old as its claim.           *)
THEOREM Leases == ASSUME BudgetsInsideLease PROVE Spec => []HeldIsLeased
  <1>1. IInv => HeldIsLeased
    BY DEF IInv
  <1> QED BY <1>1, Inductive, PTL

(* The claim is the lock: one row is never in the hands of two drains.       *)
THEOREM Exclusive == ASSUME BudgetsInsideLease PROVE Spec => []OneHolder
  <1>1. HeldIsLeased => OneHolder
    <2> SUFFICES ASSUME HeldIsLeased, NEW d \in Drains, NEW e \in Drains, d # e,
                        NEW r \in Held(d), r \in Held(e)
                 PROVE  FALSE
      BY DEF OneHolder
    <2> QED BY DEF HeldIsLeased
  <1> QED BY <1>1, Leases, PTL

(* Every acceptance by the transport is accounted for.                       *)
THEOREM Accounted == ASSUME BudgetsInsideLease PROVE Spec => []DeliveryAccount
  <1>1. IInv => DeliveryAccount
    BY DEF IInv
  <1> QED BY <1>1, Inductive, PTL

(* A mail is taken twice only after an acceptance went unrecorded.           *)
THEOREM AtLeastOnce == ASSUME BudgetsInsideLease PROVE Spec => []NoUnexplainedDuplicate
  <1>1. IInv => NoUnexplainedDuplicate
    <2> SUFFICES ASSUME IInv, NEW r \in Rows PROVE delivered[r] <= 1 + lost[r]
      BY DEF NoUnexplainedDuplicate
    <2>1. delivered[r] \in Nat /\ lost[r] \in Nat
      BY DEF IInv, CountsInv
    <2>2. delivered[r] = lost[r] + 1 \/ delivered[r] = lost[r] + 0
      BY DEF IInv, DeliveryAccount
    <2> QED BY <2>1, <2>2
  <1> QED BY <1>1, Inductive, PTL

(* A row to be sent has tries left; a dead one has none, or no template.     *)
THEOREM Retries == ASSUME BudgetsInsideLease PROVE Spec => []AttemptsBudget
  <1>1. IInv => AttemptsBudget
    BY DEF IInv, RowsInv, Fit, AttemptsBudget
  <1> QED BY <1>1, Inductive, PTL

(* A closed row stays closed, but for a report's mail dropped unsent: only   *)
(* the drain that holds a leased row writes it.                              *)
THEOREM Final == ASSUME BudgetsInsideLease PROVE Spec => ClosedIsFinal
  <1> DEFINE Stays(r) ==
        row[r].status \in Terminal
          /\ (row'[r].status # row[r].status \/ row'[r].attempts # row[r].attempts) =>
          Kind[r] = "report" /\ row[r].dropped /\ row'[r].status = "QUEUED"
  <1>1. ASSUME IInv, [Next]_vars, NEW r \in Rows, row[r].status \in Terminal,
               row'[r].status # row[r].status \/ row'[r].attempts # row[r].attempts
        PROVE  Kind[r] = "report" /\ row[r].dropped /\ row'[r].status = "QUEUED"
    <2>0. row \in [Rows -> Row] /\ row[r].status \notin {"ABSENT", "QUEUED", "SENDING", "FAILED"}
      BY <1>1 DEF IInv, RowsInv, Terminal
    <2>1. CASE Tick
      <3>1. row[r] \in Row
        BY <2>0
      <3>2. row' = [q \in Rows |->
              [row[q] EXCEPT !.wait = IF @ > 0 THEN @ - 1 ELSE 0,
                             !.lease = IF row[q].status = "SENDING" /\ @ < Lease THEN @ + 1 ELSE @]]
        BY <2>1, Zenon DEF Tick
      <3>3. row'[r].status = row[r].status /\ row'[r].attempts = row[r].attempts
        BY <3>1, <3>2 DEF Row
      <3> QED BY <1>1, <3>3
    <2>2. ASSUME NEW q \in Rows, Enqueue(q) \/ Retime(q) \/ Block(q) \/ Lift(q)
          PROVE  row'[r] = row[r]
      BY <2>0, <2>2 DEF Enqueue, Retime, Block, Lift
    <2>3. ASSUME NEW q \in Rows, Remake(q)
          PROVE  Kind[r] = "report" /\ row[r].dropped /\ row'[r].status = "QUEUED"
      <3>1. CASE q = r
        <4>1. NoRow \in Row
          BY ConstantFacts, Zenon DEF NoRow, Row
        <4> QED BY <2>0, <2>3, <3>1, <4>1, QueuedRow, 0 \in Nat DEF Remake
      <3>2. CASE q # r
        BY <1>1, <2>0, <2>3, <3>2 DEF Remake
      <3> QED BY <3>1, <3>2
    <2>4. ASSUME NEW d \in Drains, NEW S \in SUBSET Rows, ClaimRows(d, S)
          PROVE  row'[r] = row[r]
      <3>1. r \notin S
        BY <2>0, <2>4 DEF ClaimRows, Due
      <3> QED BY <2>4, <3>1 DEF ClaimRows
    <2>5. ASSUME NEW d \in Drains
          PROVE  r \notin Held(d)
      BY <1>1, <2>0 DEF IInv, HeldIsLeased
    <2>6. ASSUME NEW d \in Drains, NEW q \in drain[d].cur, NEW y, Write(d, q, y)
          PROVE  row'[r] = row[r]
      BY <2>0, <2>5, <2>6 DEF Write, Unwritten, Held
    <2>7. ASSUME NEW d \in Drains, RecountEnd(d) \/ Finalise(d)
          PROVE  row'[r] = row[r]
      BY <2>6, <2>7 DEF RecountEnd, Finalise
    <2>8. ASSUME NEW d \in Drains, Release(d)
          PROVE  row'[r] = row[r]
      BY <2>0, <2>8 DEF Release, ReleaseRows, Mine
    <2>9. ASSUME NEW d \in Drains, RecountBegin(d) \/ SendBegin(d) \/ Answer(d) \/ Crash(d)
          PROVE  row'[r] = row[r]
      BY <2>9 DEF RecountBegin, SendBegin, Answer, Crash
    <2>10. CASE UNCHANGED vars
      BY <1>1, <2>10 DEF vars
    <2> QED BY <1>1, <2>1, <2>2, <2>3, <2>4, <2>7, <2>8, <2>9, <2>10 DEF Next, Claim
  <1>2. IInv /\ [Next]_vars => [\A r \in Rows : Stays(r)]_vars
    BY <1>1
  <1> QED BY <1>2, Inductive, PTL DEF Spec, ClosedIsFinal

-----------------------------------------------------------------------------
(* What the steps of a drain do, for the lease nobody uses and for the      *)
(* promise of MailDelivery.                                                 *)

(* A row was made again under no drain. *)
NoneGone == \A d \in Drains : drain[d].gone = {}

(* A leased row has a drain to its name, and without a fault is in its hands. *)
Owned ==
  \A r \in Rows : row[r].status = "SENDING" =>
    row[r].owner \in Drains /\ (faults = 0 => r \in Held(row[r].owner))

OInv == IInv /\ NoneGone /\ Owned

(* A row in hand is leased to its holder, and in nobody else's hands.       *)
LEMMA InHand ==
  ASSUME IInv, NEW d \in Drains, NEW r \in Held(d)
  PROVE  /\ r \in Rows /\ row[r] \in Row /\ row[r].status = "SENDING" /\ row[r].owner = d
         /\ \A e \in Drains \ {d} : r \notin Held(e)
  <1>1. r \in Rows
    BY DEF IInv, DrainsInv, Held, Drain
  <1>2. row[r].status = "SENDING" /\ row[r].owner = d
    BY DEF IInv, HeldIsLeased
  <1>3. \A e \in Drains \ {d} : r \notin Held(e)
    BY <1>2 DEF IInv, HeldIsLeased
  <1> QED BY <1>1, <1>2, <1>3 DEF IInv, RowsInv

(* One drain moves on. *)
LEMMA OneMoves ==
  ASSUME IInv, NEW d \in Drains, NEW x, drain' = [drain EXCEPT ![d] = x]
  PROVE  Held(d)' = Holds(x) /\ \A e \in Drains \ {d} : Held(e)' = Held(e) /\ drain'[e] = drain[e]
  BY DEF IInv, DrainsInv, Held, Holds

(* A drain that has returned holds what it held: nothing. *)
LEMMA RestHolds ==
  ASSUME NEW x, x.gone = {}
  PROVE  Holds(Rest(x)) = Holds(x) /\ Rest(x).gone = {}
  <1>1. Holds(NewDrain) = {} /\ NewDrain.gone = {}
    BY DEF Holds, NewDrain
  <1> QED BY <1>1 DEF Rest, Holds

(* The drain is through with its row, which the write leaves with no lease. *)
Dealt(d, r, x, y) ==
  /\ drain' = [drain EXCEPT ![d] = x]
  /\ x.gone = {} /\ Holds(x) = Held(d) \ {r}
  /\ Write(d, r, y)
  /\ y.status \in {"SKIPPED", "SUPPRESSED", "FAILED", "DEAD", "SENT"}
  /\ y.status = "SENT" => Unrecorded(d, r)
  /\ delivered' = delivered

(* Other rows are as they were. *)
LEMMA DealtLeaves ==
  ASSUME OInv, NEW d \in Drains, NEW r \in drain[d].cur, NEW x, NEW y, Dealt(d, r, x, y)
  PROVE  /\ r \in Held(d) /\ r \in Rows
         /\ \/ row' = [row EXCEPT ![r] = y] /\ faults' = faults
            \/ row' = row /\ faults < MaxFaults /\ faults' = faults + 1
  BY InHand DEF Dealt, Write, Unwritten, OInv, NoneGone, Held

(* The end of a recount. *)
LEMMA RecountEndDoes ==
  ASSUME OInv, NEW d \in Drains, RecountEnd(d)
  PROVE  \E r \in drain[d].cur : \E x :
           \/ \E y : Dealt(d, r, x, y)
           \/ /\ drain' = [drain EXCEPT ![d] = x] /\ x.gone = {} /\ Holds(x) = Held(d)
              /\ UNCHANGED <<row, delivered, faults>>
  <1>0. PICK r \in drain[d].cur :
          \/ /\ drain' = [drain EXCEPT ![d] = [Done(d) EXCEPT !.ready = @ \cup {r}]]
             /\ UNCHANGED <<row, lost, faults>>
          \/ /\ \E y \in {Closed(row[r], "SKIPPED", TRUE), Failed(row[r], drain[d].snap[r])}
                         \cup (IF Kind[r] = "summary" THEN {Closed(row[r], "SKIPPED", FALSE)} ELSE {}) :
                  Write(d, r, y)
             /\ drain' = [drain EXCEPT ![d] = Rest(Done(d))]
    BY DEF RecountEnd
  <1>1. /\ IInv /\ r \in Rows /\ drain[d] \in Drain /\ Orderly(drain[d]) /\ drain[d].cur = {r}
        /\ Fit(row[r], r) /\ row[r].status = "SENDING" /\ drain[d].snap[r] = row[r].attempts
        /\ drain[d].gone = {}
    BY DEF OInv, NoneGone, IInv, DrainsInv, Sound, Orderly, Drain, RowsInv, HeldIsLeased, Held
  <1> DEFINE done == Done(d)
  <1>2. /\ done \in Drain /\ done.cur = {} /\ done.gone = {}
        /\ done.todo = drain[d].todo /\ done.ready = drain[d].ready
    BY <1>1, DoneSound DEF Sound
  <1>3. Holds(done) = Held(d) \ {r}
    BY <1>1, <1>2 DEF Holds, Held, Orderly
  <1> HIDE DEF done
  <1>4. CASE /\ drain' = [drain EXCEPT ![d] = [Done(d) EXCEPT !.ready = @ \cup {r}]]
             /\ UNCHANGED <<row, lost, faults>>
    <2> DEFINE x == [done EXCEPT !.ready = done.ready \cup {r}]
    <2>1. x.gone = {} /\ x.todo = done.todo /\ x.cur = {} /\ x.ready = done.ready \cup {r}
      BY <1>2 DEF Drain
    <2>2. drain' = [drain EXCEPT ![d] = x]
      BY <1>4 DEF done
    <2> HIDE DEF x
    <2>3. Holds(x) = Held(d)
      BY <1>1, <1>2, <2>1 DEF Holds, Held
    <2>4. delivered' = delivered
      BY DEF RecountEnd
    <2> QED BY <1>4, <2>1, <2>2, <2>3, <2>4
  <1>5. CASE /\ \E y \in {Closed(row[r], "SKIPPED", TRUE), Failed(row[r], drain[d].snap[r])}
                         \cup (IF Kind[r] = "summary" THEN {Closed(row[r], "SKIPPED", FALSE)} ELSE {}) :
                  Write(d, r, y)
             /\ drain' = [drain EXCEPT ![d] = Rest(Done(d))]
    <2>1. PICK y : /\ Write(d, r, y)
                   /\ \/ \E tag \in BOOLEAN : y = Closed(row[r], "SKIPPED", tag)
                      \/ y = Failed(row[r], row[r].attempts)
      BY <1>1, <1>5
    <2>2. y.status \in {"SKIPPED", "FAILED", "DEAD"}
      <3>1. CASE y = Failed(row[r], row[r].attempts)
        BY <1>1, <3>1, FailedFit DEF Fit
      <3>2. ASSUME NEW tag \in BOOLEAN, y = Closed(row[r], "SKIPPED", tag)
            PROVE  y.status = "SKIPPED"
        BY <1>1, <3>2, ClosedFit
      <3> QED BY <2>1, <3>1, <3>2
    <2>3. drain' = [drain EXCEPT ![d] = Rest(done)] /\ delivered' = delivered
      BY <1>5 DEF done, RecountEnd
    <2>4. Dealt(d, r, Rest(done), y)
      BY <1>2, <1>3, <2>1, <2>2, <2>3, RestHolds DEF Dealt
    <2> QED BY <2>4
  <1> QED BY <1>0, <1>4, <1>5

(* The end of a send. *)
LEMMA FinaliseDoes ==
  ASSUME OInv, NEW d \in Drains, Finalise(d)
  PROVE  \E r \in drain[d].cur : \E x, y : Dealt(d, r, x, y)
  <1>1. PICK r \in drain[d].cur : Write(d, r, Finalised(row[r], drain[d].snap[r], drain[d].phase))
    BY DEF Finalise
  <1>2. /\ IInv /\ r \in Rows /\ drain[d] \in Drain /\ Orderly(drain[d]) /\ drain[d].cur = {r}
        /\ drain[d].phase \in Answers
        /\ Fit(row[r], r) /\ row[r].status = "SENDING" /\ drain[d].snap[r] = row[r].attempts
        /\ drain[d].gone = {}
    BY DEF OInv, NoneGone, IInv, DrainsInv, Sound, Orderly, Drain, RowsInv, HeldIsLeased, Held, Finalise
  <1> DEFINE p == drain[d].phase
             y == Finalised(row[r], row[r].attempts, p)
             done == Done(d)
             s == NextStreak(done.streak, p)
             x == [done EXCEPT !.streak = s]
  <1>3. /\ y.status \in {"SUPPRESSED", "FAILED", "DEAD", "SENT"}
        /\ y.status = "SENT" => p = "accepted"
    <2>0. row[r] \in Row /\ row[r].dropped \in BOOLEAN /\ row[r].attempts < MaxAttempts
      BY <1>2 DEF Fit, Row
    <2>1. CASE p = "blocked"
      BY <1>2, <2>0, <2>1, ClosedFit DEF Finalised
    <2>2. CASE p \in {"refused", "failed"}
      BY <1>2, <2>0, <2>2, FailedFit DEF Finalised
    <2>3. CASE p = "accepted"
      <3> DEFINE c == Closed(row[r], "SENT", row[r].dropped)
      <3>1. c \in Row /\ c.status = "SENT"
        <4>1. "SENT" \in Statuses
          BY ConstantFacts
        <4> QED BY <2>0, <4>1, ClosedRow
      <3>2. y = [c EXCEPT !.attempts = c.attempts + 1]
        BY <2>3 DEF Finalised
      <3> HIDE DEF c, y
      <3> QED BY <2>3, <3>1, <3>2 DEF Row
    <2> QED BY <1>2, <2>1, <2>2, <2>3 DEF Answers
  <1>4. /\ done \in Drain /\ done.cur = {} /\ done.gone = {}
        /\ done.todo = drain[d].todo /\ done.ready = drain[d].ready
    BY <1>2, DoneSound DEF Sound
  <1>5. drain' = [drain EXCEPT ![d] = Rest(x)] /\ delivered' = delivered
    BY <1>2 DEF Finalise
  <1> HIDE DEF s, done
  <1>6. x.gone = {} /\ x.cur = {} /\ x.todo = drain[d].todo /\ x.ready = drain[d].ready
    BY <1>4 DEF Drain
  <1> HIDE DEF x
  <1>7. Holds(x) = Held(d) \ {r}
    BY <1>2, <1>6 DEF Holds, Held, Orderly
  <1>8. Write(d, r, y)
    BY <1>1, <1>2
  <1>9. y.status = "SENT" => Unrecorded(d, r)
    BY <1>3 DEF Unrecorded
  <1> HIDE DEF y
  <1>10. Dealt(d, r, Rest(x), y)
    BY <1>3, <1>5, <1>6, <1>7, <1>8, <1>9, RestHolds DEF Dealt
  <1> QED BY <1>10

(* A row still leased after a step was leased to the same drain before it,  *)
(* which still holds it unless there was a fault.                           *)
LEMMA KeepsOwned ==
  ASSUME OInv, faults' = 0 => faults = 0,
         \A r \in Rows : row'[r].status = "SENDING" =>
           /\ row[r].status = "SENDING" /\ row'[r].owner = row[r].owner
           /\ faults' = 0 => \A d \in Drains : r \in Held(d) => r \in Held(d)'
  PROVE  Owned'
  <1> SUFFICES ASSUME NEW r \in Rows, row'[r].status = "SENDING"
               PROVE  row'[r].owner \in Drains /\ (faults' = 0 => r \in Held(row[r].owner)')
    BY DEF Owned
  <1>1. PICK e \in Drains : e = row[r].owner /\ row'[r].owner = e /\ (faults = 0 => r \in Held(e))
    BY DEF OInv, Owned
  <1>2. faults' = 0 => r \in Held(e)'
    BY <1>1
  <1>3. Held(row[r].owner)' = Held(e)'
    BY <1>1 DEF Held
  <1> QED BY <1>1, <1>2, <1>3

(* What the claim makes of a due row: still to be sent, or closed unsent;   *)
(* leased only for a recount or a send.                                     *)
LEMMA OutcomeStatus ==
  ASSUME IInv, NEW d \in Drains, NEW r \in Rows, Due(r), NEW o \in Outcomes(r, d)
  PROVE  /\ o[2].status \in {"QUEUED", "FAILED", "SENDING", "DEAD", "SKIPPED", "SUPPRESSED"}
         /\ o[2].status = "SENDING" => o[1] \in {"send", "recount"} /\ o[2].owner = d
  <1>1. PICK v \in Verdicts(r) : o[1] = v /\ o[2] \in Resolved(r, v, d)
    BY DEF Outcomes
  <1>2. /\ Fit(row[r], r) /\ row[r] \in Row /\ row[r].attempts < MaxAttempts
        /\ row[r].holds + 1 \in Nat /\ row[r].dropped \in BOOLEAN
    BY DEF IInv, RowsInv, Fit, Due, Row
  <1>3. CASE v = "unknown"
    <2>1. o[2] = Closed(row[r], "DEAD", FALSE)
      BY <1>1, <1>3 DEF Resolved
    <2>2. "DEAD" \in Statuses
      BY ConstantFacts
    <2>3. Closed(row[r], "DEAD", FALSE).status = "DEAD"
      BY <1>2, <2>2, ClosedRow
    <2> QED BY <2>1, <2>3
  <1>4. CASE v \in {"skip", "drop", "suppressed"}
    <2>1. o[2] \in {Closed(row[r], "SKIPPED", FALSE), Closed(row[r], "SKIPPED", TRUE),
                    Closed(row[r], "SUPPRESSED", row[r].dropped)}
      BY <1>1, <1>4 DEF Resolved
    <2>2. o[2].status \in {"SKIPPED", "SUPPRESSED"}
      BY <1>2, <2>1, ClosedFit
    <2> QED BY <2>2
  <1>5. CASE v = "throw"
    <2>1. o[2] = Failed(row[r], row[r].attempts)
      BY <1>1, <1>5 DEF Resolved
    <2>2. o[2].status \in {"FAILED", "DEAD"}
      BY <1>2, <2>1, FailedFit
    <2> QED BY <2>2
  <1>6. CASE v = "hold"
    <2>1. PICK w \in 1 .. MaxDelay : o[2] = [Queued(row[r], w) EXCEPT !.holds = @ + 1]
      BY <1>1, <1>6 DEF Resolved
    <2>2. w \in Nat /\ Queued(row[r], w).holds = row[r].holds
      BY <1>2, OutboxAssumption DEF Queued, Row
    <2>3. o[2].status = "QUEUED"
      BY <1>2, <2>1, <2>2, HeldBackRow
    <2> QED BY <2>3
  <1>7. CASE v \in {"send", "recount"}
    <2>1. o[2] = Leased(row[r], d)
      BY <1>1, <1>7 DEF Resolved
    <2>2. o[2].status = "SENDING" /\ o[2].owner = d
      BY <1>2, <2>1, LeasedRow
    <2> QED BY <1>1, <1>7, <2>2
  <1> QED BY <1>3, <1>4, <1>5, <1>6, <1>7, VerdictFacts

(* The claim, row by row. *)
LEMMA ClaimDoes ==
  ASSUME IInv, NEW d \in Drains, NEW S \in SUBSET Rows, ClaimRows(d, S)
  PROVE  /\ Held(d) = {} /\ drain'[d].gone = {}
         /\ \A e \in Drains \ {d} : Held(e)' = Held(e) /\ drain'[e] = drain[e]
         /\ \A r \in Rows \ S : row'[r] = row[r]
         /\ \A r \in S :
              /\ row[r].status \in {"QUEUED", "FAILED", "SENDING"}
              /\ row'[r].status \in {"QUEUED", "FAILED", "SENDING", "DEAD", "SKIPPED", "SUPPRESSED"}
              /\ row'[r].status = "SENDING" => r \in Held(d)' /\ row'[r].owner = d
         /\ faults' = faults /\ delivered' = delivered
  <1>1. PICK out \in [S -> UNION {Outcomes(r, d) : r \in S}] :
          /\ \A r \in S : out[r] \in Outcomes(r, d)
          /\ row' = [r \in Rows |-> IF r \in S THEN out[r][2] ELSE row[r]]
          /\ drain' = [drain EXCEPT ![d] = Rest(
               [NewDrain EXCEPT !.todo  = {r \in S : out[r][1] = "recount"},
                                !.ready = {r \in S : out[r][1] = "send"},
                                !.snap  = [r \in Rows |-> IF r \in S THEN row[r].attempts ELSE 0]])]
    BY DEF ClaimRows
  <1> DEFINE T == {r \in S : out[r][1] = "recount"}
             R == {r \in S : out[r][1] = "send"}
             n == [r \in Rows |-> IF r \in S THEN row[r].attempts ELSE 0]
             x == [NewDrain EXCEPT !.todo = T, !.ready = R, !.snap = n]
  <1>2. drain' = [drain EXCEPT ![d] = Rest(x)]
    BY <1>1
  <1>3. \A r \in S :
          /\ Due(r)
          /\ out[r][2].status \in {"QUEUED", "FAILED", "SENDING", "DEAD", "SKIPPED", "SUPPRESSED"}
          /\ out[r][2].status = "SENDING" => r \in T \cup R /\ out[r][2].owner = d
    BY <1>1, OutcomeStatus DEF ClaimRows
  <1> HIDE DEF T, R, n
  <1>4. x.todo = T /\ x.ready = R /\ x.cur = {} /\ x.gone = {}
    BY DEF NewDrain
  <1> HIDE DEF x
  <1>5. Holds(x) = T \cup R
    BY <1>4 DEF Holds
  <1>6. /\ Held(d)' = T \cup R /\ drain'[d] = Rest(x)
        /\ \A e \in Drains \ {d} : Held(e)' = Held(e) /\ drain'[e] = drain[e]
    <2>1. drain'[d] = Rest(x)
      BY <1>2 DEF IInv, DrainsInv
    <2> QED BY <1>2, <1>4, <1>5, <2>1, OneMoves, RestHolds
  <1>7. drain'[d].gone = {}
    BY <1>4, <1>6, RestHolds
  <1>8. Held(d) = {} /\ faults' = faults /\ delivered' = delivered
    BY DEF ClaimRows, Idle
  <1>9. \A r \in Rows : row'[r] = IF r \in S THEN out[r][2] ELSE row[r]
    BY <1>1
  <1> QED BY <1>3, <1>6, <1>7, <1>8, <1>9 DEF Due

-----------------------------------------------------------------------------
(* The steps of MailDelivery, in terms of the table.                        *)

Waiting == {"QUEUED", "FAILED", "SENDING"}
Dropped == {"DEAD", "SKIPPED", "SUPPRESSED"}

(* A row means for MailDelivery what it meant before the step. *)
Same(r) == row'[r].status = row[r].status \/ {row[r].status, row'[r].status} \subseteq Waiting

(* Every row means what it meant: MailDelivery takes no step. *)
LEMMA MailStays ==
  ASSUME \A r \in Rows : Same(r), delivered' = delivered
  PROVE  UNCHANGED Mail!mailVars
  BY DEF Mail!mailVars, Terminal, Same, Waiting

(* A row made, or made again after it was dropped. *)
LEMMA MailPosts ==
  ASSUME NEW r \in Rows, row[r].status \in {"ABSENT"} \cup Dropped, row'[r].status \in Waiting,
         \A q \in Rows \ {r} : Same(q), delivered' = delivered
  PROVE  Mail!Next
  <1>1. Mail!Post(r)
    BY DEF Mail!Post, Terminal, Same, Waiting, Dropped
  <1> QED BY <1>1 DEF Mail!Next

(* The transport takes a copy of a mail that waits. *)
LEMMA MailDelivers ==
  ASSUME NEW r \in Rows, row[r].status \in Waiting, \A q \in Rows : Same(q),
         delivered' = [delivered EXCEPT ![r] = delivered[r] + 1]
  PROVE  Mail!Next
  <1>1. Mail!Deliver(r)
    BY DEF Mail!Deliver, Terminal, Same, Waiting
  <1> QED BY <1>1 DEF Mail!Next

(* A mail that was taken is recorded as sent. *)
LEMMA MailConfirmed ==
  ASSUME NEW r \in Rows, row[r].status \in Waiting, delivered[r] > 0, row'[r].status = "SENT",
         \A q \in Rows \ {r} : Same(q), delivered' = delivered
  PROVE  Mail!Next
  <1>1. Mail!Confirm(r)
    BY DEF Mail!Confirm, Terminal, Same, Waiting
  <1> QED BY <1>1 DEF Mail!Next

(* Some mails that wait are closed unsent together. *)
LEMMA MailDrops ==
  ASSUME NEW M \in SUBSET Rows, M # {},
         \A r \in M : row[r].status \in Waiting /\ row'[r].status \in Dropped,
         \A q \in Rows \ M : Same(q), delivered' = delivered
  PROVE  Mail!Next
  <1>1. Mail!Drop(M)
    BY DEF Mail!Drop, Terminal, Same, Waiting, Dropped
  <1> QED BY <1>1 DEF Mail!Next

(* Mails that are waiting, each dropped or waiting still. *)
LEMMA MailMayDrop ==
  ASSUME NEW S \in SUBSET Rows, \A q \in Rows \ S : Same(q), delivered' = delivered,
         \A r \in S : row[r].status \in Waiting /\ row'[r].status \in Waiting \cup Dropped
  PROVE  [Mail!Next]_(Mail!mailVars)
  <1> DEFINE M == {r \in S : row'[r].status \in Dropped}
  <1>1. \A q \in Rows \ M : Same(q)
    BY DEF Same
  <1>2. CASE M = {}
    <2> HIDE DEF M
    <2>1. \A q \in Rows : Same(q)
      BY <1>1, <1>2
    <2> QED BY <2>1, MailStays
  <1>3. CASE M # {}
    <2>1. M \in SUBSET Rows /\ \A r \in M : row[r].status \in Waiting /\ row'[r].status \in Dropped
      OBVIOUS
    <2> HIDE DEF M
    <2> QED BY <1>1, <1>3, <2>1, MailDrops
  <1> HIDE DEF M
  <1> QED BY <1>2, <1>3

-----------------------------------------------------------------------------
(* What each step does for a lease nobody uses, and for MailDelivery. *)

Keeps == NoneGone' /\ Owned' /\ [Mail!Next]_(Mail!mailVars)

(* The table's rows keep their leases, and the drains what they hold. *)
LEMMA QuietKeeps ==
  ASSUME OInv, UNCHANGED row, faults' = 0 => faults = 0, delivered' = delivered,
         NEW d \in Drains, NEW x, drain' = [drain EXCEPT ![d] = x], x.gone = {},
         faults' = 0 => Holds(x) = Held(d)
  PROVE  Keeps
  <1>1. Held(d)' = Holds(x) /\ \A e \in Drains \ {d} : Held(e)' = Held(e) /\ drain'[e] = drain[e]
    BY OneMoves DEF OInv
  <1>2. NoneGone'
    BY <1>1 DEF OInv, NoneGone, IInv, DrainsInv
  <1>3. Owned'
    BY <1>1, KeepsOwned
  <1>4. UNCHANGED Mail!mailVars
    BY MailStays DEF Same
  <1> QED BY <1>2, <1>3, <1>4 DEF Keeps

(* A row nobody holds is queued. *)
LEMMA RequeueKeeps ==
  ASSUME OInv, NEW r \in Rows,
         NEW x, row' = [row EXCEPT ![r] = x], x.status = "QUEUED",
         UNCHANGED <<drain, delivered, faults>>,
         row[r].status \in {"QUEUED", "ABSENT"} \cup Dropped
  PROVE  Keeps
  <1>1. NoneGone'
    BY DEF OInv, NoneGone
  <1>2. /\ row'[r].status = "QUEUED"
        /\ \A q \in Rows \ {r} : row'[q] = row[q]
    BY DEF OInv, IInv, RowsInv
  <1>3. \A d \in Drains : Held(d)' = Held(d)
    BY DEF Held
  <1>4. Owned'
    BY <1>2, <1>3, KeepsOwned
  <1>5. \A q \in Rows \ {r} : Same(q)
    BY <1>2 DEF Same
  <1>6. CASE row[r].status = "QUEUED"
    <2>1. \A q \in Rows : Same(q)
      BY <1>2, <1>5, <1>6 DEF Same
    <2> QED BY <1>1, <1>4, <2>1, MailStays DEF Keeps
  <1>7. CASE row[r].status # "QUEUED"
    BY <1>1, <1>2, <1>4, <1>5, <1>7, MailPosts DEF Keeps, Waiting
  <1> QED BY <1>6, <1>7

(* A drain is through with its row: closed, failed or sent, or not written. *)
LEMMA DealtKeeps ==
  ASSUME OInv, NEW d \in Drains, NEW r \in drain[d].cur, NEW x, NEW y, Dealt(d, r, x, y)
  PROVE  Keeps
  <1>1. /\ r \in Held(d) /\ r \in Rows /\ row[r].status = "SENDING"
        /\ \/ row' = [row EXCEPT ![r] = y] /\ faults' = faults
           \/ row' = row /\ faults < MaxFaults /\ faults' = faults + 1
    BY DealtLeaves, InHand DEF OInv
  <1>2. /\ Held(d)' = Held(d) \ {r} /\ drain'[d] = x /\ x.gone = {}
        /\ \A e \in Drains \ {d} : Held(e)' = Held(e) /\ drain'[e] = drain[e]
    BY OneMoves DEF Dealt, OInv, IInv, DrainsInv
  <1>3. NoneGone'
    BY <1>2 DEF OInv, NoneGone
  <1>4. y.status \in {"FAILED", "SENT"} \cup Dropped /\ (y.status = "SENT" => Unrecorded(d, r))
        /\ delivered' = delivered /\ faults \in Nat
    BY DEF Dealt, Dropped, OInv, IInv, CountsInv
  <1>5. CASE row' = row /\ faults < MaxFaults /\ faults' = faults + 1
    <2>1. faults' # 0
      BY <1>4, <1>5
    <2>2. Owned'
      BY <1>5, <2>1, KeepsOwned
    <2> QED BY <1>3, <1>4, <1>5, <2>2, MailStays DEF Keeps, Same
  <1>6. CASE row' = [row EXCEPT ![r] = y] /\ faults' = faults
    <2>1. row'[r] = y /\ \A q \in Rows \ {r} : row'[q] = row[q]
      BY <1>1, <1>6 DEF OInv, IInv, RowsInv
    <2>2. Owned'
      BY <1>2, <1>4, <1>6, <2>1, KeepsOwned DEF Dropped
    <2>3. \A q \in Rows \ {r} : Same(q)
      BY <2>1 DEF Same
    <2>4. CASE y.status = "SENT"
      <3>1. delivered[r] > 0
        <4>1. delivered[r] = lost[r] + 1 /\ lost[r] \in Nat
          BY <1>1, <1>4, <2>4 DEF OInv, IInv, DeliveryAccount, CountsInv
        <4> QED BY <4>1
      <3> QED BY <1>1, <1>3, <1>4, <2>1, <2>2, <2>3, <2>4, <3>1, MailConfirmed DEF Keeps, Waiting
    <2>5. CASE y.status \in {"FAILED"} \cup Dropped
      <3>1. [Mail!Next]_(Mail!mailVars)
        <4>1. \A q \in {r} : row[q].status \in Waiting /\ row'[q].status \in Waiting \cup Dropped
          BY <1>1, <2>1, <2>5 DEF Waiting
        <4>2. \A q \in Rows \ {r} : Same(q)
          BY <2>3
        <4>3. {r} \in SUBSET Rows
          BY <1>1
        <4> QED BY <1>4, <4>1, <4>2, <4>3, MailMayDrop
      <3> QED BY <1>3, <2>2, <3>1 DEF Keeps
    <2> QED BY <1>4, <2>4, <2>5
  <1> QED BY <1>1, <1>5, <1>6

(* Releasing hands back what this drain holds, or fails and is a fault. *)
LEMMA ReleaseKeeps ==
  ASSUME OInv, NEW d \in Drains, NEW S, S \in {drain[d].todo, drain[d].ready}, ReleaseRows(d, S)
  PROVE  Keeps
  <1> DEFINE old == drain[d]
             x == [old EXCEPT !.todo = old.todo \ S, !.ready = old.ready \ S]
  <1>1. /\ IInv /\ drain \in [Drains -> Drain] /\ old \in Drain /\ Orderly(old) /\ old.cur = {}
        /\ old.gone = {} /\ S \subseteq Held(d) /\ S \subseteq Rows /\ delivered' = delivered
        /\ faults \in Nat
    BY DEF ReleaseRows, OInv, NoneGone, IInv, DrainsInv, CountsInv, Sound, Held, Drain
  <1>2. drain' = [drain EXCEPT ![d] = Rest(x)]
    <2>1. drain' = [drain EXCEPT ![d] = Rest([drain[d] EXCEPT !.todo = @ \ S, !.ready = @ \ S])]
      BY DEF ReleaseRows
    <2>2. [old EXCEPT !.todo = @ \ S, !.ready = @ \ S] = x
      BY <1>1 DEF Drain
    <2> QED BY <1>1, <2>1, <2>2
  <1>3. x.todo = old.todo \ S /\ x.ready = old.ready \ S /\ x.cur = {} /\ x.gone = {}
    BY <1>1 DEF Drain
  <1> HIDE DEF x
  <1>4. Holds(x) = Held(d) \ S
    BY <1>1, <1>3 DEF Orderly, Holds, Held
  <1>5. /\ Held(d)' = Held(d) \ S /\ drain'[d] = Rest(x) /\ Rest(x).gone = {}
        /\ \A e \in Drains \ {d} : Held(e)' = Held(e) /\ drain'[e] = drain[e]
    BY <1>1, <1>2, <1>3, <1>4, RestHolds, OneMoves
  <1>6. NoneGone'
    BY <1>5 DEF OInv, NoneGone
  <1>7. CASE row' = row /\ faults' = faults + 1
    <2>1. Owned'
      BY <1>1, <1>7, KeepsOwned
    <2> QED BY <1>1, <1>6, <1>7, <2>1, MailStays DEF Keeps, Same
  <1>8. CASE /\ row' = [r \in Rows |-> IF r \in Mine(d, S) THEN Queued(row[r], row[r].wait) ELSE row[r]]
             /\ faults' = faults
    <2>1. \A r \in S : row[r].status = "SENDING" /\ row[r].owner = d
      BY <1>1, InHand
    <2>2. Mine(d, S) = S
      BY <2>1 DEF Mine
    <2>3. \A r \in S : row'[r].status = "QUEUED"
      <3> SUFFICES ASSUME NEW r \in S PROVE row'[r].status = "QUEUED"
        OBVIOUS
      <3>1. row[r] \in Row /\ row[r].wait \in Nat
        BY <1>1 DEF IInv, RowsInv, Row
      <3>2. row'[r] = Queued(row[r], row[r].wait)
        BY <1>1, <1>8, <2>2
      <3> QED BY <3>1, <3>2, QueuedRow
    <2>4. \A r \in Rows \ S : row'[r] = row[r]
      BY <1>8, <2>2
    <2>5. Owned'
      BY <1>5, <1>8, <2>3, <2>4, KeepsOwned
    <2>6. \A r \in Rows : Same(r)
      BY <2>1, <2>3, <2>4 DEF Same, Waiting
    <2> QED BY <1>1, <1>6, <2>5, <2>6, MailStays DEF Keeps
  <1> QED BY <1>7, <1>8 DEF ReleaseRows

(* A tick moves the clocks of rows and drains, and no row from hand to hand. *)
LEMMA TickKeeps == ASSUME BudgetsInsideLease, OInv, Tick PROVE Keeps
  <1>1. faults' = faults /\ delivered' = delivered
    <2>1. ~ Overdue
      BY DEF Tick, BudgetsInsideLease
    <2>2. faults \in Nat
      BY DEF OInv, IInv, CountsInv
    <2>3. faults' = faults + (IF Overdue THEN 1 ELSE 0) /\ delivered' = delivered
      BY Zenon DEF Tick
    <2> QED BY <2>1, <2>2, <2>3
  <1>2. \A r \in Rows : row'[r].status = row[r].status /\ row'[r].owner = row[r].owner
    <2> SUFFICES ASSUME NEW r \in Rows
                 PROVE  row'[r].status = row[r].status /\ row'[r].owner = row[r].owner
      OBVIOUS
    <2>1. row[r] \in Row
      BY DEF OInv, IInv, RowsInv
    <2>2. row' = [q \in Rows |->
            [row[q] EXCEPT !.wait = IF @ > 0 THEN @ - 1 ELSE 0,
                           !.lease = IF row[q].status = "SENDING" /\ @ < Lease THEN @ + 1 ELSE @]]
      BY Zenon DEF Tick
    <2> QED BY <2>1, <2>2 DEF Row
  <1>3. \A d \in Drains : Held(d)' = Held(d) /\ drain'[d].gone = {}
    <2> SUFFICES ASSUME NEW d \in Drains PROVE Held(d)' = Held(d) /\ drain'[d].gone = {}
      OBVIOUS
    <2>1. drain[d] \in Drain /\ drain[d].gone = {}
      BY DEF OInv, NoneGone, IInv, DrainsInv
    <2>2. drain'[d] = IF Idle(d) THEN drain[d] ELSE [drain[d] EXCEPT !.age = @ + 1, !.busy = @ + 1]
      BY Zenon DEF Tick
    <2>3. /\ drain'[d].todo = drain[d].todo /\ drain'[d].ready = drain[d].ready
          /\ drain'[d].cur = drain[d].cur /\ drain'[d].gone = drain[d].gone
      BY <2>1, <2>2 DEF Drain
    <2> QED BY <2>1, <2>3 DEF Held
  <1>4. NoneGone'
    BY <1>3 DEF NoneGone
  <1>5. Owned'
    BY <1>1, <1>2, <1>3, KeepsOwned
  <1> QED BY <1>1, <1>2, <1>4, <1>5, MailStays DEF Keeps, Same

(* The producers, the feedback and support. *)
LEMMA OutsideKeeps ==
  ASSUME OInv, NEW r \in Rows, Enqueue(r) \/ Remake(r) \/ Retime(r) \/ Block(r) \/ Lift(r)
  PROVE  Keeps
  <1>0. row[r] \in Row /\ Drains # {} => drain \in [Drains -> Drain]
    BY DEF OInv, IInv, RowsInv, DrainsInv
  <1>1. CASE Enqueue(r)
    <2>1. PICK w \in 0 .. MaxDelay, h \in {0, 1} :
            row' = [row EXCEPT ![r] = [Queued(row[r], w) EXCEPT !.holds = h]]
      BY <1>1 DEF Enqueue
    <2>2. row[r] \in Row /\ w \in Nat /\ h \in Nat
      BY OutboxAssumption DEF OInv, IInv, RowsInv
    <2>3. [Queued(row[r], w) EXCEPT !.holds = h].status = "QUEUED"
      BY <2>2, HeldBackRow
    <2> QED BY <1>1, <2>1, <2>3, RequeueKeeps DEF Enqueue
  <1>2. CASE Remake(r)
    <2>1. drain' = drain
      <3>1. \A d \in Drains : r \notin Held(d)
        BY <1>2 DEF Remake, OInv, IInv, HeldIsLeased
      <3> QED BY <1>2, <3>1 DEF Remake, OInv, IInv, DrainsInv
    <2>2. NoRow \in Row
      BY ConstantFacts, Zenon DEF NoRow, Row
    <2>3. Queued(NoRow, 0).status = "QUEUED"
      BY <2>2, QueuedRow, 0 \in Nat
    <2> QED BY <1>2, <2>1, <2>3, RequeueKeeps DEF Remake, Dropped
  <1>3. CASE Retime(r)
    <2>1. PICK w \in 0 .. MaxDelay :
            row' = [row EXCEPT ![r] = [Queued(row[r], w) EXCEPT !.holds = row[r].holds + 1]]
      BY <1>3 DEF Retime
    <2>2. row[r] \in Row /\ w \in Nat /\ row[r].holds + 1 \in Nat
      BY OutboxAssumption DEF OInv, IInv, RowsInv, Row
    <2>3. [Queued(row[r], w) EXCEPT !.holds = row[r].holds + 1].status = "QUEUED"
      BY <2>2, HeldBackRow
    <2> QED BY <1>3, <2>1, <2>3, RequeueKeeps DEF Retime
  <1>4. CASE Block(r) \/ Lift(r)
    BY <1>4, MailStays DEF Block, Lift, Keeps, Same, OInv, NoneGone, Owned, Held
  <1> QED BY <1>1, <1>2, <1>3, <1>4

(* A recount or a send begins: a row goes from one place in hand to another. *)
LEMMA BeginKeeps ==
  ASSUME OInv, NEW d \in Drains, RecountBegin(d) \/ SendBegin(d)
  PROVE  Keeps
  <1> DEFINE old == drain[d]
  <1>1. old \in Drain /\ old.cur = {} /\ old.gone = {}
    BY DEF RecountBegin, SendBegin, OInv, NoneGone, IInv, DrainsInv
  <1>2. CASE RecountBegin(d)
    <2>1. PICK r \in old.todo :
            drain' = [drain EXCEPT ![d].todo = @ \ {r}, ![d].cur = {r}, ![d].phase = "counting"]
      BY <1>2 DEF RecountBegin
    <2> DEFINE x == [old EXCEPT !.todo = old.todo \ {r}, !.cur = {r}, !.phase = "counting"]
    <2>2. drain' = [drain EXCEPT ![d] = x]
      BY <1>1, <2>1 DEF Drain, OInv, IInv, DrainsInv
    <2>3. x.todo = old.todo \ {r} /\ x.cur = {r} /\ x.ready = old.ready /\ x.gone = {}
      BY <1>1 DEF Drain
    <2> HIDE DEF x
    <2>4. Holds(x) = Held(d)
      BY <1>1, <2>3 DEF Holds, Held
    <2> QED BY <1>2, <2>2, <2>3, <2>4, QuietKeeps DEF RecountBegin
  <1>3. CASE SendBegin(d)
    <2>1. PICK r \in old.ready, p \in {"sending", "blocked", "failed"} :
            drain' = [drain EXCEPT ![d].ready = @ \ {r}, ![d].cur = {r}, ![d].phase = p]
      BY <1>3 DEF SendBegin
    <2> DEFINE x == [old EXCEPT !.ready = old.ready \ {r}, !.cur = {r}, !.phase = p]
    <2>2. drain' = [drain EXCEPT ![d] = x]
      BY <1>1, <2>1 DEF Drain, OInv, IInv, DrainsInv
    <2>3. x.ready = old.ready \ {r} /\ x.cur = {r} /\ x.todo = old.todo /\ x.gone = {}
      BY <1>1 DEF Drain
    <2> HIDE DEF x
    <2>4. Holds(x) = Held(d)
      BY <1>1, <2>3 DEF Holds, Held
    <2> QED BY <1>3, <2>2, <2>3, <2>4, QuietKeeps DEF SendBegin
  <1> QED BY <1>2, <1>3

(* The transport answers: the row in hand is waiting, and may have been taken. *)
LEMMA AnswerKeeps == ASSUME OInv, NEW d \in Drains, Answer(d) PROVE Keeps
  <1>1. PICK r \in drain[d].cur, a \in {"accepted", "refused", "failed"} :
          /\ drain' = [drain EXCEPT ![d].phase = a]
          /\ \/ delivered' = [delivered EXCEPT ![r] = @ + 1]
             \/ delivered' = delivered
          /\ faults' \in {faults, faults + 1}
    BY DEF Answer
  <1> DEFINE old == drain[d]
             x == [old EXCEPT !.phase = a]
  <1>2. IInv /\ old \in Drain /\ old.gone = {} /\ r \in Held(d) /\ r \in Rows /\ row' = row
        /\ delivered \in [Rows -> Nat] /\ faults \in Nat
    BY DEF Answer, OInv, NoneGone, IInv, DrainsInv, CountsInv, Held, Drain
  <1>3. drain' = [drain EXCEPT ![d] = x]
    BY <1>1, <1>2 DEF OInv, IInv, DrainsInv
  <1>4. x.todo = old.todo /\ x.ready = old.ready /\ x.cur = old.cur /\ x.gone = {}
    BY <1>2 DEF Drain
  <1> HIDE DEF x
  <1>5. Held(d)' = Held(d) /\ drain'[d].gone = {}
        /\ \A e \in Drains \ {d} : Held(e)' = Held(e) /\ drain'[e] = drain[e]
    BY <1>2, <1>3, <1>4, OneMoves DEF Holds, Held, IInv, DrainsInv
  <1>6. NoneGone'
    BY <1>5 DEF OInv, NoneGone
  <1>7. Owned'
    BY <1>1, <1>2, <1>5, KeepsOwned
  <1>8. (\A q \in Rows : Same(q)) /\ row[r].status \in Waiting
    BY <1>2, InHand DEF Same, Waiting
  <1>9. CASE delivered' = delivered
    BY <1>6, <1>7, <1>8, <1>9, MailStays DEF Keeps
  <1>10. CASE delivered' = [delivered EXCEPT ![r] = delivered[r] + 1]
    BY <1>2, <1>6, <1>7, <1>8, <1>10, MailDelivers DEF Keeps
  <1> QED BY <1>1, <1>9, <1>10

(* The claim leases to its own drain what it does not close. *)
LEMMA ClaimKeeps ==
  ASSUME OInv, NEW d \in Drains, NEW S \in SUBSET Rows, ClaimRows(d, S)
  PROVE  Keeps
  <1>1. /\ Held(d) = {} /\ drain'[d].gone = {}
        /\ \A e \in Drains \ {d} : Held(e)' = Held(e) /\ drain'[e] = drain[e]
        /\ \A r \in Rows \ S : row'[r] = row[r]
        /\ \A r \in S :
             /\ row[r].status \in {"QUEUED", "FAILED", "SENDING"}
             /\ row'[r].status \in {"QUEUED", "FAILED", "SENDING", "DEAD", "SKIPPED", "SUPPRESSED"}
             /\ row'[r].status = "SENDING" => r \in Held(d)' /\ row'[r].owner = d
        /\ faults' = faults /\ delivered' = delivered
    BY ClaimDoes DEF OInv
  <1>2. NoneGone'
    BY <1>1 DEF OInv, NoneGone
  <1>3. Owned'
    <2> SUFFICES ASSUME NEW r \in Rows, row'[r].status = "SENDING"
                 PROVE  row'[r].owner \in Drains /\ (faults' = 0 => r \in Held(row[r].owner)')
      BY DEF Owned
    <2>1. CASE r \in S
      <3>1. r \in Held(d)' /\ row'[r].owner = d
        BY <1>1, <2>1
      <3>2. Held(row[r].owner)' = Held(d)'
        BY <3>1 DEF Held
      <3> QED BY <3>1, <3>2
    <2>2. CASE r \notin S
      <3>1. row'[r] = row[r]
        BY <1>1, <2>2
      <3>2. PICK e \in Drains : e = row[r].owner /\ (faults = 0 => r \in Held(e))
        BY <3>1 DEF OInv, Owned
      <3>3. faults' = 0 => r \in Held(e)'
        BY <1>1, <3>2
      <3>4. Held(row[r].owner)' = Held(e)'
        BY <3>1, <3>2 DEF Held
      <3> QED BY <3>1, <3>2, <3>3, <3>4
    <2> QED BY <2>1, <2>2
  <1>4. [Mail!Next]_(Mail!mailVars)
    <2>1. \A q \in Rows \ S : Same(q)
      BY <1>1 DEF Same
    <2>2. \A r \in S : row[r].status \in Waiting /\ row'[r].status \in Waiting \cup Dropped
      BY <1>1 DEF Waiting, Dropped
    <2> QED BY <1>1, <2>1, <2>2, MailMayDrop
  <1> QED BY <1>2, <1>3, <1>4 DEF Keeps

(* A drain that ends early is a fault: its rows wait out their leases. *)
LEMMA CrashKeeps == ASSUME OInv, NEW d \in Drains, Crash(d) PROVE Keeps
  <1>1. faults \in Nat /\ NewDrain.gone = {}
    BY DEF OInv, IInv, CountsInv, NewDrain
  <1>2. faults' # 0 /\ row' = row /\ delivered' = delivered /\ drain' = [drain EXCEPT ![d] = NewDrain]
    BY <1>1 DEF Crash
  <1> QED BY <1>1, <1>2, QuietKeeps

(* Every step keeps what is in hand in hand, and is one of MailDelivery or none. *)
LEMMA NextKeeps == ASSUME BudgetsInsideLease, OInv, [Next]_vars PROVE OInv' /\ [Mail!Next]_(Mail!mailVars)
  <1>1. Keeps
    <2>1. CASE Tick
      BY <2>1, TickKeeps
    <2>2. ASSUME NEW r \in Rows, Enqueue(r) \/ Remake(r) \/ Retime(r) \/ Block(r) \/ Lift(r)
          PROVE  Keeps
      BY <2>2, OutsideKeeps
    <2>3. ASSUME NEW d \in Drains, Claim(d)
          PROVE  Keeps
      BY <2>3, ClaimKeeps DEF Claim
    <2>4. ASSUME NEW d \in Drains, RecountEnd(d)
          PROVE  Keeps
      <3>0. PICK r \in drain[d].cur : \E x :
              \/ \E y : Dealt(d, r, x, y)
              \/ /\ drain' = [drain EXCEPT ![d] = x] /\ x.gone = {} /\ Holds(x) = Held(d)
                 /\ UNCHANGED <<row, delivered, faults>>
        BY <2>4, RecountEndDoes
      <3>1. PICK x :
              \/ \E y : Dealt(d, r, x, y)
              \/ /\ drain' = [drain EXCEPT ![d] = x] /\ x.gone = {} /\ Holds(x) = Held(d)
                 /\ UNCHANGED <<row, delivered, faults>>
        BY <3>0
      <3>2. CASE \E y : Dealt(d, r, x, y)
        BY <3>2, DealtKeeps
      <3>3. CASE /\ drain' = [drain EXCEPT ![d] = x] /\ x.gone = {} /\ Holds(x) = Held(d)
                 /\ UNCHANGED <<row, delivered, faults>>
        BY <3>3, QuietKeeps
      <3> QED BY <3>1, <3>2, <3>3
    <2>5. ASSUME NEW d \in Drains, Finalise(d)
          PROVE  Keeps
      BY <2>5, FinaliseDoes, DealtKeeps
    <2>6. ASSUME NEW d \in Drains,
                 \/ RecountBegin(d) \/ SendBegin(d) \/ Answer(d) \/ Release(d) \/ Crash(d)
          PROVE  Keeps
      <3>1. Release(d) => Keeps
        BY ReleaseKeeps DEF Release
      <3> QED BY <2>6, <3>1, BeginKeeps, AnswerKeeps, CrashKeeps
    <2>7. CASE UNCHANGED vars
      BY <2>7, MailStays DEF vars, Keeps, Same, OInv, NoneGone, Owned, Held
    <2> QED BY <2>1, <2>2, <2>3, <2>4, <2>5, <2>6, <2>7 DEF Next
  <1>2. IInv'
    BY NextIInv DEF OInv
  <1> QED BY <1>1, <1>2 DEF Keeps, OInv

(* An empty table. *)
LEMMA InitOInv == ASSUME Init PROVE OInv /\ Mail!Init
  <1>1. IInv
    BY InitIInv
  <1>2. NoneGone
    BY DEF Init, NoneGone, NewDrain
  <1>3. \A r \in Rows : row[r].status = "ABSENT"
    BY DEF Init, NoRow
  <1>4. Owned
    BY <1>3 DEF Owned
  <1>5. Mail!Init
    <2>1. delivered = [r \in Rows |-> 0]
      BY DEF Init
    <2> QED BY <1>3, <2>1 DEF Mail!Init, Terminal
  <1> QED BY <1>1, <1>2, <1>4, <1>5 DEF OInv

(* No lease is leaked: without a fault a leased row is in the hands of the   *)
(* drain it is leased to, whatever that drain was handed and let go since.   *)
THEOREM NoOrphan == ASSUME BudgetsInsideLease PROVE Spec => []NoOrphanWithoutFault
  <1>1. Init => OInv
    BY InitOInv
  <1>2. OInv /\ [Next]_vars => OInv'
    BY NextKeeps
  <1>3. OInv => NoOrphanWithoutFault
    BY DEF OInv, Owned, NoOrphanWithoutFault
  <1> QED BY <1>1, <1>2, <1>3, PTL DEF Spec

(* The outbox keeps the safety half of its promise: a mail is taken only     *)
(* while it waits, recorded as sent only after a copy was taken, and dropped *)
(* or made again only as MailDelivery says.                                  *)
THEOREM KeepsMailDelivery == ASSUME BudgetsInsideLease PROVE Spec => Mail!SafeSpec
  <1>1. Init => OInv /\ Mail!Init
    BY InitOInv
  <1>2. OInv /\ [Next]_vars => OInv' /\ [Mail!Next]_(Mail!mailVars)
    BY NextKeeps
  <1> QED BY <1>1, <1>2, PTL DEF Spec, Mail!SafeSpec
=============================================================================
