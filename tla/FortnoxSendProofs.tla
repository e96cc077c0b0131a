-------------------------- MODULE FortnoxSendProofs --------------------------
(***************************************************************************)
(* What a run of FortnoxSend may rely on (IInv), kept by every step as long *)
(* as a reconcile looks far enough (WithinScan): what a run read of its     *)
(* entries still holds while it holds the lease, a delivery tells the truth *)
(* of its voucher, and a voucher is asked for only where there is none.     *)
(* FortnoxLineProofs shows that it does look far enough, and states the     *)
(* theorems.                                                                *)
(***************************************************************************)
EXTENDS FortnoxSend, FiniteSetTheorems, WellFoundedInduction, TLAPS

Busy == {"reconcile", "requeue", "send", "intent", "ask", "asked", "booked", "pdf", "keep",
         "connect", "done", "found"}

(* A run at an entry has one, and a refusal it writes has its reason.       *)
Shaped(x) ==
  /\ x \in Run
  /\ x.pc # "idle" => x.conn \in Conns
  /\ x.pc \in Busy => Todo(x) # {}
  /\ x.pc = "requeue" => x.then # "none"

(* The entry's request is about to leave: a run asks before its deadline.   *)
Asking(r, e) == run[r].pc = "ask" /\ run[r].left > 0 /\ Cur(run[r]) = e

(* Nothing of the entry is in Fortnox, under way to it, or about to be.     *)
Clear(e) == Made(e, 1) = {} /\ late[e] = 0 /\ \A r \in Runs : ~Asking(r, e)

(* What a run read of an entry still holds, but for the time gone by.       *)
Fresh(x, e) ==
  dv[e].state = "SENDING" /\ dv[e].next = x.seen[e].next /\ dv[e].age >= x.seen[e].age

(* What a run may rely on: of its entries always, and of what it read of    *)
(* them while it holds the lease.                                           *)
Reading(r) ==
  LET x == run[r] IN
  /\ x.pc = "claim" => Todo(x) = {}
  /\ \A e \in Todo(x) : dv[e].state # "NEW" /\ dv[e].conn = x.conn
  /\ x.pc = "intent" => x.at \in 1 .. Len(series) + 1
  /\ x.pc = "booked" => x.at \in DOMAIN series /\ series[x.at] = Cur(x)
  /\ x.pc = "reconcile" => x.seen[Cur(x)].state = "SENDING" /\ x.seen[Cur(x)].age >= Unsure
  /\ x.pc # "idle" /\ Holds(r) =>
       /\ \A e \in Todo(x) :
            x.seen[e].state = "SENDING" /\ (e # Cur(x) \/ x.pc \in {"book", "reconcile"}) => Fresh(x, e)
       /\ x.pc = "requeue" /\ dv[Cur(x)].state = "SENDING" => Clear(Cur(x))

(* What a delivery tells of its voucher, and a request of the delivery.     *)
Told(e) ==
  LET o == dv[e] IN
  /\ o.state = "NEW" <=> o.conn = NoConn
  /\ o.denied => o.conn \in Conns /\ conn[o.conn].status = "DISCONNECTED"
  /\ o.state \in {"NEW", "QUEUED", "DOWNLOADED"} /\ ~o.denied => Clear(e)
  /\ o.state = "SENDING" =>
       /\ o.next \in 1 .. Len(series) + 1
       /\ \A i \in Made(e, 1) : i >= o.next
       /\ late[e] > 0 => o.age + late[e] <= Budget + Landing
       /\ \A r \in Runs : Asking(r, e) => o.age + run[r].left <= Budget
  /\ o.state \in {"BOOKED", "DONE"} => o.number \in DOMAIN series /\ series[o.number] = e

(* A voucher is asked for only while there is none, by one run at a time.   *)
Single(e) ==
  /\ late[e] > 0 => Made(e, 1) = {}
  /\ \A r \in Runs : Asking(r, e) =>
       Made(e, 1) = {} /\ late[e] = 0 /\ \A q \in Runs : Asking(q, e) => q = r
  /\ \A i, j \in Made(e, 1) : i = j

IInv ==
  /\ TypeOK
  /\ \A r \in Runs : Shaped(run[r]) /\ Reading(r)
  /\ \A e \in Entries : Told(e) /\ Single(e)

-----------------------------------------------------------------------------
(* Numbers, sets and the values a record may take. *)

(* A set of natural numbers that is not empty has a first. *)
LEMMA Least ==
  ASSUME NEW S \in SUBSET Nat, S # {}
  PROVE  First(S) \in S /\ \A f \in S : First(S) <= f
  <1> DEFINE R == {p \in Nat \X Nat : p[1] < p[2]}
  <1>1. IsWellFoundedOn(R, Nat)
    BY NatLessThanWellFounded DEF OpToRel
  <1>2. PICK e \in S : \A f \in S : ~ (<<f, e>> \in R)
    <2> HIDE DEF R
    <2> QED BY <1>1, WFMin
  <1>3. ASSUME NEW f \in S PROVE e <= f
    <2>1. f \in Nat /\ e \in Nat
      OBVIOUS
    <2>2. f < e => <<f, e>> \in R
      BY <2>1
    <2>3. ~ (f < e)
      <3> HIDE DEF R
      <3> QED BY <1>2, <2>2
    <2> QED BY <2>1, <2>3
  <1> QED BY <1>3 DEF First

(* What the assumption says of each constant, one at a time.                *)
LEMMA ConstantFacts ==
  /\ Unsure \in Nat /\ Unsure > 0 /\ 0 \in 0 .. Unsure
  /\ Lease \in Nat /\ 0 \in 0 .. Lease /\ Lease \in 0 .. Lease /\ Lease > 0
  /\ Budget \in Nat /\ 0 \in 0 .. Budget /\ Budget \in 0 .. Budget /\ Budget > 0
  /\ Landing \in Nat /\ 0 \in 0 .. Landing /\ Landing \in 0 .. Landing /\ Landing > 0
  /\ Budget + Landing <= Unsure
  /\ Softs \subseteq Nat
  /\ NoRun \notin Runs /\ NoRun \in Runs \cup {NoRun}
  /\ MaxFaults \in Nat /\ MaxSlow \in Nat /\ Scan \in Nat
  /\ Entries \subseteq Nat /\ Conns \subseteq Nat
  /\ NoEntry \notin Entries /\ NoConn \notin Conns /\ Other \notin Entries
  BY FortnoxAssumption DEF Entries, Conns, NoEntry, NoConn, Other

(* There are finitely many files.                                           *)
LEMMA FilesFinite ==
  ASSUME dv \in [Entries -> Delivery]
  PROVE  Cardinality(Files) \in Nat
  <1> DEFINE T == {dv[e].file : e \in Entries}
             g == [e \in Entries |-> dv[e].file]
  <1>1. IsFiniteSet(Entries)
    BY FortnoxAssumption, FS_Interval DEF Entries
  <1>2. g \in Surjection(Entries, T)
    BY DEF Surjection
  <1>3. IsFiniteSet(T)
    <2> HIDE DEF g, T
    <2> QED BY <1>1, <1>2, FS_Surjection
  <1>4. Files \in SUBSET T
    BY DEF Files
  <1> QED BY <1>3, <1>4, FS_Subset, FS_CardinalityType

(* A connection has finitely many vouchers.                                 *)
LEMMA VouchersFinite ==
  ASSUME series \in Seq(Entries \cup {Other}), NEW c
  PROVE  Cardinality(Vouchers(c)) \in Nat
  <1>1. IsFiniteSet(1 .. Len(series)) /\ DOMAIN series = 1 .. Len(series)
    BY FS_Interval, Len(series) \in Nat
  <1>2. Vouchers(c) \in SUBSET (1 .. Len(series))
    BY <1>1 DEF Vouchers
  <1> QED BY <1>1, <1>2, FS_Subset, FS_CardinalityType

(* A delivery with nothing sent; a stop; a connection and a run unbegun. *)
LEMMA Beginnings ==
  /\ NoDelivery \in Delivery /\ Nothing \in [Entries -> Delivery]
  /\ NoStop \in Stop /\ NoConnection \in Connection
  /\ \A k \in {"none", "stop", "terminal"}, e \in Entries \cup {NoEntry} : At(k, e) \in Stop
  /\ NewRun \in Run /\ Todo(NewRun) = {}
  <1>1. NoDelivery \in Delivery
    BY ConstantFacts, Zenon DEF NoDelivery, Delivery, States
  <1>2. Nothing \in [Entries -> Delivery]
    BY <1>1 DEF Nothing
  <1>3. NoStop \in Stop /\ \A k \in {"none", "stop", "terminal"}, e \in Entries \cup {NoEntry} : At(k, e) \in Stop
    BY DEF NoStop, Stop, At
  <1>4. NoConnection \in Connection
    BY <1>3, ConstantFacts, 0 \in Nat DEF NoConnection, Connection
  <1>5. NewRun \in Run
    <2>1. NewRun.pc \in Steps
      BY DEF NewRun, Steps
    <2> QED BY <1>2, <1>3, <2>1, ConstantFacts, 0 \in Nat, Zenon DEF NewRun, Run, Steps
  <1>6. Todo(NewRun) = {}
    BY DEF Todo, NewRun, Nothing, NoDelivery
  <1> QED BY <1>1, <1>2, <1>3, <1>4, <1>5, <1>6

-----------------------------------------------------------------------------
(* What a step makes of a run is a run. *)

(* The entry a run is at is one of those before it.                         *)
LEMMA Current ==
  ASSUME NEW x \in Run, Todo(x) # {}
  PROVE  Cur(x) \in Todo(x) /\ Cur(x) \in Entries /\ x.seen[Cur(x)] \in Delivery
  <1>1. Todo(x) \in SUBSET Nat /\ Todo(x) \in SUBSET Entries
    BY ConstantFacts DEF Todo
  <1>2. x.seen \in [Entries -> Delivery]
    BY Zenon DEF Run
  <1> QED BY <1>1, <1>2, Least DEF Cur

(* A run that goes on to no step that asks, writes or relies on more than    *)
(* it did: what is left of its line, it had before.                         *)
Calm(x, y) ==
  /\ Shaped(y)
  /\ y.pc \notin {"claim", "reconcile", "requeue", "intent", "ask", "booked"}
  /\ \A e \in Todo(y) :
       /\ e \in Todo(x) /\ y.conn = x.conn
       /\ y.seen[e].state = "SENDING" => y.seen[e] = x.seen[e]
       /\ e # Cur(y) \/ y.pc = "book" => e # Cur(x) \/ x.pc = "book"

(* A run with nothing read has nothing before it.                           *)
LEMMA Emptied ==
  ASSUME NEW y, y.seen = Nothing
  PROVE  Todo(y) = {}
  BY DEF Todo, Nothing, NoDelivery

(* A step to a run with nothing before it is calm.                          *)
LEMMA CalmEmpty ==
  ASSUME NEW x, NEW y \in Run, y.seen = Nothing, y.conn \in Conns, y.pc \notin Busy \cup {"claim"}
  PROVE  Calm(x, y)
  BY Emptied DEF Calm, Shaped, Busy

(* So is the end of a run.                                                  *)
LEMMA CalmNew == \A x : Calm(x, NewRun)
  BY Beginnings DEF Calm, Shaped, Busy, NewRun

(* A line that stops leaves a run of the right shape, with nothing before   *)
(* it.                                                                      *)
LEMMA HaltedRun ==
  ASSUME NEW x \in Run
  PROVE  LET y == Halted(x)
         IN  y \in Run /\ y.pc = "owed" /\ y.seen = Nothing /\ y.conn = x.conn /\ y.stop = x.stop
  <1>0. "owed" \in Steps
    BY DEF Steps
  <1>1. Halted(x) \in Run
    BY <1>0, Beginnings, 0 \in Nat, Zenon DEF Halted, Run
  <1> QED BY <1>1 DEF Halted, Run

(* Every way a line stops is calm.                                          *)
LEMMA Halts ==
  ASSUME NEW x \in Run, x.conn \in Conns
  PROVE  /\ Calm(x, Quieted(x)) /\ Calm(x, OutOfTime(x))
         /\ \A k \in {"stop", "terminal"} : Todo(x) # {} => Calm(x, StopAt(x, k))
  <1> DEFINE h == Halted(x)
  <1>1. h \in Run /\ h.pc = "owed" /\ h.seen = Nothing /\ h.conn = x.conn
    BY HaltedRun
  <1> HIDE DEF h
  <1>2. [h EXCEPT !.quiet = TRUE] \in Run /\ [h EXCEPT !.out = TRUE] \in Run
    BY <1>1, Zenon DEF Run
  <1>3. ASSUME NEW s \in Stop PROVE [h EXCEPT !.stop = s] \in Run
    BY <1>1, Zenon DEF Run
  <1>4. ASSUME NEW k \in {"stop", "terminal"}, Todo(x) # {} PROVE Calm(x, StopAt(x, k))
    <2> DEFINE s == IF h.stop.kind = "none" THEN At(k, Cur(x)) ELSE h.stop
    <2>1. s \in Stop
      <3>1. h.stop \in Stop
        BY <1>1, Zenon DEF Run
      <3> QED BY <1>4, <3>1, Current, Beginnings
    <2>2. StopAt(x, k) = [h EXCEPT !.stop = s]
      BY DEF StopAt, h
    <2> HIDE DEF s
    <2>3. [h EXCEPT !.stop = s].pc = "owed" /\ [h EXCEPT !.stop = s].seen = Nothing /\ [h EXCEPT !.stop = s].conn = x.conn
      BY <1>1 DEF Run
    <2> QED BY <1>3, <2>1, <2>2, <2>3, CalmEmpty DEF Busy
  <1>5. Calm(x, [h EXCEPT !.quiet = TRUE])
    <2>1. [h EXCEPT !.quiet = TRUE].pc = "owed" /\ [h EXCEPT !.quiet = TRUE].seen = Nothing /\ [h EXCEPT !.quiet = TRUE].conn = x.conn
      BY <1>1 DEF Run
    <2> QED BY <1>2, <2>1, CalmEmpty DEF Busy
  <1>6. Calm(x, [h EXCEPT !.out = TRUE])
    <2>1. [h EXCEPT !.out = TRUE].pc = "owed" /\ [h EXCEPT !.out = TRUE].seen = Nothing /\ [h EXCEPT !.out = TRUE].conn = x.conn
      BY <1>1 DEF Run
    <2> QED BY <1>2, <2>1, CalmEmpty DEF Busy
  <1> QED BY <1>4, <1>5, <1>6 DEF Quieted, OutOfTime, h

(* A run that gives up is of the right shape, with nothing before it.       *)
LEMMA EndedRun ==
  ASSUME NEW x \in Run
  PROVE  LET y == Ended(x)
         IN  y \in Run /\ y.pc = "settle" /\ y.seen = Nothing /\ y.conn = x.conn /\ y.stop = x.stop
  <1>0. "settle" \in Steps
    BY DEF Steps
  <1>1. Ended(x) \in Run
    BY <1>0, Beginnings, Zenon DEF Ended, Run
  <1> QED BY <1>1 DEF Ended, Run

(* Every way a run gives up is calm.                                        *)
LEMMA Ends ==
  ASSUME NEW x \in Run, x.conn \in Conns
  PROVE  /\ Calm(x, Ended(x)) /\ Calm(x, Cut(x))
         /\ Calm(x, [Ended(x) EXCEPT !.out = TRUE]) /\ Calm(x, [Ended(x) EXCEPT !.pc = "release"])
         /\ \A s \in Stop : Calm(x, [Ended(x) EXCEPT !.stop = s])
  <1> DEFINE h == Ended(x)
  <1>1. h \in Run /\ h.pc = "settle" /\ h.seen = Nothing /\ h.conn = x.conn
    BY EndedRun
  <1>0. "release" \in Steps
    BY DEF Steps
  <1> HIDE DEF h
  <1>2. ASSUME NEW s \in Stop PROVE Calm(x, [h EXCEPT !.stop = s])
    <2>1. [h EXCEPT !.stop = s] \in Run
      BY <1>1, Zenon DEF Run
    <2>2. [h EXCEPT !.stop = s].pc = "settle" /\ [h EXCEPT !.stop = s].seen = Nothing /\ [h EXCEPT !.stop = s].conn = x.conn
      BY <1>1 DEF Run
    <2> QED BY <2>1, <2>2, CalmEmpty DEF Busy
  <1>3. Calm(x, [h EXCEPT !.quiet = TRUE])
    <2>1. [h EXCEPT !.quiet = TRUE] \in Run
      BY <1>1, Zenon DEF Run
    <2>2. [h EXCEPT !.quiet = TRUE].pc = "settle" /\ [h EXCEPT !.quiet = TRUE].seen = Nothing /\ [h EXCEPT !.quiet = TRUE].conn = x.conn
      BY <1>1 DEF Run
    <2> QED BY <2>1, <2>2, CalmEmpty DEF Busy
  <1>4. Calm(x, [h EXCEPT !.out = TRUE])
    <2>1. [h EXCEPT !.out = TRUE] \in Run
      BY <1>1, Zenon DEF Run
    <2>2. [h EXCEPT !.out = TRUE].pc = "settle" /\ [h EXCEPT !.out = TRUE].seen = Nothing /\ [h EXCEPT !.out = TRUE].conn = x.conn
      BY <1>1 DEF Run
    <2> QED BY <2>1, <2>2, CalmEmpty DEF Busy
  <1>5. Calm(x, [h EXCEPT !.pc = "release"])
    <2>1. [h EXCEPT !.pc = "release"] \in Run
      BY <1>0, <1>1, Zenon DEF Run
    <2>2. [h EXCEPT !.pc = "release"].pc = "release" /\ [h EXCEPT !.pc = "release"].seen = Nothing /\ [h EXCEPT !.pc = "release"].conn = x.conn
      BY <1>1 DEF Run
    <2> QED BY <2>1, <2>2, CalmEmpty DEF Busy
  <1>6. Calm(x, h)
    BY <1>1, CalmEmpty DEF Busy
  <1> QED BY <1>2, <1>3, <1>4, <1>5, <1>6 DEF Cut, h

(* A run that goes on to a step keeps its shape.                            *)
LEMMA Onward ==
  ASSUME NEW x \in Run, NEW y \in Run, x.conn \in Conns, y.conn = x.conn, y.seen = x.seen,
         y.pc \notin {"claim", "reconcile", "requeue", "intent", "ask", "booked", "book"},
         y.pc \in Busy => Todo(x) # {}
  PROVE  Calm(x, y)
  <1>1. Todo(y) = Todo(x) /\ Cur(y) = Cur(x)
    BY DEF Todo, Cur
  <1> QED BY <1>1 DEF Calm, Shaped

(* A run that goes to its next step, with a number, a reason or an outcome. *)
LEMMA Stepped ==
  ASSUME NEW x \in Run, NEW p \in Steps
  PROVE  LET y == [x EXCEPT !.pc = p]
         IN  y \in Run /\ y.pc = p /\ y.seen = x.seen /\ y.conn = x.conn /\ y.left = x.left /\ y.at = x.at
  <1>1. [x EXCEPT !.pc = p] \in Run
    BY Zenon DEF Run
  <1> QED BY <1>1 DEF Run

(* Going on to a step that asks nothing more of the state is calm.          *)
LEMMA CalmTo ==
  ASSUME NEW x \in Run, x.conn \in Conns, NEW p \in Steps, p \in Busy => Todo(x) # {},
         p \notin {"claim", "reconcile", "requeue", "intent", "ask", "booked", "book"}
  PROVE  Calm(x, [x EXCEPT !.pc = p])
  <1> DEFINE y == [x EXCEPT !.pc = p]
  <1>1. y \in Run /\ y.pc = p /\ y.seen = x.seen /\ y.conn = x.conn
    BY Stepped
  <1> HIDE DEF y
  <1>2. Calm(x, y)
    BY <1>1, Onward
  <1> QED BY <1>2 DEF y

ToAt(x, p, n)  == [x EXCEPT !.pc = p, !.at = n]
Reasons == {"none", "send", "rate", "stop", "terminal"}
ToFor(x, p, k) == [x EXCEPT !.pc = p, !.then = k]

(* A run that takes a number with it keeps its shape and its entry.         *)
LEMMA SteppedAt ==
  ASSUME NEW x \in Run, NEW p \in Steps, NEW n \in Nat
  PROVE  LET y == ToAt(x, p, n)
         IN  y \in Run /\ y.pc = p /\ y.seen = x.seen /\ y.conn = x.conn /\ y.left = x.left /\ y.at = n
  <1>1. [x EXCEPT !.pc = p, !.at = n] \in Run
    BY Zenon DEF Run
  <1> QED BY <1>1 DEF Run, ToAt

(* A run that takes a reason with it keeps its shape and its entry.         *)
LEMMA SteppedFor ==
  ASSUME NEW x \in Run, NEW p \in Steps, NEW k \in Reasons
  PROVE  LET y == ToFor(x, p, k)
         IN  y \in Run /\ y.pc = p /\ y.seen = x.seen /\ y.conn = x.conn /\ y.left = x.left /\ y.then = k
  <1>1. [x EXCEPT !.pc = p, !.then = k] \in Run
    BY Zenon DEF Run, Reasons
  <1> QED BY <1>1 DEF Run, ToFor

(* A line read, or the PDFs still owed. *)
LEMMA ReadRun ==
  ASSUME NEW x \in Run, NEW g \in [Entries -> Delivery]
  PROVE  /\ LET y == [x EXCEPT !.pc = "book", !.owed = FALSE, !.seen = g]
            IN  y \in Run /\ y.pc = "book" /\ y.seen = g /\ y.conn = x.conn
         /\ LET y == [x EXCEPT !.pc = "next", !.owed = TRUE, !.seen = g]
            IN  y \in Run /\ y.pc = "next" /\ y.seen = g /\ y.conn = x.conn
  <1>0. "book" \in Steps /\ "next" \in Steps
    BY DEF Steps
  <1>1. [x EXCEPT !.pc = "book", !.owed = FALSE, !.seen = g] \in Run
    BY <1>0, Zenon DEF Run
  <1>2. [x EXCEPT !.pc = "next", !.owed = TRUE, !.seen = g] \in Run
    BY <1>0, Zenon DEF Run
  <1> QED BY <1>1, <1>2 DEF Run

(* The entry at hand is through, with its PDF or without. *)
LEMMA PastRun ==
  ASSUME NEW x \in Run, Todo(x) # {}
  PROVE  LET y == PastPdf(x)
         IN  /\ y \in Run /\ y.pc \in {"next", "book"} /\ y.conn = x.conn
             /\ y.seen = [x.seen EXCEPT ![Cur(x)] = NoDelivery]
  <1> DEFINE g == [x.seen EXCEPT ![Cur(x)] = NoDelivery]
             t == x.tried \cup {Cur(x)}
             p == IF x.owed THEN "next" ELSE "book"
  <1>1. g \in [Entries -> Delivery] /\ p \in Steps /\ t \in SUBSET Entries
    <2>1. x.seen \in [Entries -> Delivery] /\ x.tried \in SUBSET Entries
      BY Zenon DEF Run
    <2>2. g \in [Entries -> Delivery]
      BY <2>1, Beginnings
    <2>3. p \in Steps
      BY DEF Steps
    <2>4. t \in SUBSET Entries
      BY <2>1, Current
    <2> QED BY <2>2, <2>3, <2>4
  <1>2. PastPdf(x) = [x EXCEPT !.seen = g, !.tried = t, !.pc = p]
    BY DEF PastPdf, Run
  <1>3. p \in {"next", "book"}
    OBVIOUS
  <1> HIDE DEF g, t, p
  <1>4. [x EXCEPT !.seen = g, !.tried = t, !.pc = p] \in Run
    BY <1>1, Zenon DEF Run
  <1>5. LET y == [x EXCEPT !.seen = g, !.tried = t, !.pc = p] IN y.pc = p /\ y.conn = x.conn /\ y.seen = g
    BY DEF Run
  <1>6. g = [x.seen EXCEPT ![Cur(x)] = NoDelivery]
    BY DEF g
  <1> QED BY <1>2, <1>3, <1>4, <1>5, <1>6

(* A run through with its entry has the others before it, as they were      *)
(* read.                                                                    *)
LEMMA CalmPast ==
  ASSUME NEW x \in Run, NEW y \in Run, x.conn \in Conns, Todo(x) # {}, y.pc \in {"next", "book"},
         y.conn = x.conn, y.seen = [x.seen EXCEPT ![Cur(x)] = NoDelivery]
  PROVE  Calm(x, y)
  <1>1. x.seen \in [Entries -> Delivery]
    BY Zenon DEF Run
  <1>2. \A e \in Entries : y.seen[e] = IF e = Cur(x) THEN NoDelivery ELSE x.seen[e]
    BY <1>1
  <1>3. \A e \in Todo(y) : e # Cur(x) /\ e \in Todo(x) /\ y.seen[e] = x.seen[e]
    BY <1>2 DEF Todo, NoDelivery
  <1> QED BY <1>3 DEF Calm, Shaped, Busy

(* Every way a PDF is done with is calm.                                    *)
LEMMA Pasts ==
  ASSUME NEW x \in Run, x.conn \in Conns, Todo(x) # {}
  PROVE  /\ Calm(x, [PastPdf(x) EXCEPT !.out = TRUE])
         /\ \A b \in BOOLEAN : Calm(x, [PastPdf(x) EXCEPT !.attached = b])
         /\ Calm(x, Missing(x))
  <1> DEFINE h == PastPdf(x)
  <1>1. /\ h \in Run /\ h.pc \in {"next", "book"} /\ h.conn = x.conn
        /\ h.seen = [x.seen EXCEPT ![Cur(x)] = NoDelivery]
    BY PastRun
  <1>6. h.attached \in BOOLEAN /\ h.overdue \in Stop
    <2> HIDE DEF h
    <2> QED BY <1>1, Zenon DEF Run
  <1>0. Cur(x) \in Entries
    BY Current
  <1>2. Missing(x) = [h EXCEPT !.overdue = IF h.overdue.kind = "none" /\ x.seen[Cur(x)].old THEN At("stop", Cur(x)) ELSE h.overdue]
    BY DEF Missing
  <1> HIDE DEF h
  <1>3. Calm(x, [h EXCEPT !.out = TRUE])
    <2>1. [h EXCEPT !.out = TRUE] \in Run
      BY <1>1, Zenon DEF Run
    <2>2. LET y == [h EXCEPT !.out = TRUE] IN y.pc = h.pc /\ y.conn = h.conn /\ y.seen = h.seen
      BY <1>1 DEF Run
    <2> QED BY <1>1, <2>1, <2>2, CalmPast
  <1>4. ASSUME NEW b \in BOOLEAN PROVE Calm(x, [h EXCEPT !.attached = b])
    <2>1. [h EXCEPT !.attached = b] \in Run
      BY <1>1, Zenon DEF Run
    <2>2. LET y == [h EXCEPT !.attached = b] IN y.pc = h.pc /\ y.conn = h.conn /\ y.seen = h.seen
      BY <1>1 DEF Run
    <2> QED BY <1>1, <2>1, <2>2, CalmPast
  <1>5. ASSUME NEW s \in Stop PROVE Calm(x, [h EXCEPT !.overdue = s])
    <2>1. [h EXCEPT !.overdue = s] \in Run
      BY <1>1, Zenon DEF Run
    <2>2. LET y == [h EXCEPT !.overdue = s] IN y.pc = h.pc /\ y.conn = h.conn /\ y.seen = h.seen
      BY <1>1 DEF Run
    <2> QED BY <1>1, <2>1, <2>2, CalmPast
  <1>7. At("stop", Cur(x)) \in Stop
    BY <1>0, Beginnings
  <1> QED BY <1>2, <1>3, <1>4, <1>5, <1>6, <1>7 DEF h

-----------------------------------------------------------------------------
(* What stays while a step is another run's, or another entry's. *)

(* No run is more about to ask than it was. *)
AsksKept == \A q \in Runs : run'[q] = run[q] \/ run'[q].pc # "ask"

(* The leases, and which connections are cut off, stay as they are. *)
LeasesKept ==
  \A c \in Conns : /\ conn'[c].holder = conn[c].holder /\ conn'[c].lease = conn[c].lease
                   /\ conn'[c].status = "DISCONNECTED" <=> conn[c].status = "DISCONNECTED"

(* When no run begins to ask, what is asked was asked before.               *)
LEMMA FewerAsks ==
  ASSUME AsksKept, NEW q \in Runs, NEW e, Asking(q, e)'
  PROVE  Asking(q, e) /\ run'[q].left = run[q].left
  BY DEF AsksKept, Asking

(* An entry nothing is known of stays so while Fortnox and the runs do      *)
(* nothing for it.                                                          *)
LEMMA ClearStays ==
  ASSUME NEW e, Clear(e), AsksKept, series' = series, late'[e] = late[e]
  PROVE  Clear(e)'
  BY FewerAsks DEF Clear, Made

(* A run at another step asks for nothing.                                  *)
LEMMA NotAsking ==
  ASSUME NEW r \in Runs, NEW y, run \in [Runs -> Run], Set(r, y), y.pc # "ask"
  PROVE  AsksKept
  BY DEF AsksKept, Set

(* An entry asked for once stays so while Fortnox and the runs do nothing   *)
(* for it.                                                                  *)
LEMMA SingleStays ==
  ASSUME NEW e, Single(e), AsksKept, series' = series, late'[e] = late[e]
  PROVE  Single(e)'
  BY FewerAsks DEF Single, Made

(* A delivery nobody writes keeps what it tells.                            *)
LEMMA ToldStays ==
  ASSUME NEW e \in Entries, Told(e), AsksKept, series' = series, late'[e] = late[e], dv'[e] = dv[e],
         \A c \in Conns : conn[c].status = "DISCONNECTED" => conn'[c].status = "DISCONNECTED"
  PROVE  Told(e)'
  <1>1. ASSUME dv[e].state \in {"NEW", "QUEUED", "DOWNLOADED"}, ~dv[e].denied PROVE Clear(e)'
    BY <1>1, ClearStays DEF Told
  <1>2. ASSUME dv[e].state = "SENDING"
        PROVE  /\ dv[e].next \in 1 .. Len(series) + 1
               /\ \A i \in Made(e, 1)' : i >= dv[e].next
               /\ late[e] > 0 => dv[e].age + late[e] <= Budget + Landing
               /\ \A r \in Runs : Asking(r, e)' => dv[e].age + run'[r].left <= Budget
    BY <1>2, FewerAsks DEF Told, Made
  <1> QED BY <1>1, <1>2 DEF Told

(* Fortnox's series only grows: a number once given names the same voucher. *)
Grows ==
  /\ 1 .. Len(series) + 1 \subseteq 1 .. Len(series)' + 1
  /\ \A i \in DOMAIN series : i \in DOMAIN series' /\ series'[i] = series[i]

(* A series that stays has grown by nothing.                                *)
LEMMA SameSeries == series' = series => Grows
  BY DEF Grows

(* A run goes on as it was: nobody else writes to what it holds. *)
LEMMA ReadingStays ==
  ASSUME NEW q \in Runs, Reading(q), run'[q] = run[q], Grows,
         \A e : Holds(q) /\ e \in Todo(run[q]) /\ Clear(e) => Clear(e)',
         run[q].pc # "idle" /\ Holds(q)' => Holds(q),
         \A e \in Todo(run[q]) : dv'[e].state # "NEW" /\ dv'[e].conn = dv[e].conn,
         run[q].pc # "idle" /\ Holds(q) => \A e \in Todo(run[q]) : dv'[e] = dv[e],
         run[q].pc = "requeue" => Todo(run[q]) # {} /\ Cur(run[q]) \in Todo(run[q])
  PROVE  Reading(q)'
  <1> DEFINE x == run[q]
  <1>1. ASSUME x.pc # "idle", Holds(q)'
        PROVE  /\ \A e \in Todo(x) :
                    x.seen[e].state = "SENDING" /\ (e # Cur(x) \/ x.pc \in {"book", "reconcile"}) => Fresh(x, e)'
               /\ x.pc = "requeue" /\ dv'[Cur(x)].state = "SENDING" => Clear(Cur(x))'
    BY <1>1 DEF Reading, Fresh
  <1>2. /\ x.pc = "intent" => x.at \in 1 .. Len(series)' + 1
        /\ x.pc = "booked" => x.at \in DOMAIN series' /\ series'[x.at] = Cur(x)
    BY DEF Reading, Grows
  <1> QED BY <1>1, <1>2 DEF Reading, Fresh

(* So does a run whose step is calm, whatever it writes of its own entry. *)
LEMMA ReadingCalm ==
  ASSUME NEW r \in Runs, NEW y, Reading(r), Calm(run[r], y), run'[r] = y,
         run[r].pc # "idle",
         Todo(y) # {} /\ Holds(r)' => Holds(r),
         \A e \in Todo(y) : dv'[e].state # "NEW" /\ dv'[e].conn = dv[e].conn,
         \A e \in Entries : e # Cur(run[r]) \/ run[r].pc = "book" => dv'[e] = dv[e]
  PROVE  Reading(r)'
  <1> DEFINE x == run[r]
  <1>1. ASSUME NEW e \in Todo(y), Holds(r)', y.seen[e].state = "SENDING", e # Cur(y) \/ y.pc \in {"book", "reconcile"}
        PROVE  Fresh(y, e)'
    <2>1. e \in Todo(x) /\ y.seen[e] = x.seen[e] /\ (e # Cur(x) \/ x.pc = "book")
      BY <1>1 DEF Calm
    <2>2. e \in Entries
      BY <1>1 DEF Todo
    <2>3. Fresh(x, e)
      BY <1>1, <2>1 DEF Reading
    <2> QED BY <2>1, <2>2, <2>3 DEF Fresh
  <1>2. \A e \in Todo(y) : dv'[e].state # "NEW" /\ dv'[e].conn = y.conn
    BY DEF Calm, Reading
  <1> QED BY <1>1, <1>2 DEF Reading, Calm

(* Types, in the pieces a step may disturb. *)
LEMMA Types ==
  ASSUME IInv
  PROVE  /\ dv \in [Entries -> Delivery] /\ conn \in [Conns -> Connection] /\ run \in [Runs -> Run]
         /\ series \in Seq(Entries \cup {Other}) /\ late \in [Entries -> 0 .. Landing]
         /\ due \in 0 .. LastEntry /\ faults \in 0 .. MaxFaults /\ slow \in 0 .. MaxSlow
  BY DEF IInv, TypeOK

(* The count of faults keeps its bound.                                     *)
LEMMA Faults ==
  ASSUME faults \in 0 .. MaxFaults, Fault \/ UNCHANGED faults
  PROVE  faults' \in 0 .. MaxFaults
  BY ConstantFacts DEF Fault

(* A run's step that writes nothing, but for what a connection says: what it *)
(* may rely on is all there is to see.                                      *)
LEMMA RunStep ==
  ASSUME IInv, NEW r \in Runs, NEW y, run' = [run EXCEPT ![r] = y], Shaped(y), y.pc # "ask", Reading(r)',
         UNCHANGED <<dv, series, late, due, slow>>, Fault \/ UNCHANGED faults,
         conn' \in [Conns -> Connection], LeasesKept
  PROVE  IInv'
  <1>1. /\ dv \in [Entries -> Delivery] /\ run \in [Runs -> Run]
        /\ faults \in 0 .. MaxFaults
    BY Types
  <1>2. y \in Run
    BY DEF Shaped
  <1>3. run' \in [Runs -> Run] /\ run'[r] = y /\ \A q \in Runs \ {r} : run'[q] = run[q]
    BY <1>1, <1>2
  <1>4. AsksKept
    BY <1>3 DEF AsksKept
  <1>5. TypeOK'
    BY <1>3, Types, Faults DEF TypeOK
  <1>6. \A e \in Entries : Told(e)' /\ Single(e)'
    BY <1>4, ToldStays, SingleStays DEF IInv, LeasesKept
  <1>7. \A q \in Runs : Shaped(run'[q])
    BY <1>3 DEF IInv
  <1>8. ASSUME NEW q \in Runs \ {r} PROVE Reading(q)'
    <2>1. Shaped(run[q]) /\ Reading(q)
      BY DEF IInv
    <2>2. run[q].pc # "idle" /\ Holds(q)' => Holds(q)
      BY <1>3, <2>1 DEF Holds, LeasesKept, Shaped
    <2>3. run[q].pc = "requeue" => Todo(run[q]) # {} /\ Cur(run[q]) \in Todo(run[q])
      BY <2>1, Current DEF Shaped, Busy
    <2>4. \A e : Clear(e) => Clear(e)'
      BY <1>4, ClearStays
    <2> QED BY <1>3, <2>1, <2>2, <2>3, <2>4, SameSeries, ReadingStays DEF Reading
  <1> QED BY <1>5, <1>6, <1>7, <1>8 DEF IInv

(* A calm step of a run that writes no delivery keeps the invariant.        *)
LEMMA CalmStep ==
  ASSUME IInv, NEW r \in Runs, NEW y, run[r].pc # "idle", Calm(run[r], y), run' = [run EXCEPT ![r] = y],
         UNCHANGED <<dv, series, late, due, slow>>, Fault \/ UNCHANGED faults,
         conn' \in [Conns -> Connection], LeasesKept
  PROVE  IInv'
  <1>1. Shaped(y) /\ y.pc # "ask"
    BY DEF Calm
  <1>2. run'[r] = y
    BY Types
  <1>3. Todo(y) # {} => y.conn = run[r].conn
    BY DEF Calm
  <1>4. run[r].conn \in Conns
    BY DEF IInv, Shaped
  <1>5. Todo(y) # {} /\ Holds(r)' => Holds(r)
    BY <1>2, <1>3, <1>4 DEF Holds, LeasesKept
  <1>6. \A e \in Todo(y) : dv[e].state # "NEW"
    BY DEF Calm, IInv, Reading
  <1>7. Reading(r)'
    BY <1>2, <1>5, <1>6, ReadingCalm DEF IInv
  <1> QED BY <1>1, <1>7, RunStep

(* A calm step under the lease writes the delivery at hand. *)
LEMMA WriteStep ==
  ASSUME IInv, NEW r \in Runs, NEW y, run[r].pc \in Busy, run' = [run EXCEPT ![r] = y],
         Calm(run[r], y), Holds(r),
         NEW e \in Entries, e = Cur(run[r]), NEW o \in Delivery, dv' = [dv EXCEPT ![e] = o],
         o.state # "NEW", o.conn = dv[e].conn, Told(e)',
         UNCHANGED <<conn, series, late, due, slow>>, Fault \/ UNCHANGED faults
  PROVE  IInv'
  <1>1. /\ dv \in [Entries -> Delivery] /\ run \in [Runs -> Run]
        /\ faults \in 0 .. MaxFaults
    BY Types
  <1>2. y \in Run /\ Shaped(y) /\ y.pc # "ask"
    BY DEF Calm, Shaped
  <1>3. run' \in [Runs -> Run] /\ run'[r] = y /\ \A q \in Runs \ {r} : run'[q] = run[q]
    BY <1>1, <1>2
  <1>4. AsksKept
    BY <1>2, <1>3 DEF AsksKept
  <1>5. dv' \in [Entries -> Delivery] /\ dv'[e] = o /\ \A f \in Entries \ {e} : dv'[f] = dv[f]
    BY <1>1
  <1>6. TypeOK'
    BY <1>3, <1>5, Types, Faults DEF TypeOK
  <1>7. ASSUME NEW f \in Entries PROVE Told(f)' /\ Single(f)'
    <2>1. Told(f) /\ Single(f) /\ (f # e => dv'[f] = dv[f])
      BY <1>5 DEF IInv
    <2>2. Single(f)'
      BY <1>4, <2>1, SingleStays
    <2>3. f # e => Told(f)'
      BY <1>4, <2>1, ToldStays
    <2> QED BY <2>2, <2>3
  <1>8. \A q \in Runs : Shaped(run'[q])
    BY <1>2, <1>3 DEF IInv
  <1>9. run[r].pc # "idle" /\ Todo(run[r]) # {} /\ e \in Todo(run[r])
    BY <1>1, Current DEF IInv, Shaped, Busy
  <1>10. ASSUME NEW q \in Runs \ {r} PROVE Reading(q)'
    <2>1. Shaped(run[q]) /\ Reading(q) /\ run[r].conn = dv[e].conn
      BY <1>9 DEF IInv, Reading
    <2>2. run[q].pc # "idle" /\ Holds(q)' => Holds(q)
      BY <1>3 DEF Holds
    <2>3. run[q].pc = "requeue" => Todo(run[q]) # {} /\ Cur(run[q]) \in Todo(run[q])
      BY <2>1, Current DEF Shaped, Busy
    <2>4. \A f : Clear(f) => Clear(f)'
      BY <1>4, ClearStays
    <2>5. \A f \in Todo(run[q]) : dv'[f].state # "NEW" /\ dv'[f].conn = dv[f].conn
      BY <1>5, <2>1 DEF Reading, Todo
    <2>6. Holds(q) => \A f \in Todo(run[q]) : dv'[f] = dv[f]
      <3>1. Holds(q) => run[q].conn # run[r].conn
        BY DEF Holds
      <3> QED BY <1>5, <2>1, <3>1 DEF Reading, Todo
    <2> QED BY <1>3, <2>1, <2>2, <2>3, <2>4, <2>5, <2>6, SameSeries, ReadingStays
  <1>11. Reading(r)'
    <2>1. run[r].pc # "book"
      BY DEF Busy
    <2>2. \A f \in Todo(y) : f \in Todo(run[r]) /\ f \in Entries
      BY DEF Calm, Todo
    <2>3. \A f \in Todo(y) : dv'[f].state # "NEW" /\ dv'[f].conn = dv[f].conn
      BY <1>5, <2>2 DEF IInv, Reading
    <2> QED BY <1>3, <1>5, <1>9, <2>1, <2>3, ReadingCalm DEF IInv
  <1> QED BY <1>6, <1>7, <1>8, <1>10, <1>11 DEF IInv

(* The same, where nothing is written at all. *)
LEMMA CalmAlone ==
  ASSUME IInv, NEW r \in Runs, NEW y, run[r].pc # "idle", Calm(run[r], y), Set(r, y),
         UNCHANGED <<dv, conn, series, late, due, slow>>, Fault \/ UNCHANGED faults
  PROVE  IInv'
  <1>1. conn' \in [Conns -> Connection] /\ LeasesKept
    BY Types DEF LeasesKept
  <1> QED BY <1>1, CalmStep DEF Set

(* What the invariant says of one run.                                      *)
LEMMA RunFacts ==
  ASSUME IInv, NEW r \in Runs
  PROVE  /\ run[r] \in Run /\ (run[r].pc # "idle" => run[r].conn \in Conns)
         /\ run[r].seen \in [Entries -> Delivery] /\ run[r].stop \in Stop /\ run[r].at \in Nat
         /\ run[r].pc \in Busy =>
              /\ run[r].pc # "idle" /\ run[r].pc # "book" /\ Todo(run[r]) # {}
              /\ Cur(run[r]) \in Entries /\ Cur(run[r]) \in Todo(run[r])
  <1>1. Shaped(run[r])
    BY DEF IInv
  <1>2. run[r].seen \in [Entries -> Delivery] /\ run[r].stop \in Stop /\ run[r].at \in Nat
    BY <1>1, Zenon DEF Shaped, Run
  <1>3. run[r].pc \in Busy => run[r].pc # "idle" /\ run[r].pc # "book"
    BY DEF Busy
  <1> QED BY <1>1, <1>2, <1>3, Current DEF Shaped

(* The steps that are named are steps.                                      *)
LEMMA AllSteps ==
  /\ Busy \subseteq Steps
  /\ {"idle", "claim", "hello", "line", "book", "owed", "next", "night", "file", "close",
      "settle", "state", "release"} \subseteq Steps
  BY DEF Busy, Steps

-----------------------------------------------------------------------------
(* The steps of a run that write nothing. *)

(* The company is asked for: nothing is read yet, so nothing can be stale.  *)
LEMMA HelloOK ==
  ASSUME IInv, NEW r \in Runs, Hello(r)
  PROVE  IInv'
  <1> DEFINE x == run[r]
  <1>1. x \in Run /\ x.conn \in Conns /\ x.pc = "hello"
    BY RunFacts DEF Hello
  <1>2. Fault \/ UNCHANGED faults
    BY DEF Hello, Unanswered
  <1>3. CASE Set(r, [x EXCEPT !.pc = "line", !.reach = TRUE])
    <2> DEFINE h == [x EXCEPT !.pc = "line"]
    <2>1. h \in Run /\ h.pc = "line" /\ h.conn = x.conn /\ h.seen = x.seen
      BY <1>1, AllSteps, Stepped
    <2>2. [x EXCEPT !.pc = "line", !.reach = TRUE] = [h EXCEPT !.reach = TRUE]
      OBVIOUS
    <2> HIDE DEF h
    <2>3. [h EXCEPT !.reach = TRUE] \in Run
      BY <2>1, Zenon DEF Run
    <2>4. LET y == [h EXCEPT !.reach = TRUE] IN y.pc = "line" /\ y.conn = x.conn /\ y.seen = x.seen
      BY <2>1 DEF Run
    <2>5. Calm(x, [h EXCEPT !.reach = TRUE])
      BY <1>1, <2>3, <2>4, Onward DEF Busy
    <2> QED BY <1>1, <1>2, <1>3, <2>2, <2>5, CalmAlone DEF Hello
  <1>4. CASE \E k \in {"stop", "terminal"} : Set(r, [Ended(x) EXCEPT !.stop = At(k, NoEntry)])
    <2>1. PICK k \in {"stop", "terminal"} : Set(r, [Ended(x) EXCEPT !.stop = At(k, NoEntry)])
      BY <1>4
    <2>2. At(k, NoEntry) \in Stop
      BY Beginnings
    <2> QED BY <1>1, <1>2, <2>1, <2>2, Ends, CalmAlone DEF Hello
  <1>5. CASE Set(r, Cut(x))
    BY <1>1, <1>2, <1>5, Ends, CalmAlone DEF Hello
  <1> QED BY <1>3, <1>4, <1>5 DEF Hello, Cut

(* A call of the line that fails leaves the line. *)
LEMMA LineFailsOK ==
  ASSUME IInv, NEW r \in Runs, run[r].pc \in Busy, LineFails(r), UNCHANGED <<dv, conn, series, late, due, slow>>
  PROVE  IInv'
  <1>1. run[r] \in Run /\ run[r].conn \in Conns /\ run[r].pc # "idle" /\ Todo(run[r]) # {}
    BY RunFacts
  <1>2. Fault \/ UNCHANGED faults
    BY DEF LineFails, Unanswered
  <1>3. \E y : Set(r, y) /\ Calm(run[r], y)
    BY <1>1, Halts DEF LineFails
  <1> QED BY <1>1, <1>2, <1>3, CalmAlone

(* A line that ends quietly, or for want of time, drops what it read.       *)
LEMMA QuietedOK ==
  ASSUME IInv, NEW r \in Runs, run[r].pc \in Busy \cup {"book"}, Set(r, Quieted(run[r])) \/ Set(r, OutOfTime(run[r])),
         UNCHANGED <<dv, conn, series, late, due, slow>>, Fault \/ UNCHANGED faults
  PROVE  IInv'
  <1>1. run[r] \in Run /\ run[r].conn \in Conns /\ run[r].pc # "idle"
    BY RunFacts DEF Busy
  <1> QED BY <1>1, Halts, CalmAlone

(* A PDF owed is taken up, or the night is reached.                         *)
LEMMA NextOwedOK ==
  ASSUME IInv, NEW r \in Runs, NextOwed(r)
  PROVE  IInv'
  <1> DEFINE x == run[r]
  <1>1. x \in Run /\ x.conn \in Conns /\ x.pc = "next"
    BY RunFacts DEF NextOwed
  <1>2. CASE Todo(x) = {} /\ Set(r, [x EXCEPT !.pc = "night"])
    <2>1. Calm(x, [x EXCEPT !.pc = "night"])
      BY <1>1, AllSteps, CalmTo DEF Busy
    <2> QED BY <1>1, <1>2, <2>1, CalmAlone DEF NextOwed
  <1>3. CASE Todo(x) # {} /\ Set(r, [x EXCEPT !.pc = "pdf"])
    <2>1. Calm(x, [x EXCEPT !.pc = "pdf"])
      BY <1>1, <1>3, AllSteps, CalmTo DEF Busy
    <2> QED BY <1>1, <1>3, <2>1, CalmAlone DEF NextOwed
  <1>4. CASE Set(r, [x EXCEPT !.pc = "night", !.out = TRUE, !.seen = Nothing])
    <2> DEFINE y == [x EXCEPT !.pc = "night", !.out = TRUE, !.seen = Nothing]
    <2>1. y \in Run
      BY <1>1, AllSteps, Beginnings, Zenon DEF Run
    <2>2. y.pc = "night" /\ y.seen = Nothing /\ y.conn = x.conn
      BY <1>1 DEF Run
    <2>3. Calm(x, y)
      BY <1>1, <2>1, <2>2, CalmEmpty DEF Busy
    <2> QED BY <1>1, <1>4, <2>3, CalmAlone DEF NextOwed
  <1> QED BY <1>2, <1>3, <1>4 DEF NextOwed

(* A call for a PDF that fails passes it over, or ends the run. *)
LEMMA PdfFailsOK ==
  ASSUME IInv, NEW r \in Runs, run[r].pc \in Busy, PdfFails(r), UNCHANGED <<dv, conn, series, late, due, slow>>
  PROVE  IInv'
  <1>1. run[r] \in Run /\ run[r].conn \in Conns /\ run[r].pc # "idle" /\ Todo(run[r]) # {}
    BY RunFacts
  <1>2. Fault \/ UNCHANGED faults
    BY DEF PdfFails, Unanswered
  <1>3. CASE Set(r, Missing(run[r]))
    BY <1>1, <1>2, <1>3, Pasts, CalmAlone
  <1>4. CASE Set(r, [Ended(run[r]) EXCEPT !.stop = IF @.kind = "none" THEN At("terminal", NoEntry) ELSE @])
    <2> DEFINE s == IF Ended(run[r]).stop.kind = "none" THEN At("terminal", NoEntry) ELSE Ended(run[r]).stop
    <2>1. s \in Stop
      <3>1. Ended(run[r]).stop \in Stop
        BY <1>1, EndedRun, RunFacts
      <3> QED BY <3>1, Beginnings
    <2>2. Set(r, [Ended(run[r]) EXCEPT !.stop = s])
      BY <1>4
    <2> HIDE DEF s
    <2> QED BY <1>1, <1>2, <2>1, <2>2, Ends, CalmAlone
  <1> QED BY <1>3, <1>4 DEF PdfFails

(* A PDF is read and uploaded, or fails: no voucher is touched.             *)
LEMMA AttachPdfOK ==
  ASSUME IInv, NEW r \in Runs, AttachPdf(r)
  PROVE  IInv'
  <1> DEFINE x == run[r]
  <1>1. x \in Run /\ x.conn \in Conns /\ x.pc = "pdf" /\ x.pc \in Busy /\ Todo(x) # {}
    BY RunFacts DEF AttachPdf, Busy
  <1>2. CASE Set(r, [PastPdf(x) EXCEPT !.out = TRUE]) /\ UNCHANGED faults
    BY <1>1, <1>2, Pasts, CalmAlone DEF AttachPdf
  <1>3. CASE \E p \in {"connect", "found", "keep"} : Set(r, [x EXCEPT !.pc = p]) /\ UNCHANGED faults
    <2>1. PICK p \in {"connect", "found", "keep"} : Set(r, [x EXCEPT !.pc = p]) /\ UNCHANGED faults
      BY <1>3
    <2>2. p \in Steps /\ p \in Busy
      BY AllSteps DEF Busy
    <2>3. Calm(x, [x EXCEPT !.pc = p])
      BY <1>1, <2>2, CalmTo
    <2> QED BY <1>1, <2>1, <2>3, CalmAlone DEF AttachPdf
  <1>4. CASE PdfFails(r)
    BY <1>1, <1>4, PdfFailsOK DEF AttachPdf
  <1> QED BY <1>2, <1>3, <1>4 DEF AttachPdf

(* A file is connected to its voucher, or fails.                            *)
LEMMA ConnectFileOK ==
  ASSUME IInv, NEW r \in Runs, ConnectFile(r)
  PROVE  IInv'
  <1> DEFINE x == run[r]
  <1>1. x \in Run /\ x.conn \in Conns /\ x.pc = "connect" /\ x.pc \in Busy /\ Todo(x) # {}
    BY RunFacts DEF ConnectFile, Busy
  <1>2. CASE Set(r, [x EXCEPT !.pc = "done"]) /\ UNCHANGED faults
    <2>1. Calm(x, [x EXCEPT !.pc = "done"])
      BY <1>1, AllSteps, CalmTo DEF Busy
    <2> QED BY <1>1, <1>2, <2>1, CalmAlone DEF ConnectFile
  <1>3. CASE PdfFails(r)
    BY <1>1, <1>3, PdfFailsOK DEF ConnectFile
  <1> QED BY <1>2, <1>3 DEF ConnectFile

(* The night is closed already, is to be, or is left for want of time.      *)
LEMMA NightOK ==
  ASSUME IInv, NEW r \in Runs, Night(r)
  PROVE  IInv'
  <1> DEFINE x == run[r]
  <1>1. x \in Run /\ x.conn \in Conns /\ x.pc = "night"
    BY RunFacts DEF Night
  <1>2. Calm(x, [x EXCEPT !.pc = "file"])
    BY <1>1, AllSteps, CalmTo DEF Busy
  <1>3. \E y : Set(r, y) /\ Calm(x, y)
    BY <1>1, <1>2, Ends DEF Night
  <1> QED BY <1>1, <1>3, CalmAlone DEF Night

(* A read that fails ends the run.                                          *)
LEMMA ThrowOK ==
  ASSUME IInv, NEW r \in Runs, Throw(r)
  PROVE  IInv'
  <1>1. run[r] \in Run /\ run[r].conn \in Conns /\ run[r].pc # "idle"
    BY RunFacts DEF Throw
  <1> QED BY <1>1, Ends, CalmAlone DEF Throw

(* A run that dies holds nothing, and what it asked for is still under way. *)
LEMMA CrashOK ==
  ASSUME IInv, NEW r \in Runs, Crash(r)
  PROVE  IInv'
  BY CalmNew, CalmAlone DEF Crash

(* What a run says of its connection rests on nothing it read of the        *)
(* entries.                                                                 *)
LEMMA SettleOK ==
  ASSUME IInv, NEW r \in Runs, Settle(r)
  PROVE  IInv'
  <1> DEFINE x == run[r]
  <1>1. x \in Run /\ x.conn \in Conns /\ x.pc = "settle" /\ x.stop \in Stop /\ x.overdue \in Stop
    <2>1. x \in Run /\ x.conn \in Conns /\ x.pc = "settle" /\ x.stop \in Stop
      BY RunFacts DEF Settle
    <2>2. x.overdue \in Stop
      BY <2>1, Zenon DEF Run
    <2> QED BY <2>1, <2>2
  <1>2. Calm(x, [x EXCEPT !.pc = "release"])
    BY <1>1, AllSteps, CalmTo DEF Busy
  <1>3. ASSUME NEW s \in Stop PROVE Calm(x, [x EXCEPT !.pc = "state", !.stop = s])
    <2> DEFINE y == [x EXCEPT !.pc = "state", !.stop = s]
    <2>1. y \in Run
      BY <1>1, AllSteps, Zenon DEF Run
    <2>2. y.pc = "state" /\ y.conn = x.conn /\ y.seen = x.seen
      BY <1>1 DEF Run
    <2> QED BY <1>1, <2>1, <2>2, Onward DEF Busy
  <1>4. ASSUME NEW s \in Stop, NEW b \in BOOLEAN PROVE Calm(x, [x EXCEPT !.pc = "state", !.stop = s, !.restore = b])
    <2> DEFINE y == [x EXCEPT !.pc = "state", !.stop = s, !.restore = b]
    <2>1. y \in Run
      BY <1>1, AllSteps, Zenon DEF Run
    <2>2. y.pc = "state" /\ y.conn = x.conn /\ y.seen = x.seen
      BY <1>1 DEF Run
    <2> QED BY <1>1, <2>1, <2>2, Onward DEF Busy
  <1>5. \E y : Set(r, y) /\ Calm(x, y)
    <2> DEFINE reason == IF x.stop.kind # "none" THEN x.stop ELSE x.overdue
               silent == reason.kind = "none" /\ (x.quiet \/ ~x.reach) /\ ~x.booked /\ ~x.attached
               b == reason.kind = "none" /\ Restores(x)
    <2>1. reason \in Stop /\ At("stop", NoEntry) \in Stop /\ b \in BOOLEAN
      BY <1>1, Beginnings
    <2>2. \/ Set(r, [x EXCEPT !.pc = "release"])
          \/ Set(r, [x EXCEPT !.pc = "state", !.stop = At("stop", NoEntry)])
          \/ Set(r, [x EXCEPT !.pc = "state", !.stop = reason, !.restore = b])
      BY Zenon DEF Settle
    <2> HIDE DEF reason, b
    <2> QED BY <1>2, <1>3, <1>4, <2>1, <2>2
  <1> QED BY <1>1, <1>5, CalmAlone DEF Settle

-----------------------------------------------------------------------------
(* The line read, and what is looked for. *)

(* What is read of the line is what stands there.                           *)
LEMMA ReadLineOK ==
  ASSUME IInv, NEW r \in Runs, ReadLine(r)
  PROVE  IInv'
  <1> DEFINE x == run[r]
             g == Read(x.conn, Owed)
             y == [x EXCEPT !.pc = "book", !.owed = FALSE, !.seen = g]
  <1>1. x \in Run /\ x.conn \in Conns /\ x.pc = "line"
    BY RunFacts DEF ReadLine
  <1>2. dv \in [Entries -> Delivery] /\ run \in [Runs -> Run] /\ conn \in [Conns -> Connection]
    BY Types
  <1>3. g \in [Entries -> Delivery]
    BY <1>2, Beginnings DEF Read
  <1>4. \A e \in Entries : g[e] = IF dv[e].conn = x.conn /\ dv[e].state \in Owed THEN dv[e] ELSE NoDelivery
    BY DEF Read
  <1> HIDE DEF g
  <1>5. y \in Run /\ y.pc = "book" /\ y.seen = g /\ y.conn = x.conn
    BY <1>1, <1>3, ReadRun
  <1>6. run' = [run EXCEPT ![r] = y] /\ run'[r] = y
    BY <1>2 DEF ReadLine, Set, g
  <1> HIDE DEF y
  <1>7. \A e \in Todo(y) : g[e] = dv[e] /\ dv[e].conn = x.conn /\ dv[e].state # "NEW"
    BY <1>4, <1>5 DEF Todo, NoDelivery, Owed
  <1>8. \A e \in Todo(y) : dv[e] \in Delivery /\ dv[e].age \in Nat
    BY <1>2, ConstantFacts DEF Todo, Delivery
  <1>9. Reading(r)'
    BY <1>5, <1>6, <1>7, <1>8 DEF Reading, Fresh, ReadLine
  <1>10. Shaped(y)
    BY <1>1, <1>5 DEF Shaped, Busy
  <1>11. conn' \in [Conns -> Connection] /\ LeasesKept
    BY <1>2 DEF ReadLine, LeasesKept
  <1> QED BY <1>5, <1>6, <1>9, <1>10, <1>11, RunStep DEF ReadLine

(* What is read of the PDFs owed is what stands there.                      *)
LEMMA ReadOwedOK ==
  ASSUME IInv, NEW r \in Runs, ReadOwed(r)
  PROVE  IInv'
  <1> DEFINE x == run[r]
             g == [e \in Entries |-> IF e \in x.tried THEN NoDelivery ELSE Read(x.conn, {"BOOKED"})[e]]
             y == [x EXCEPT !.pc = "next", !.owed = TRUE, !.seen = g]
  <1>1. x \in Run /\ x.conn \in Conns /\ x.pc = "owed"
    BY RunFacts DEF ReadOwed
  <1>2. dv \in [Entries -> Delivery] /\ run \in [Runs -> Run] /\ conn \in [Conns -> Connection]
    BY Types
  <1>3. g \in [Entries -> Delivery]
    BY <1>2, Beginnings DEF Read
  <1>4. \A e \in Entries : g[e] = NoDelivery \/ (g[e] = dv[e] /\ dv[e].conn = x.conn /\ dv[e].state = "BOOKED")
    BY DEF Read
  <1> HIDE DEF g
  <1>5. y \in Run /\ y.pc = "next" /\ y.seen = g /\ y.conn = x.conn
    BY <1>1, <1>3, ReadRun
  <1>6. run' = [run EXCEPT ![r] = y] /\ run'[r] = y
    BY <1>2 DEF ReadOwed, Set, g
  <1> HIDE DEF y
  <1>7. \A e \in Todo(y) : g[e] = dv[e] /\ dv[e].conn = x.conn /\ dv[e].state = "BOOKED"
    BY <1>4, <1>5 DEF Todo, NoDelivery
  <1>9. Reading(r)'
    BY <1>5, <1>6, <1>7 DEF Reading, Fresh, ReadOwed
  <1>10. Shaped(y)
    BY <1>1, <1>5 DEF Shaped, Busy
  <1>11. conn' \in [Conns -> Connection] /\ LeasesKept
    BY <1>2 DEF ReadOwed, LeasesKept
  <1> QED BY <1>5, <1>6, <1>9, <1>10, <1>11, RunStep DEF ReadOwed

(* A run that stays at its line: what it may rely on, it may still.         *)
LEMMA StaysAt ==
  ASSUME IInv, NEW r \in Runs, NEW y \in Run, y.conn = run[r].conn, y.seen = run[r].seen, run[r].conn \in Conns,
         NEW e, e = Cur(run[r]),
         run[r].pc # "idle", y.pc \in Busy \ {"ask"}, Todo(run[r]) # {}, Set(r, y),
         y.pc = "intent" => y.at \in 1 .. Len(series) + 1,
         y.pc = "booked" => y.at \in DOMAIN series /\ series[y.at] = Cur(run[r]),
         y.pc = "reconcile" => /\ run[r].pc = "book"
                               /\ run[r].seen[Cur(run[r])].state = "SENDING"
                               /\ run[r].seen[Cur(run[r])].age >= Unsure,
         y.pc = "requeue" => /\ y.then # "none"
                             /\ Holds(r) /\ dv[e].state = "SENDING" => Clear(e)',
         UNCHANGED <<dv, conn, series>>
  PROVE  Shaped(y) /\ Reading(r)' /\ run' = [run EXCEPT ![r] = y] /\ run'[r] = y
  <1> DEFINE x == run[r]
  <1>1. run' = [run EXCEPT ![r] = y] /\ run'[r] = y
    BY Types DEF Set
  <1>2. Todo(y) = Todo(x) /\ Cur(y) = Cur(x) /\ e = Cur(y)
    BY DEF Todo, Cur
  <1>3. Shaped(y)
    BY <1>2 DEF Shaped
  <1>4. Reading(r) /\ Holds(r)' = Holds(r)
    BY <1>1 DEF IInv, Holds
  <1>5. y.pc \notin {"claim", "book"}
    BY DEF Busy
  <1>6. \A f \in Todo(y) : dv'[f].state # "NEW" /\ dv'[f].conn = y.conn
    BY <1>2, <1>4 DEF Reading
  <1>7. ASSUME Holds(r)'
        PROVE  /\ \A f \in Todo(y) :
                    y.seen[f].state = "SENDING" /\ (f # Cur(y) \/ y.pc \in {"book", "reconcile"}) => Fresh(y, f)'
               /\ y.pc = "requeue" /\ dv'[Cur(y)].state = "SENDING" => Clear(e)'
    <2>1. ASSUME NEW f \in Todo(x), x.seen[f].state = "SENDING", f # Cur(x) \/ x.pc = "book"
          PROVE  Fresh(y, f)'
      <3>1. Fresh(x, f)
        BY <1>4, <1>7, <2>1 DEF Reading
      <3> QED BY <3>1 DEF Fresh
    <2>2. y.pc = "requeue" /\ dv'[Cur(y)].state = "SENDING" => Clear(e)'
      BY <1>2, <1>4, <1>7
    <2> QED BY <1>2, <1>5, <2>1, <2>2
  <1>8. series' = series
    OBVIOUS
  <1>9. /\ y.pc = "intent" => y.at \in 1 .. Len(series) + 1
        /\ y.pc = "booked" => y.at \in DOMAIN series /\ series[y.at] = Cur(y)
        /\ y.pc = "reconcile" => y.seen[Cur(y)].state = "SENDING" /\ y.seen[Cur(y)].age >= Unsure
    BY <1>2
  <1>10. Reading(r)'
    BY <1>1, <1>2, <1>5, <1>6, <1>7, <1>8, <1>9 DEF Reading
  <1> QED BY <1>1, <1>3, <1>10

(* The same as a step: it writes nothing, so the others see none of it.     *)
LEMMA StaysAtOK ==
  ASSUME IInv, NEW r \in Runs, NEW y, y.pc # "ask", Shaped(y), Reading(r)', run' = [run EXCEPT ![r] = y],
         UNCHANGED <<dv, conn, series, late, due, slow>>, Fault \/ UNCHANGED faults
  PROVE  IInv'
  <1>1. conn' \in [Conns -> Connection] /\ LeasesKept
    BY Types DEF LeasesKept
  <1> QED BY <1>1, RunStep

(* An entry is sent only as QUEUED, and reconciled only once it is old      *)
(* enough.                                                                  *)
LEMMA BookOK ==
  ASSUME IInv, NEW r \in Runs, Book(r)
  PROVE  IInv'
  <1> DEFINE x == run[r]
             e == Cur(x)
  <1>1. x \in Run /\ x.conn \in Conns /\ x.pc = "book"
    BY RunFacts DEF Book
  <1>2. CASE Todo(x) = {} /\ Set(r, [x EXCEPT !.pc = "owed", !.clear = TRUE])
    <2> DEFINE y == [x EXCEPT !.pc = "owed", !.clear = TRUE]
    <2>1. y \in Run
      BY <1>1, AllSteps, Zenon DEF Run
    <2>2. y.pc = "owed" /\ y.seen = x.seen /\ y.conn = x.conn
      BY <1>1 DEF Run
    <2>3. Calm(x, y)
      BY <1>1, <2>1, <2>2, Onward DEF Busy
    <2> QED BY <1>1, <1>2, <2>3, CalmAlone DEF Book
  <1>3. CASE Todo(x) # {} /\ Set(r, [x EXCEPT !.pc = "send"])
    <2>1. Calm(x, [x EXCEPT !.pc = "send"])
      BY <1>1, <1>3, AllSteps, CalmTo DEF Busy
    <2> QED BY <1>1, <1>3, <2>1, CalmAlone DEF Book
  <1>4. CASE Set(r, Quieted(x)) \/ Set(r, OutOfTime(x))
    BY <1>1, <1>4, QuietedOK DEF Book
  <1>5. CASE /\ Todo(x) # {} /\ x.seen[e].state = "SENDING" /\ x.seen[e].age >= Unsure
             /\ Set(r, [x EXCEPT !.pc = "reconcile"])
    <2> DEFINE y == [x EXCEPT !.pc = "reconcile"]
    <2>1. y \in Run /\ y.pc = "reconcile" /\ y.seen = x.seen /\ y.conn = x.conn
      BY <1>1, AllSteps, Stepped DEF Busy
    <2> HIDE DEF y
    <2>2. Set(r, y)
      BY <1>5 DEF y
    <2>3. y.pc \in Busy \ {"ask"}
      BY <2>1 DEF Busy
    <2>4. UNCHANGED <<dv, conn, series, late, due, slow, faults>>
      BY DEF Book
    <2>5. Shaped(y) /\ Reading(r)' /\ run' = [run EXCEPT ![r] = y]
      <3> HIDE DEF e
      <3> QED BY <1>1, <1>5, <2>1, <2>2, <2>3, <2>4, StaysAt DEF e
    <2> QED BY <2>1, <2>4, <2>5, StaysAtOK
  <1> QED BY <1>2, <1>3, <1>4, <1>5 DEF Book

(* Two minutes after it was asked for, nothing more comes of a request: what *)
(* is not found now will not be there later.                                *)
LEMMA LookedFor ==
  ASSUME IInv, WithinScan, NEW r \in Runs, run[r].pc = "reconcile", Holds(r), NEW e, e = Cur(run[r]),
         Found(run[r].seen[e], e) = {}
  PROVE  Clear(e)
  <1> DEFINE x == run[r]
             o == dv[e]
  <1>1. e \in Entries /\ e \in Todo(x) /\ x.pc # "idle"
    BY RunFacts DEF Busy
  <1>2. Fresh(x, e) /\ x.seen[e].age >= Unsure
    BY <1>1 DEF IInv, Reading
  <1>3. /\ o.state = "SENDING" /\ o.next = x.seen[e].next /\ o.age >= x.seen[e].age
        /\ o \in Delivery /\ x.seen[e] \in Delivery
    BY <1>1, <1>2, RunFacts, Types DEF Fresh
  <1>4. o.age \in Nat /\ x.seen[e].age \in Nat /\ o.age >= Unsure /\ o.next \in Nat
    BY <1>2, <1>3, ConstantFacts DEF Delivery
  <1>8. conn[o.conn].status # "DISCONNECTED"
    BY <1>1 DEF IInv, Reading, Holds
  <1>5. Made(e, 1) = {}
    <2>1. ASSUME NEW i \in Made(e, 1) PROVE FALSE
      <3>1. o.next <= i /\ i < o.next + Scan
        BY <1>1, <1>3, <1>8, <2>1 DEF WithinScan
      <3>2. i \in Found(x.seen[e], e)
        BY <1>3, <2>1, <3>1 DEF Found, Made
      <3> QED BY <3>2
    <2> QED BY <2>1
  <1>6. late[e] = 0
    <2>1. late[e] \in Nat
      BY <1>1, Types, ConstantFacts
    <2>2. late[e] > 0 => o.age + late[e] <= Budget + Landing
      BY <1>1, <1>3 DEF IInv, Told
    <2> QED BY <1>4, <2>1, <2>2, ConstantFacts
  <1>7. ASSUME NEW q \in Runs, Asking(q, e) PROVE FALSE
    <2>1. o.age + run[q].left <= Budget
      BY <1>1, <1>3, <1>7 DEF IInv, Told
    <2>2. run[q].left \in Nat /\ run[q].left > 0
      BY <1>7, RunFacts, ConstantFacts DEF Asking, Run
    <2> QED BY <1>4, <2>1, <2>2, ConstantFacts
  <1> QED BY <1>5, <1>6, <1>7 DEF Clear

(* What a reconcile finds is the entry's; what it does not find will never  *)
(* come.                                                                    *)
LEMMA ReconcileOK ==
  ASSUME IInv, WithinScan, NEW r \in Runs, Reconcile(r)
  PROVE  IInv'
  <1> DEFINE x == run[r]
             e == Cur(x)
             n == Found(x.seen[e], e)
  <1>1. /\ x \in Run /\ x.conn \in Conns /\ x.pc = "reconcile" /\ x.pc \in Busy /\ x.pc # "idle"
        /\ Todo(x) # {}
    BY RunFacts DEF Reconcile, Busy
  <1>2. CASE n # {} /\ Set(r, [x EXCEPT !.pc = "booked", !.at = First(n)]) /\ UNCHANGED faults
    <2> DEFINE m == First(n)
               y == ToAt(x, "booked", m)
    <2>1. m \in n /\ m \in DOMAIN series /\ series[m] = e /\ m \in Nat
      <3>1. \A i \in n : i \in DOMAIN series /\ series[i] = e
        BY DEF Found, Made
      <3>2. DOMAIN series \subseteq Nat
        BY Types
      <3> HIDE DEF n
      <3>3. n \in SUBSET Nat
        BY <3>1, <3>2
      <3> QED BY <1>2, <3>1, <3>3, Least
    <2> HIDE DEF m
    <2>2. y \in Run /\ y.pc = "booked" /\ y.seen = x.seen /\ y.conn = x.conn /\ y.at = m
      <3>1. "booked" \in Steps
        BY AllSteps DEF Busy
      <3> QED BY <1>1, <2>1, <3>1, SteppedAt
    <2>3. Set(r, y)
      BY <1>2 DEF m, ToAt
    <2> HIDE DEF y
    <2>4. y.pc \in Busy \ {"ask"}
      BY <2>2 DEF Busy
    <2>5. UNCHANGED <<dv, conn, series, late, due, slow, faults>>
      BY <1>2 DEF Reconcile
    <2>6. Shaped(y) /\ Reading(r)' /\ run' = [run EXCEPT ![r] = y]
      <3> HIDE DEF e
      <3> QED BY <1>1, <2>1, <2>2, <2>3, <2>4, <2>5, StaysAt DEF e
    <2> QED BY <2>2, <2>5, <2>6, StaysAtOK
  <1>3. CASE n = {} /\ Set(r, [x EXCEPT !.pc = "requeue", !.then = "send"]) /\ UNCHANGED faults
    <2> DEFINE y == ToFor(x, "requeue", "send")
    <2>2. y \in Run /\ y.pc = "requeue" /\ y.seen = x.seen /\ y.conn = x.conn /\ y.then = "send"
      <3>1. "requeue" \in Steps
        BY AllSteps DEF Busy
      <3>2. "send" \in Reasons
        BY DEF Reasons
      <3> QED BY <1>1, <3>1, <3>2, SteppedFor
    <2>3. Set(r, y)
      BY <1>3 DEF ToFor
    <2> HIDE DEF y
    <2>4. y.pc \in Busy \ {"ask"}
      BY <2>2 DEF Busy
    <2>5. UNCHANGED <<dv, conn, series, late, due, slow, faults>>
      BY <1>3 DEF Reconcile
    <2>7. Shaped(y) /\ Reading(r)' /\ run' = [run EXCEPT ![r] = y]
      <3>0. PICK f : f = Cur(run[r])
        OBVIOUS
      <3>1. f = Cur(run[r]) /\ Found(run[r].seen[f], f) = {}
        BY <1>3, <3>0
      <3>2. Holds(r) => Clear(f)
        BY <1>1, <3>1, LookedFor
      <3>3. AsksKept
        BY <2>2, <2>3, Types, NotAsking
      <3>4. Holds(r) => Clear(f)'
        BY <2>5, <3>2, <3>3, ClearStays
      <3> QED BY <1>1, <2>2, <2>3, <2>4, <2>5, <3>1, <3>4, StaysAt
    <2> QED BY <2>2, <2>5, <2>7, StaysAtOK
  <1>4. CASE LineFails(r)
    BY <1>1, <1>4, LineFailsOK DEF Reconcile
  <1> QED BY <1>2, <1>3, <1>4 DEF Reconcile

(* The number kept is the one the next voucher gets, or one before it.      *)
LEMMA SendOK ==
  ASSUME IInv, NEW r \in Runs, Send(r)
  PROVE  IInv'
  <1> DEFINE x == run[r]
  <1>1. /\ x \in Run /\ x.conn \in Conns /\ x.pc = "send" /\ x.pc \in Busy /\ x.pc # "idle"
        /\ Todo(x) # {}
    BY RunFacts DEF Send, Busy
  <1>2. CASE Set(r, OutOfTime(x)) /\ UNCHANGED faults
    BY <1>1, <1>2, QuietedOK DEF Send
  <1>3. CASE Set(r, [x EXCEPT !.pc = "intent", !.at = NextNumber]) /\ UNCHANGED faults
    <2> DEFINE m == NextNumber
               y == ToAt(x, "intent", m)
    <2>1. m \in Nat /\ m \in 1 .. Len(series) + 1
      <3>1. Len(series) \in Nat
        BY Types
      <3> QED BY <3>1 DEF NextNumber
    <2> HIDE DEF m
    <2>2. y \in Run /\ y.pc = "intent" /\ y.seen = x.seen /\ y.conn = x.conn /\ y.at = m
      <3>1. "intent" \in Steps
        BY AllSteps DEF Busy
      <3> QED BY <1>1, <2>1, <3>1, SteppedAt
    <2>3. Set(r, y)
      BY <1>3 DEF m, ToAt
    <2> HIDE DEF y
    <2>4. y.pc \in Busy \ {"ask"}
      BY <2>2 DEF Busy
    <2>5. UNCHANGED <<dv, conn, series, late, due, slow, faults>>
      BY <1>3 DEF Send
    <2>6. Shaped(y) /\ Reading(r)' /\ run' = [run EXCEPT ![r] = y]
      <3>1. PICK e : e = Cur(run[r])
        OBVIOUS
      <3> QED BY <1>1, <2>1, <2>2, <2>3, <2>4, <2>5, <3>1, StaysAt
    <2> QED BY <2>2, <2>5, <2>6, StaysAtOK
  <1>4. CASE LineFails(r)
    BY <1>1, <1>4, LineFailsOK DEF Send
  <1> QED BY <1>2, <1>3, <1>4 DEF Send

-----------------------------------------------------------------------------
(* The voucher asked for, and its answer. *)

(* A run's step that changes more than its run: what is to be seen for it.  *)
LEMMA LeaseStep ==
  ASSUME IInv, NEW r \in Runs, NEW y, run' = [run EXCEPT ![r] = y], Shaped(y), Reading(r)', TypeOK',
         series' = series,
         \A e \in Entries : Told(e)' /\ Single(e)',
         \A e \in Entries : dv[e].state # "NEW" => dv'[e].state # "NEW" /\ dv'[e].conn = dv[e].conn,
         \A q \in Runs \ {r} : run[q].pc # "idle" /\ Holds(q)' => Holds(q),
         \A q \in Runs \ {r}, e \in Entries :
           run[q].pc # "idle" /\ Holds(q) /\ e \in Todo(run[q]) =>
             dv'[e] = dv[e] /\ (Clear(e) => Clear(e)')
  PROVE  IInv'
  <1>1. run \in [Runs -> Run]
    BY Types
  <1>2. run'[r] = y /\ \A q \in Runs \ {r} : run'[q] = run[q]
    BY <1>1
  <1>3. ASSUME NEW q \in Runs \ {r} PROVE Reading(q)'
    <2>1. Shaped(run[q]) /\ Reading(q)
      BY DEF IInv
    <2>3. run[q].pc = "requeue" => Todo(run[q]) # {} /\ Cur(run[q]) \in Todo(run[q])
      BY <2>1, Current DEF Shaped, Busy
    <2>4. \A e \in Todo(run[q]) : e \in Entries
      BY DEF Todo
    <2>5. CASE run[q].pc = "idle"
      BY <1>2, <2>1, <2>4, <2>5 DEF Reading
    <2>6. CASE run[q].pc # "idle"
      BY <1>2, <2>1, <2>3, <2>4, <2>6, SameSeries, ReadingStays DEF Reading
    <2> QED BY <2>5, <2>6
  <1> QED BY <1>2, <1>3 DEF IInv

(* A step of one run, whatever it writes of the entry it is at, leaves the  *)
(* other runs alone.                                                        *)
LEMMA AnyStep ==
  ASSUME IInv, NEW r \in Runs, NEW y, run' = [run EXCEPT ![r] = y], Shaped(y), Reading(r)', TypeOK',
         series' = series, LeasesKept,
         \A e \in Entries : Told(e)' /\ Single(e)',
         \A e \in Entries : dv[e].state # "NEW" => dv'[e].state # "NEW" /\ dv'[e].conn = dv[e].conn,
         \A q \in Runs \ {r}, e \in Entries :
           run[q].pc # "idle" /\ Holds(q) /\ e \in Todo(run[q]) =>
             dv'[e] = dv[e] /\ (Clear(e) => Clear(e)')
  PROVE  IInv'
  <1>1. \A q \in Runs \ {r} : run'[q] = run[q]
    BY Types
  <1>2. \A q \in Runs \ {r} : run[q].pc # "idle" /\ Holds(q)' => Holds(q)
    BY <1>1 DEF Holds, LeasesKept, IInv, Shaped
  <1> QED BY <1>2, LeaseStep

(* No other run holds the lease an entry is written under. *)
LEMMA HeldAlone ==
  ASSUME IInv, NEW r \in Runs, run[r].pc \in Busy, Holds(r),
         NEW q \in Runs \ {r}, run[q].pc # "idle", Holds(q)
  PROVE  Cur(run[r]) \notin Todo(run[q])
  <1>1. Cur(run[r]) \in Todo(run[r])
    BY RunFacts
  <1>2. run[r].conn # run[q].conn
    BY DEF Holds
  <1> QED BY <1>1, <1>2 DEF IInv, Reading

(* The intent committed: from here on the request may leave at any time.    *)
LEMMA IntentKept ==
  ASSUME IInv, NEW r \in Runs, run[r].pc = "intent", Holds(r), NEW e, e = Cur(run[r]),
         dv[e].state = "QUEUED"
  PROVE  /\ Clear(e) /\ run[r].at \in 1 .. Len(series) + 1 /\ e \in Entries
         /\ dv[e].conn = run[r].conn /\ ~dv[e].denied
  <1>1. e \in Entries /\ e \in Todo(run[r])
    BY RunFacts DEF Busy
  <1>2. dv[e].conn = run[r].conn
    BY <1>1 DEF IInv, Reading
  <1>3. ~dv[e].denied
    BY <1>1, <1>2 DEF IInv, Told, Holds
  <1>4. Clear(e)
    BY <1>1, <1>3 DEF IInv, Told
  <1> QED BY <1>1, <1>2, <1>3, <1>4 DEF IInv, Reading

Sent(e, n) == [dv[e] EXCEPT !.state = "SENDING", !.next = n, !.age = 0]

(* The delivery an intent writes, field by field.                           *)
LEMMA SentDelivery ==
  ASSUME dv \in [Entries -> Delivery], NEW e \in Entries, NEW n \in Nat
  PROVE  LET o == Sent(e, n)
         IN  /\ o \in Delivery /\ o.state = "SENDING" /\ o.next = n /\ o.age = 0
             /\ o.conn = dv[e].conn /\ o.denied = dv[e].denied
             /\ [dv EXCEPT ![e].state = "SENDING", ![e].next = n, ![e].age = 0] = [dv EXCEPT ![e] = o]
  <1>1. dv[e] \in Delivery /\ "SENDING" \in States
    BY DEF States
  <1>2. Sent(e, n) \in Delivery
    BY <1>1, ConstantFacts, Zenon DEF Delivery, Sent
  <1> QED BY <1>1, <1>2 DEF Sent, Delivery

(* An entry just sent has nothing in Fortnox yet.                           *)
LEMMA ToldSent ==
  ASSUME NEW e \in Entries, NEW n \in 1 .. Len(series) + 1, Clear(e), ~dv[e].denied, dv[e].conn # NoConn,
         dv \in [Entries -> Delivery], run' \in [Runs -> Run], Len(series) \in Nat,
         series' = series, late' = late, dv'[e] = Sent(e, n)
  PROVE  Told(e)'
  <1> DEFINE o == Sent(e, n)
  <1>1. o.state = "SENDING" /\ o.next = n /\ o.age = 0 /\ o.conn = dv[e].conn /\ ~o.denied
    <2>1. n \in Nat
      OBVIOUS
    <2> QED BY <2>1, SentDelivery
  <1> HIDE DEF o
  <1>2. dv'[e] = o
    BY DEF o
  <1>3. Made(e, 1)' = {} /\ late'[e] = 0
    BY DEF Clear, Made
  <1>4. \A q \in Runs : run'[q].left <= Budget /\ run'[q].left \in Nat
    <2>1. ASSUME NEW q \in Runs PROVE run'[q].left \in 0 .. Budget
      <3>1. run'[q] \in Run
        OBVIOUS
      <3> QED BY <3>1, Zenon DEF Run
    <2> QED BY <2>1, ConstantFacts
  <1> QED BY <1>1, <1>2, <1>3, <1>4, ConstantFacts DEF Told

(* The intent is written only of an entry nothing is known of, by the one   *)
(* run that may.                                                            *)
LEMMA IntentOK ==
  ASSUME IInv, NEW r \in Runs, Intent(r)
  PROVE  IInv'
  <1> DEFINE x == run[r]
  <1>1. /\ x \in Run /\ x.conn \in Conns /\ x.pc = "intent" /\ x.pc \in Busy /\ x.pc # "idle"
        /\ Todo(x) # {}
    BY RunFacts DEF Intent, Busy
  <1>2. PICK e : e = Cur(run[r])
    OBVIOUS
  <1>3. UNCHANGED <<conn, series, late, due, slow>>
    BY DEF Intent
  <1>4. CASE (Set(r, OutOfTime(x)) \/ Set(r, Quieted(x))) /\ dv' = dv /\ (Fault \/ UNCHANGED faults)
    BY <1>1, <1>3, <1>4, QuietedOK
  <1>5. ASSUME Holds(r), dv[e].state = "QUEUED",
               dv' = [dv EXCEPT ![e].state = "SENDING", ![e].next = x.at, ![e].age = 0]
        PROVE  LET o == Sent(e, x.at)
               IN  /\ e \in Entries /\ o \in Delivery /\ dv' = [dv EXCEPT ![e] = o] /\ Clear(e)
                   /\ o.state # "NEW" /\ o.conn = dv[e].conn
                   /\ run' \in [Runs -> Run] => Told(e)'
    <2> DEFINE n == x.at
    <2>1. /\ e \in Entries /\ Clear(e) /\ n \in 1 .. Len(series) + 1 /\ n \in Nat /\ ~dv[e].denied
          /\ dv[e].conn # NoConn
      BY <1>1, <1>2, <1>5, IntentKept, RunFacts, ConstantFacts
    <2> HIDE DEF n
    <2>2. dv \in [Entries -> Delivery] /\ Len(series) \in Nat
      BY Types
    <2>3. /\ Sent(e, n) \in Delivery /\ Sent(e, n).state # "NEW" /\ Sent(e, n).conn = dv[e].conn
          /\ dv' = [dv EXCEPT ![e] = Sent(e, n)]
      BY <1>5, <2>1, <2>2, SentDelivery DEF n
    <2>4. dv'[e] = Sent(e, n)
      BY <2>1, <2>2, <2>3
    <2>5. run' \in [Runs -> Run] => Told(e)'
      BY <1>3, <2>1, <2>2, <2>4, ToldSent
    <2> QED BY <2>1, <2>3, <2>5 DEF n
  <1>6. CASE /\ Holds(r) /\ dv[e].state = "QUEUED" /\ Fault
             /\ dv' = [dv EXCEPT ![e].state = "SENDING", ![e].next = x.at, ![e].age = 0]
             /\ Set(r, Quieted(x))
    <2>1. Calm(x, Quieted(x))
      BY <1>1, Halts
    <2>2. run' = [run EXCEPT ![r] = Quieted(x)] /\ run' \in [Runs -> Run]
      BY <1>6, <2>1, Types DEF Set, Calm, Shaped
    <2>3. PICK o : o = Sent(e, x.at)
      OBVIOUS
    <2>4. /\ e \in Entries /\ o \in Delivery /\ dv' = [dv EXCEPT ![e] = o]
          /\ o.state # "NEW" /\ o.conn = dv[e].conn /\ Told(e)'
      BY <1>5, <1>6, <2>2, <2>3
    <2>5. PICK y : y = Quieted(x)
      OBVIOUS
    <2> QED BY <1>1, <1>2, <1>3, <1>6, <2>1, <2>2, <2>4, <2>5, WriteStep
  <1>7. CASE /\ Holds(r) /\ dv[e].state = "QUEUED" /\ UNCHANGED faults
             /\ dv' = [dv EXCEPT ![e].state = "SENDING", ![e].next = x.at, ![e].age = 0]
             /\ Set(r, [x EXCEPT !.pc = "ask"])
    <2>0. PICK y : y = [x EXCEPT !.pc = "ask"]
      OBVIOUS
    <2>1. y \in Run /\ y.pc = "ask" /\ y.seen = x.seen /\ y.conn = x.conn /\ y.left = x.left
      <3>1. "ask" \in Steps
        BY DEF Steps
      <3> QED BY <1>1, <2>0, <3>1, Stepped
    <2>2. Todo(y) = Todo(x) /\ Cur(y) = e
      BY <1>2, <2>1 DEF Todo, Cur
    <2>3. Shaped(y)
      BY <1>1, <2>1, <2>2 DEF Shaped
    <2>4. /\ run' = [run EXCEPT ![r] = y] /\ run' \in [Runs -> Run] /\ run'[r] = y
          /\ \A q \in Runs \ {r} : run'[q] = run[q]
      BY <1>7, <2>0, <2>1, Types DEF Set
    <2>5. PICK o : o = Sent(e, x.at)
      OBVIOUS
    <2>6. /\ e \in Entries /\ o \in Delivery /\ dv' = [dv EXCEPT ![e] = o] /\ Clear(e)
          /\ o.state # "NEW" /\ o.conn = dv[e].conn /\ Told(e)'
      BY <1>5, <1>7, <2>4, <2>5
    <2>7. dv' \in [Entries -> Delivery] /\ dv'[e] = o /\ \A f \in Entries \ {e} : dv'[f] = dv[f]
      BY <2>6, Types
    <2>8. TypeOK'
      BY <1>3, <1>7, <2>4, <2>7, Types DEF TypeOK
    <2>9. \A f : f # e => \A q \in Runs : Asking(q, f)' => Asking(q, f) /\ run'[q].left = run[q].left
      BY <2>1, <2>2, <2>4 DEF Asking
    <2>10. \A q \in Runs : Asking(q, e)' => q = r
      BY <2>4, <2>6 DEF Asking, Clear
    <2>11. ASSUME NEW f \in Entries, f # e PROVE Told(f)' /\ Single(f)' /\ (Clear(f) => Clear(f)')
      <3>1. Told(f) /\ Single(f) /\ dv'[f] = dv[f]
        BY <2>7, <2>11 DEF IInv
      <3>2. Clear(f) => Clear(f)'
        BY <1>3, <2>9, <2>11 DEF Clear, Made
      <3>3. Single(f)'
        BY <1>3, <2>9, <2>11, <3>1 DEF Single, Made
      <3>4. Told(f)'
        BY <1>3, <2>9, <2>11, <3>1, <3>2 DEF Told, Made
      <3> QED BY <3>2, <3>3, <3>4
    <2>12. Single(e)'
      BY <1>3, <2>6, <2>10 DEF Single, Clear, Made
    <2>13. LeasesKept
      BY <1>3 DEF LeasesKept
    <2>14. \A f \in Entries : dv[f].state # "NEW" => dv'[f].state # "NEW" /\ dv'[f].conn = dv[f].conn
      BY <2>6, <2>7
    <2>15. \A q \in Runs \ {r}, f \in Entries :
             run[q].pc # "idle" /\ Holds(q) /\ f \in Todo(run[q]) => dv'[f] = dv[f] /\ (Clear(f) => Clear(f)')
      BY <1>1, <1>2, <1>7, <2>7, <2>11, HeldAlone
    <2>16. Reading(r)'
      <3>1. Reading(r) /\ (Holds(r)' => Holds(r))
        BY <1>3, <2>1, <2>4 DEF IInv, Holds
      <3>2. \A f \in Todo(y) : dv'[f].state # "NEW" /\ dv'[f].conn = y.conn
        BY <2>1, <2>2, <2>14, <3>1 DEF Reading, Todo
      <3>3. \A f \in Todo(y) : f # e => f \in Entries /\ dv'[f] = dv[f]
        BY <2>7 DEF Todo
      <3>4. ASSUME NEW f \in Todo(y), Holds(r), y.seen[f].state = "SENDING", f # e PROVE Fresh(y, f)'
        <4>1. Fresh(x, f)
          BY <1>1, <1>2, <2>2, <2>1, <3>1, <3>4 DEF Reading
        <4> QED BY <2>1, <3>3, <3>4, <4>1 DEF Fresh
      <3> QED BY <2>1, <2>2, <2>4, <3>1, <3>2, <3>4 DEF Reading
    <2> QED BY <2>3, <2>4, <2>6, <2>8, <2>11, <2>12, <2>13, <2>14, <2>15, <2>16, <1>3, AnyStep
  <1> QED BY <1>2, <1>4, <1>6, <1>7 DEF Intent, Lost

(* The request leaves: Fortnox may act on it from now on.                   *)
LEMMA AskOK ==
  ASSUME IInv, NEW r \in Runs, Ask(r)
  PROVE  IInv'
  <1> DEFINE x == run[r]
  <1>1. /\ x \in Run /\ x.conn \in Conns /\ x.pc = "ask" /\ x.pc \in Busy /\ x.pc # "idle"
        /\ Todo(x) # {} /\ Cur(x) \in Entries
    BY RunFacts DEF Ask, Busy
  <1>2. CASE Set(r, Quieted(x)) /\ UNCHANGED late
    BY <1>1, <1>2, QuietedOK DEF Ask
  <1>3. CASE Asks(r) /\ late' = [late EXCEPT ![Cur(x)] = Landing] /\ Set(r, [x EXCEPT !.pc = "asked"])
    <2>a. PICK e \in Entries : e = Cur(run[r])
      BY <1>1
    <2>0. PICK y : e = Cur(run[r]) /\ y = [x EXCEPT !.pc = "asked"]
      BY <2>a, <1>1
    <2>1. y \in Run /\ y.pc = "asked" /\ y.seen = x.seen /\ y.conn = x.conn
      <3>1. "asked" \in Steps
        BY DEF Steps
      <3> QED BY <1>1, <2>0, <3>1, Stepped
    <2>2. Todo(y) = Todo(x) /\ Cur(y) = e
      BY <2>0, <2>1 DEF Todo, Cur
    <2>3. Shaped(y)
      BY <1>1, <2>1, <2>2 DEF Shaped
    <2>4. run' = [run EXCEPT ![r] = y] /\ run' \in [Runs -> Run] /\ run'[r] = y
      BY <1>3, <2>0, <2>1, Types DEF Set
    <2>5. AsksKept
      BY <1>3, <2>0, <2>1, Types, NotAsking
    <2>6. /\ late' \in [Entries -> 0 .. Landing] /\ late'[e] = Landing
          /\ \A f \in Entries \ {e} : late'[f] = late[f]
      BY <1>3, <2>0, Types, ConstantFacts
    <2>7. UNCHANGED <<dv, conn, series, due, faults, slow>>
      BY DEF Ask
    <2>8. TypeOK'
      BY <2>4, <2>6, <2>7, Types DEF TypeOK
    <2>9. Asking(r, e)
      BY <1>1, <1>3, <2>0 DEF Asking, Asks
    <2>10. Single(e) /\ Told(e) /\ ~Clear(e)
      BY <2>9 DEF IInv, Clear
    <2>12. \A q \in Runs : ~Asking(q, e)'
      <3>1. ASSUME NEW q \in Runs, Asking(q, e)' PROVE FALSE
        <4>1. Asking(q, e)
          BY <2>5, <3>1, FewerAsks
        <4>2. q = r
          BY <2>9, <2>10, <4>1 DEF Single
        <4> QED BY <2>1, <2>4, <3>1, <4>2 DEF Asking
      <3> QED BY <3>1
    <2>13. Single(e)'
      BY <2>7, <2>9, <2>10, <2>12 DEF Single, Made
    <2>14. Told(e)'
      <3>1. dv[e].state = "SENDING" => dv[e].age + Landing <= Budget + Landing
        <4>1. dv[e].age \in Nat
          <5>1. dv[e] \in Delivery
            BY Types
          <5> QED BY <5>1, ConstantFacts DEF Delivery
        <4>2. x.left \in Nat
          BY <1>1, ConstantFacts DEF Run
        <4> QED BY <2>9, <2>10, <4>1, <4>2, ConstantFacts DEF Told
      <3> QED BY <2>6, <2>7, <2>10, <2>12, <3>1, SMTT(30) DEF Told, Made
    <2>15. ASSUME NEW f \in Entries, f # e PROVE Told(f)' /\ Single(f)'
      BY <2>5, <2>6, <2>7, <2>15, ToldStays, SingleStays DEF IInv
    <2>16. \A f \in Entries : Clear(f) => Clear(f)'
      BY <2>5, <2>6, <2>7, <2>10, ClearStays
    <2>17. LeasesKept
      BY <2>7 DEF LeasesKept
    <2>18. Reading(r)'
      <3>1. Calm(x, y)
        BY <1>1, <2>1, Onward DEF Busy
      <3>2. Todo(y) # {} /\ Holds(r)' => Holds(r)
        BY <2>1, <2>4, <2>7 DEF Holds
      <3>3. \A f \in Todo(y) : dv[f].state # "NEW"
        BY <2>2 DEF IInv, Reading
      <3> QED BY <1>1, <2>4, <2>7, <3>1, <3>2, <3>3, ReadingCalm DEF IInv
    <2> QED BY <2>3, <2>4, <2>7, <2>8, <2>13, <2>14, <2>15, <2>16, <2>17, <2>18, AnyStep
  <1> QED BY <1>2, <1>3 DEF Ask

(* Its answer: a refusal is for certain, and nothing more comes of it.      *)
LEMMA AnswerOK ==
  ASSUME IInv, NEW r \in Runs, Answer(r)
  PROVE  IInv'
  <1> DEFINE x == run[r]
             n == Made(Cur(x), x.at)
  <1>1. /\ x \in Run /\ x.conn \in Conns /\ x.pc = "asked" /\ x.pc \in Busy /\ x.pc # "idle"
        /\ Todo(x) # {} /\ Cur(x) \in Entries
    BY RunFacts DEF Answer, Busy
  <1>2. CASE n # {} /\ Set(r, [x EXCEPT !.pc = "booked", !.at = First(n)]) /\ UNCHANGED <<late, faults>>
    <2> DEFINE m == First(n)
               y == ToAt(x, "booked", m)
    <2>1. m \in n /\ m \in DOMAIN series /\ series[m] = Cur(x) /\ m \in Nat
      <3>1. \A i \in n : i \in DOMAIN series /\ series[i] = Cur(x)
        BY DEF Made
      <3>2. DOMAIN series \subseteq Nat
        BY Types
      <3> HIDE DEF n
      <3>3. n \in SUBSET Nat
        BY <3>1, <3>2
      <3> QED BY <1>2, <3>1, <3>3, Least
    <2> HIDE DEF m
    <2>2. y \in Run /\ y.pc = "booked" /\ y.seen = x.seen /\ y.conn = x.conn /\ y.at = m
      <3>1. "booked" \in Steps
        BY DEF Steps
      <3> QED BY <1>1, <2>1, <3>1, SteppedAt
    <2>3. Set(r, y)
      BY <1>2 DEF m, ToAt
    <2> HIDE DEF y
    <2>4. y.pc \in Busy \ {"ask"}
      BY <2>2 DEF Busy
    <2>5. UNCHANGED <<dv, conn, series, late, due, slow, faults>>
      BY <1>2 DEF Answer
    <2>6. Shaped(y) /\ Reading(r)' /\ run' = [run EXCEPT ![r] = y]
      <3>1. PICK e : e = Cur(run[r])
        OBVIOUS
      <3> QED BY <1>1, <2>1, <2>2, <2>3, <2>4, <2>5, <3>1, StaysAt
    <2> QED BY <2>2, <2>5, <2>6, StaysAtOK
  <1>3. CASE /\ late[Cur(x)] > 0 /\ Fault /\ late' = [late EXCEPT ![Cur(x)] = 0]
             /\ \E k \in {"rate", "stop", "terminal"} : Set(r, [x EXCEPT !.pc = "requeue", !.then = k])
    <2>a. PICK e \in Entries : e = Cur(run[r])
      BY <1>1
    <2>b. PICK k \in {"rate", "stop", "terminal"} : Set(r, [x EXCEPT !.pc = "requeue", !.then = k])
      BY <1>3
    <2>0. PICK y :
            /\ e = Cur(run[r]) /\ y = ToFor(x, "requeue", k) /\ Set(r, y)
      BY <2>a, <2>b, <1>1, <1>3 DEF ToFor
    <2>1. y \in Run /\ y.pc = "requeue" /\ y.seen = x.seen /\ y.conn = x.conn /\ y.then = k
      <3>1. "requeue" \in Steps /\ k \in Reasons
        BY DEF Steps, Reasons
      <3> QED BY <1>1, <2>0, <3>1, SteppedFor
    <2>2. AsksKept
      BY <2>0, <2>1, Types, NotAsking
    <2>3. /\ late' \in [Entries -> 0 .. Landing] /\ late'[e] = 0
          /\ \A f \in Entries \ {e} : late'[f] = late[f]
      BY <1>3, <2>0, Types, ConstantFacts
    <2>4. UNCHANGED <<dv, conn, series, due, slow>>
      BY DEF Answer
    <2>5. run' = [run EXCEPT ![r] = y] /\ run' \in [Runs -> Run] /\ run'[r] = y
      BY <2>0, <2>1, Types DEF Set
    <2>6. TypeOK'
      BY <1>3, <2>3, <2>4, <2>5, Types, Faults DEF TypeOK
    <2>7. Single(e) /\ Told(e) /\ late[e] > 0 /\ ~Clear(e)
      BY <1>3, <2>0 DEF IInv, Clear
    <2>8. \A q \in Runs : ~Asking(q, e)'
      BY <2>2, <2>7, FewerAsks DEF Single
    <2>9. Clear(e)'
      BY <2>3, <2>4, <2>7, <2>8 DEF Clear, Single, Made
    <2>10. Single(e)' /\ Told(e)'
      BY <2>3, <2>4, <2>7, <2>8, <2>9 DEF Single, Told, Made
    <2>11. ASSUME NEW f \in Entries, f # e PROVE Told(f)' /\ Single(f)'
      BY <2>2, <2>3, <2>4, <2>11, ToldStays, SingleStays DEF IInv
    <2>12. \A f \in Entries : Clear(f) => Clear(f)'
      BY <2>2, <2>3, <2>4, <2>7, ClearStays
    <2>13. LeasesKept
      BY <2>4 DEF LeasesKept
    <2>14. Shaped(y) /\ Reading(r)'
      <3>1. y.pc \in Busy \ {"ask"}
        BY <2>1 DEF Busy
      <3>2. y.then # "none"
        BY <2>1
      <3> QED BY <1>1, <2>0, <2>1, <2>4, <2>9, <3>1, <3>2, StaysAt
    <2> QED BY <2>4, <2>5, <2>6, <2>10, <2>11, <2>12, <2>13, <2>14, AnyStep
  <1>4. CASE Set(r, Quieted(x)) /\ UNCHANGED late /\ (Fault \/ UNCHANGED faults)
    BY <1>1, <1>4, QuietedOK DEF Answer
  <1> QED BY <1>2, <1>3, <1>4 DEF Answer, Unanswered

-----------------------------------------------------------------------------
(* The writes to a delivery: made under the lease, or not made. *)

(* A holder's write to the entry it is at keeps the invariant, when the     *)
(* entry's own part is kept.                                                *)
LEMMA Written ==
  ASSUME IInv, NEW r \in Runs, run[r].pc \in Busy, NEW e \in Entries, e = Cur(run[r]), Holds(r),
         NEW o \in Delivery, o.state # "NEW", o.conn = dv[e].conn,
         dv' = dv \/ (dv' = [dv EXCEPT ![e] = o] /\ Told(e)'),
         NEW y, Calm(run[r], y), Set(r, y),
         UNCHANGED <<conn, series, late, due, slow>>, Fault \/ UNCHANGED faults
  PROVE  IInv'
  <1>1. CASE dv' = dv
    BY <1>1, RunFacts, CalmAlone
  <1>2. CASE dv' = [dv EXCEPT ![e] = o] /\ Told(e)'
    BY <1>2, WriteStep DEF Set
  <1> QED BY <1>1, <1>2

(* A delivery that names the entry's voucher tells what it should.          *)
LEMMA ToldBooked ==
  ASSUME NEW e \in Entries, NEW o, Told(e), dv[e].state # "NEW", dv'[e] = o, o.conn = dv[e].conn,
         o.denied = dv[e].denied, o.state \in {"BOOKED", "DONE"},
         o.number \in DOMAIN series, series[o.number] = e, conn' = conn, series' = series
  PROVE  Told(e)'
  BY DEF Told

(* A PDF marked as kept leaves its voucher as it was.                       *)
LEMMA KeepMarkOK ==
  ASSUME IInv, NEW r \in Runs, KeepMark(r)
  PROVE  IInv'
  <1> DEFINE x == run[r]
  <1>1. /\ x \in Run /\ x.conn \in Conns /\ x.pc = "keep" /\ x.pc \in Busy /\ x.pc # "idle"
        /\ Todo(x) # {} /\ Cur(x) \in Entries
    BY RunFacts DEF KeepMark, Busy
  <1>2. UNCHANGED <<conn, series, late, due, slow>>
    BY DEF KeepMark
  <1>3. Calm(x, Cut(x)) /\ Calm(x, [x EXCEPT !.pc = "connect"])
    BY <1>1, Ends, AllSteps, CalmTo DEF Busy
  <1>4. CASE Set(r, Cut(x)) /\ dv' = dv /\ UNCHANGED faults
    BY <1>1, <1>2, <1>3, <1>4, CalmAlone
  <1>5. CASE /\ Holds(r) /\ dv[Cur(x)].state = "BOOKED"
             /\ dv' \in {dv, [dv EXCEPT ![Cur(x)].kept = TRUE]}
             /\ Set(r, [x EXCEPT !.pc = "connect"]) \/ Set(r, Cut(x))
             /\ Fault \/ UNCHANGED faults
    <2>a. PICK e \in Entries : e = Cur(run[r])
      BY <1>1
    <2>0. PICK o, y : e = Cur(run[r]) /\ o = [dv[e] EXCEPT !.kept = TRUE] /\ Calm(x, y) /\ Set(r, y)
      BY <2>a, <1>1, <1>3, <1>5
    <2>1. dv[e] \in Delivery /\ dv \in [Entries -> Delivery]
      BY Types
    <2>2. o \in Delivery
      BY <2>0, <2>1, Zenon DEF Delivery
    <2>3. o.state = "BOOKED" /\ o.conn = dv[e].conn /\ o.denied = dv[e].denied /\ o.number = dv[e].number
      BY <1>5, <2>0, <2>1 DEF Delivery
    <2>4. dv' = dv \/ dv' = [dv EXCEPT ![e] = o]
      BY <1>5, <2>0, <2>1
    <2>5. dv' = [dv EXCEPT ![e] = o] => Told(e)'
      <3>1. Told(e) /\ dv[e].number \in DOMAIN series /\ series[dv[e].number] = e
        BY <1>5, <2>0 DEF IInv, Told
      <3>2. ASSUME dv' = [dv EXCEPT ![e] = o] PROVE dv'[e] = o
        BY <2>1, <3>2
      <3>3. dv[e].state # "NEW" /\ o.number \in DOMAIN series /\ series[o.number] = e
        BY <1>5, <2>0, <2>3, <3>1
      <3>4. conn' = conn /\ series' = series /\ o.state \in {"BOOKED", "DONE"}
        BY <1>2, <2>3
      <3> QED BY <2>3, <3>1, <3>2, <3>3, <3>4, ToldBooked
    <2> QED BY <1>1, <1>2, <1>5, <2>0, <2>2, <2>3, <2>4, <2>5, Written
  <1> QED BY <1>4, <1>5 DEF KeepMark, Lost

(* A delivery done still names its voucher.                                 *)
LEMMA WriteDoneOK ==
  ASSUME IInv, NEW r \in Runs, WriteDone(r)
  PROVE  IInv'
  <1> DEFINE x == run[r]
  <1>1. /\ x \in Run /\ x.conn \in Conns /\ x.pc \in Busy /\ x.pc # "idle"
        /\ Todo(x) # {} /\ Cur(x) \in Entries
    BY RunFacts DEF WriteDone, Busy
  <1>2. UNCHANGED <<conn, series, late, due, slow>>
    BY DEF WriteDone
  <1>3. Calm(x, Cut(x)) /\ \A b \in BOOLEAN : Calm(x, [PastPdf(x) EXCEPT !.attached = b])
    BY <1>1, Ends, Pasts
  <1>4. CASE Set(r, Cut(x)) /\ dv' = dv /\ UNCHANGED faults
    BY <1>1, <1>2, <1>3, <1>4, CalmAlone
  <1>5. CASE /\ Holds(r) /\ dv[Cur(x)].state = "BOOKED"
             /\ dv' \in {dv, [dv EXCEPT ![Cur(x)].state = "DONE", ![Cur(x)].kept = TRUE, ![Cur(x)].old = FALSE]}
             /\ (\E b \in BOOLEAN : Set(r, [PastPdf(x) EXCEPT !.attached = b])) \/ Set(r, Cut(x))
             /\ Fault \/ UNCHANGED faults
    <2>a. PICK e \in Entries : e = Cur(run[r])
      BY <1>1
    <2>0. PICK o, y :
            /\ e = Cur(run[r]) /\ o = [dv[e] EXCEPT !.state = "DONE", !.kept = TRUE, !.old = FALSE]
            /\ Calm(x, y) /\ Set(r, y)
      BY <2>a, <1>1, <1>3, <1>5
    <2>1. dv[e] \in Delivery /\ dv \in [Entries -> Delivery] /\ "DONE" \in States
      BY Types DEF States
    <2>2. o \in Delivery
      BY <2>0, <2>1, Zenon DEF Delivery
    <2>3. o.state = "DONE" /\ o.conn = dv[e].conn /\ o.denied = dv[e].denied /\ o.number = dv[e].number
      BY <1>5, <2>0, <2>1 DEF Delivery
    <2>4. dv' = dv \/ dv' = [dv EXCEPT ![e] = o]
      BY <1>5, <2>0, <2>1
    <2>5. dv' = [dv EXCEPT ![e] = o] => Told(e)'
      <3>1. Told(e) /\ dv[e].number \in DOMAIN series /\ series[dv[e].number] = e
        BY <1>5, <2>0 DEF IInv, Told
      <3>2. dv[e].state = "BOOKED"
        BY <1>5, <2>0
      <3>3. dv' = [dv EXCEPT ![e] = o] => dv'[e] = o
        BY <2>1
      <3> QED BY <1>2, <2>3, <3>1, <3>2, <3>3, ToldBooked
    <2> QED BY <1>1, <1>2, <1>5, <2>0, <2>2, <2>3, <2>4, <2>5, Written
  <1> QED
    <2>1. (PastPdf(x).attached \/ x.pc = "done") \in BOOLEAN
      OBVIOUS
    <2>2. [PastPdf(x) EXCEPT !.attached = @ \/ x.pc = "done"]
            = [PastPdf(x) EXCEPT !.attached = (PastPdf(x).attached \/ x.pc = "done")]
      OBVIOUS
    <2> QED BY <1>4, <1>5, <2>1, <2>2 DEF WriteDone, Lost

(* An entry goes back to the line only when nothing of it is in Fortnox or  *)
(* under way.                                                               *)
LEMMA RequeueOK ==
  ASSUME IInv, NEW r \in Runs, Requeue(r)
  PROVE  IInv'
  <1> DEFINE x == run[r]
  <1>1. /\ x \in Run /\ x.conn \in Conns /\ x.pc = "requeue" /\ x.pc \in Busy /\ x.pc # "idle"
        /\ Todo(x) # {} /\ Cur(x) \in Entries
    BY RunFacts DEF Requeue, Busy
  <1>2. UNCHANGED <<conn, series, late, due, slow>>
    BY DEF Requeue
  <1>3. Calm(x, [x EXCEPT !.pc = "send", !.then = "none"])
    <2>0. PICK y : y = ToFor(x, "send", "none")
      OBVIOUS
    <2>1. y \in Run /\ y.pc = "send" /\ y.seen = x.seen /\ y.conn = x.conn
      <3>1. "send" \in Steps /\ "none" \in Reasons
        BY DEF Steps, Reasons
      <3> QED BY <1>1, <2>0, <3>1, SteppedFor
    <2>2. Calm(x, y)
      BY <1>1, <2>1, Onward DEF Busy
    <2> QED BY <2>0, <2>2 DEF ToFor
  <1>4. CASE Set(r, Quieted(x)) /\ dv' = dv /\ UNCHANGED faults
    BY <1>1, <1>2, <1>4, QuietedOK
  <1>5. CASE /\ Holds(r) /\ dv[Cur(x)].state = "SENDING"
             /\ dv' \in {dv, [dv EXCEPT ![Cur(x)].state = "QUEUED", ![Cur(x)].next = 0, ![Cur(x)].age = 0]}
             /\ \E y : Calm(x, y) /\ Set(r, y)
             /\ Fault \/ UNCHANGED faults
    <2>a. PICK e \in Entries : e = Cur(run[r])
      BY <1>1
    <2>0. PICK o, y :
            /\ e = Cur(run[r]) /\ o = [dv[e] EXCEPT !.state = "QUEUED", !.next = 0, !.age = 0]
            /\ Calm(x, y) /\ Set(r, y)
      BY <2>a, <1>1, <1>5
    <2>1. dv[e] \in Delivery /\ dv \in [Entries -> Delivery] /\ "QUEUED" \in States
      BY Types DEF States
    <2>2. o \in Delivery
      BY <2>0, <2>1, ConstantFacts, 0 \in Nat, Zenon DEF Delivery
    <2>3. o.state = "QUEUED" /\ o.conn = dv[e].conn /\ o.denied = dv[e].denied
      BY <1>5, <2>0, <2>1 DEF Delivery
    <2>4. dv' = dv \/ dv' = [dv EXCEPT ![e] = o]
      BY <1>5, <2>0, <2>1
    <2>5. dv' = [dv EXCEPT ![e] = o] => Told(e)'
      <3>1. Told(e) /\ Clear(e)
        BY <1>1, <1>5, <2>0 DEF IInv, Reading
      <3>2. AsksKept
        BY <2>0, Types, NotAsking DEF Calm
      <3>3. Clear(e)'
        BY <1>2, <3>1, <3>2, ClearStays
      <3>4. dv' = [dv EXCEPT ![e] = o] => dv'[e] = o
        BY <2>1
      <3>5. dv[e].state = "SENDING"
        BY <1>5, <2>0
      <3> QED BY <1>2, <2>3, <3>1, <3>3, <3>4, <3>5 DEF Told
    <2> QED BY <1>1, <1>2, <1>5, <2>0, <2>2, <2>3, <2>4, <2>5, Written
  <1>6. x.then # "none" /\ x.then \in {"none", "send", "rate", "stop", "terminal"}
    <2>1. x.then # "none"
      BY <1>1 DEF IInv, Shaped
    <2>2. x.then \in {"none", "send", "rate", "stop", "terminal"}
      BY <1>1, Zenon DEF Run
    <2> QED BY <2>1, <2>2
  <1>7. ASSUME CASE x.then = "send" -> Set(r, [x EXCEPT !.pc = "send", !.then = "none"])
                 [] x.then = "rate" -> Set(r, Quieted(x))
                 [] OTHER -> Set(r, StopAt(x, x.then))
        PROVE  \E y : Calm(x, y) /\ Set(r, y)
    BY <1>1, <1>3, <1>6, <1>7, Halts
  <1>8. Holds(r) /\ dv[Cur(x)].state = "SENDING" /\ Set(r, Quieted(x)) => \E y : Calm(x, y) /\ Set(r, y)
    BY <1>1, Halts
  <1> QED BY <1>4, <1>5, <1>7, <1>8 DEF Requeue, Lost

Booked(e, n) == [dv[e] EXCEPT !.state = "BOOKED", !.number = n, !.next = 0, !.age = 0]
PastVoucher(x, e) ==
  [x EXCEPT !.pc = "pdf", !.booked = TRUE, !.at = 0,
            !.seen[e] = [@ EXCEPT !.state = "BOOKED", !.next = 0, !.age = 0]]

(* The run after a voucher is written, with or without a PDF to attach.     *)
LEMMA PastVoucherRun ==
  ASSUME NEW x \in Run, x.conn \in Conns, Todo(x) # {}, NEW e, e = Cur(x)
  PROVE  Calm(x, PastVoucher(x, e))
  <1> DEFINE o == [x.seen[e] EXCEPT !.state = "BOOKED", !.next = 0, !.age = 0]
             g == [x.seen EXCEPT ![e] = o]
             y == [x EXCEPT !.pc = "pdf", !.booked = TRUE, !.at = 0, !.seen = g]
  <1>1. x.seen[e] \in Delivery /\ e \in Entries /\ x.seen \in [Entries -> Delivery]
    <2>1. x.seen \in [Entries -> Delivery]
      BY Zenon DEF Run
    <2> QED BY <2>1, Current
  <1>2. "BOOKED" \in States /\ "pdf" \in Steps /\ 0 \in Nat
    BY DEF States, Steps
  <1>3. o \in Delivery
    BY <1>1, <1>2, ConstantFacts, Zenon DEF Delivery
  <1>4. o.state = "BOOKED"
    BY <1>1 DEF Delivery
  <1>5. PastVoucher(x, e) = y
    BY <1>1 DEF PastVoucher
  <1> HIDE DEF o
  <1>6. g \in [Entries -> Delivery] /\ g[e] = o /\ \A f \in Entries : f # e => g[f] = x.seen[f]
    BY <1>1, <1>3
  <1> HIDE DEF g
  <1>7. y \in Run
    BY <1>2, <1>6, Zenon DEF Run
  <1>8. y.pc = "pdf" /\ y.seen = g /\ y.conn = x.conn
    BY DEF Run
  <1> HIDE DEF y
  <1>9. \A f \in Entries : g[f].state # "NEW" <=> x.seen[f].state # "NEW"
    <2>1. x.seen[e].state # "NEW"
      BY Current DEF Todo
    <2> QED BY <1>4, <1>6, <2>1
  <1>10. Todo(y) = Todo(x) /\ Cur(y) = e
    <2>1. Todo(y) = Todo(x)
      BY <1>8, <1>9 DEF Todo
    <2> QED BY <2>1 DEF Cur
  <1>11. Shaped(y)
    BY <1>7, <1>8, <1>10 DEF Shaped
  <1>12. \A f \in Todo(y) : y.seen[f].state = "SENDING" => y.seen[f] = x.seen[f]
    BY <1>4, <1>6, <1>8 DEF Todo
  <1> QED BY <1>5, <1>8, <1>10, <1>11, <1>12 DEF Calm

(* A delivery is booked with the number of its own voucher.                 *)
LEMMA WriteBookedOK ==
  ASSUME IInv, NEW r \in Runs, WriteBooked(r)
  PROVE  IInv'
  <1> DEFINE x == run[r]
  <1>1. /\ x \in Run /\ x.conn \in Conns /\ x.pc = "booked" /\ x.pc \in Busy /\ x.pc # "idle"
        /\ Todo(x) # {} /\ Cur(x) \in Entries
    BY RunFacts DEF WriteBooked, Busy
  <1>2. UNCHANGED <<conn, series, late, due, slow>>
    BY DEF WriteBooked
  <1>3. Calm(x, Quieted(x)) /\ Calm(x, PastVoucher(x, Cur(x)))
    BY <1>1, Halts, PastVoucherRun
  <1>4. CASE Set(r, Quieted(x)) /\ dv' = dv /\ UNCHANGED faults
    BY <1>1, <1>2, <1>4, QuietedOK
  <1>5. CASE /\ Holds(r) /\ dv[Cur(x)].state = "SENDING"
             /\ dv' \in {dv, [dv EXCEPT ![Cur(x)].state = "BOOKED", ![Cur(x)].number = x.at,
                                        ![Cur(x)].next = 0, ![Cur(x)].age = 0]}
             /\ Set(r, PastVoucher(x, Cur(x))) \/ Set(r, Quieted(x))
             /\ Fault \/ UNCHANGED faults
    <2>a. PICK e \in Entries : e = Cur(run[r])
      BY <1>1
    <2>0. PICK o, y : e = Cur(run[r]) /\ o = Booked(e, x.at) /\ Calm(x, y) /\ Set(r, y)
      BY <2>a, <1>1, <1>3, <1>5
    <2>1. dv[e] \in Delivery /\ dv \in [Entries -> Delivery] /\ "BOOKED" \in States /\ x.at \in Nat
      BY Types, RunFacts DEF States
    <2>2. o \in Delivery
      BY <2>0, <2>1, ConstantFacts, 0 \in Nat, Zenon DEF Delivery, Booked
    <2>3. o.state = "BOOKED" /\ o.conn = dv[e].conn /\ o.denied = dv[e].denied /\ o.number = x.at
      BY <1>5, <2>0, <2>1 DEF Delivery, Booked
    <2>4. dv' = dv \/ dv' = [dv EXCEPT ![e] = o]
      BY <1>5, <2>0, <2>1 DEF Booked
    <2>5. dv' = [dv EXCEPT ![e] = o] => Told(e)'
      <3>1. Told(e) /\ x.at \in DOMAIN series /\ series[x.at] = e
        BY <1>1, <2>0 DEF IInv, Reading
      <3>2. dv[e].state = "SENDING"
        BY <1>5, <2>0
      <3>3. dv' = [dv EXCEPT ![e] = o] => dv'[e] = o
        BY <2>1
      <3> QED BY <1>2, <2>3, <3>1, <3>2, <3>3, ToldBooked
    <2> QED BY <1>1, <1>2, <1>5, <2>0, <2>2, <2>3, <2>4, <2>5, Written
  <1> QED BY <1>4, <1>5 DEF WriteBooked, Lost, PastVoucher

-----------------------------------------------------------------------------
(* The lease, and what a run says of its connection. *)

(* A lease is taken only when none is live: nobody else holds what the run  *)
(* will read.                                                               *)
LEMMA ClaimOK ==
  ASSUME IInv, NEW r \in Runs, Claim(r)
  PROVE  IInv'
  <1> DEFINE x == run[r]
             c == x.conn
  <1>1. x \in Run /\ c \in Conns /\ x.pc = "claim" /\ Todo(x) = {}
    BY RunFacts DEF Claim, IInv, Reading
  <1>2. CASE Set(r, NewRun) /\ UNCHANGED conn
    BY <1>1, <1>2, CalmNew, CalmAlone DEF Claim
  <1>3. CASE /\ conn' = [conn EXCEPT ![c].lease = Lease, ![c].holder = r]
             /\ Set(r, [x EXCEPT !.pc = "hello"])
    <2>0. PICK y : y = [x EXCEPT !.pc = "hello"]
      OBVIOUS
    <2>1. y \in Run /\ y.pc = "hello" /\ y.seen = x.seen /\ y.conn = c
      BY <1>1, <2>0, AllSteps, Stepped
    <2>2. Todo(y) = {} /\ Shaped(y)
      BY <1>1, <2>1 DEF Todo, Shaped, Busy
    <2>3. /\ run' = [run EXCEPT ![r] = y] /\ run' \in [Runs -> Run] /\ run'[r] = y
          /\ \A q \in Runs \ {r} : run'[q] = run[q]
      BY <1>3, <2>0, <2>1, Types DEF Set
    <2>4. AsksKept
      BY <2>1, <2>3 DEF AsksKept
    <2>5. UNCHANGED <<dv, series, late, due, faults, slow>>
      BY DEF Claim
    <2>6. /\ conn' \in [Conns -> Connection]
          /\ conn'[c].holder = r /\ \A d \in Conns : conn'[d].status = conn[d].status
          /\ \A d \in Conns \ {c} : conn'[d] = conn[d]
      <3>1. conn \in [Conns -> Connection] /\ conn[c] \in Connection
        BY <1>1, Types
      <3>2. [conn[c] EXCEPT !.lease = Lease, !.holder = r] \in Connection
        BY <3>1, ConstantFacts DEF Connection
      <3>3. conn' = [conn EXCEPT ![c] = [conn[c] EXCEPT !.lease = Lease, !.holder = r]]
        BY <1>1, <1>3, <3>1
      <3>4. LET z == [conn[c] EXCEPT !.lease = Lease, !.holder = r] IN z.holder = r /\ z.status = conn[c].status
        BY <3>1 DEF Connection
      <3> QED BY <1>1, <3>1, <3>2, <3>3, <3>4
    <2>7. TypeOK'
      BY <2>3, <2>5, <2>6, Types DEF TypeOK
    <2>8. \A e \in Entries : Told(e)' /\ Single(e)'
      BY <2>4, <2>5, <2>6, ToldStays, SingleStays DEF IInv
    <2>9. \A q \in Runs \ {r} : run[q].pc # "idle" /\ Holds(q)' => Holds(q)
      BY <2>3, <2>6 DEF Holds, IInv, Shaped
    <2>10. \A e \in Entries : Clear(e) => Clear(e)'
      BY <2>4, <2>5, ClearStays
    <2>11. Reading(r)'
      BY <2>1, <2>2, <2>3 DEF Reading
    <2> QED BY <2>2, <2>3, <2>5, <2>7, <2>8, <2>9, <2>10, <2>11, LeaseStep
  <1> QED BY <1>2, <1>3 DEF Claim

(* A run that gives its lease back, or finds it another's, holds nothing.   *)
LEMMA ReleaseOK ==
  ASSUME IInv, NEW r \in Runs, Release(r)
  PROVE  IInv'
  <1> DEFINE c == run[r].conn
  <1>1. c \in Conns /\ run[r].pc = "release"
    BY RunFacts DEF Release
  <1>2. CASE conn' = conn
    BY <1>1, <1>2, CalmNew, CalmAlone DEF Release
  <1>3. CASE conn' = [conn EXCEPT ![c].lease = 0, ![c].holder = NoRun]
    <2>1. NewRun \in Run /\ NewRun.pc = "idle" /\ Todo(NewRun) = {} /\ Shaped(NewRun)
      BY Beginnings DEF NewRun, Shaped, Busy
    <2>3. /\ run' = [run EXCEPT ![r] = NewRun] /\ run' \in [Runs -> Run] /\ run'[r] = NewRun
          /\ \A q \in Runs \ {r} : run'[q] = run[q]
      BY <2>1, Types DEF Set, Release
    <2>4. AsksKept
      BY <2>1, <2>3 DEF AsksKept
    <2>5. UNCHANGED <<dv, series, late, due, faults, slow>>
      BY DEF Release
    <2>6. /\ conn' \in [Conns -> Connection]
          /\ conn'[c].holder = NoRun /\ \A d \in Conns : conn'[d].status = conn[d].status
          /\ \A d \in Conns \ {c} : conn'[d] = conn[d]
      <3>1. conn \in [Conns -> Connection] /\ conn[c] \in Connection
        BY <1>1, Types
      <3>2. [conn[c] EXCEPT !.lease = 0, !.holder = NoRun] \in Connection
        BY <3>1, ConstantFacts DEF Connection
      <3>3. conn' = [conn EXCEPT ![c] = [conn[c] EXCEPT !.lease = 0, !.holder = NoRun]]
        BY <1>1, <1>3, <3>1
      <3>4. LET z == [conn[c] EXCEPT !.lease = 0, !.holder = NoRun] IN z.holder = NoRun /\ z.status = conn[c].status
        BY <3>1 DEF Connection
      <3> QED BY <1>1, <3>1, <3>2, <3>3, <3>4
    <2>7. TypeOK'
      BY <2>3, <2>5, <2>6, Types DEF TypeOK
    <2>8. \A e \in Entries : Told(e)' /\ Single(e)'
      BY <2>4, <2>5, <2>6, ToldStays, SingleStays DEF IInv
    <2>9. \A q \in Runs \ {r} : run[q].pc # "idle" /\ Holds(q)' => Holds(q)
      BY <2>3, <2>6, ConstantFacts DEF Holds, IInv, Shaped
    <2>10. \A e \in Entries : Clear(e) => Clear(e)'
      BY <2>4, <2>5, ClearStays
    <2>11. Reading(r)'
      BY <2>1, <2>3 DEF Reading
    <2> QED BY <2>1, <2>3, <2>5, <2>7, <2>8, <2>9, <2>10, <2>11, LeaseStep
  <1> QED BY <1>2, <1>3 DEF Release

(* The night is closed, or is left open: the lease stays as it is.          *)
LEMMA CloseNightOK ==
  ASSUME IInv, NEW r \in Runs, CloseNight(r)
  PROVE  IInv'
  <1> DEFINE x == run[r]
             c == x.conn
  <1>1. x \in Run /\ c \in Conns /\ x.pc = "close"
    BY RunFacts DEF CloseNight
  <1>2. CASE Set(r, Cut(x)) /\ UNCHANGED conn /\ Fault
    BY <1>1, <1>2, Ends, CalmAlone DEF CloseNight
  <1>3. CASE Set(r, Ended(x)) /\ UNCHANGED faults /\ conn' \in {conn, [conn EXCEPT ![c].night = TRUE]}
    <2>1. conn \in [Conns -> Connection] /\ conn[c] \in Connection
      BY <1>1, Types
    <2>2. conn' = conn \/ conn' = [conn EXCEPT ![c] = [conn[c] EXCEPT !.night = TRUE]]
      BY <1>1, <1>3, <2>1
    <2>3. LET z == [conn[c] EXCEPT !.night = TRUE]
          IN  z \in Connection /\ z.holder = conn[c].holder /\ z.lease = conn[c].lease /\ z.status = conn[c].status
      BY <2>1 DEF Connection
    <2>4. conn' \in [Conns -> Connection] /\ LeasesKept
      BY <1>1, <2>1, <2>2, <2>3 DEF LeasesKept
    <2>5. Calm(x, Ended(x))
      BY <1>1, Ends
    <2> QED BY <1>1, <1>3, <2>4, <2>5, CalmStep DEF CloseNight, Set
  <1> QED BY <1>2, <1>3 DEF CloseNight

(* What a run makes of its connection: never a connected one of one cut off. *)
LEMMA SettledConnection ==
  ASSUME NEW x \in Run, x.conn \in Conns, conn \in [Conns -> Connection]
  PROVE  LET c == conn[x.conn]
             d == Settled(x)
         IN  /\ d \in Connection /\ d.holder = c.holder /\ d.lease = c.lease /\ d.attempt = c.attempt
             /\ d.status = "DISCONNECTED" <=> c.status = "DISCONNECTED"
             /\ d.status # c.status \/ d.stop # c.stop =>
                  /\ c.attempt = x.attempt /\ ~(c.status = "BROKEN" /\ c.stop.kind = "terminal")
                  /\ c.status # "DISCONNECTED"
  <1> DEFINE c == conn[x.conn]
  <1>1. c \in Connection /\ x.stop \in Stop /\ NoStop \in Stop
    <2>1. x.stop \in Stop
      BY Zenon DEF Run
    <2> QED BY <2>1, Beginnings
  <1> DEFINE d1 == [c EXCEPT !.status = "BROKEN", !.stop = x.stop]
             d2 == [c EXCEPT !.status = "ACTIVE", !.stop = NoStop, !.reached = TRUE]
             d3 == [c EXCEPT !.reached = TRUE]
  <1>2. /\ d1 \in Connection /\ d1.holder = c.holder /\ d1.lease = c.lease /\ d1.attempt = c.attempt
        /\ d1.status = "BROKEN"
    BY <1>1 DEF Connection
  <1>3. /\ d2 \in Connection /\ d2.holder = c.holder /\ d2.lease = c.lease /\ d2.attempt = c.attempt
        /\ d2.status = "ACTIVE"
    BY <1>1 DEF Connection
  <1>4. /\ d3 \in Connection /\ d3.holder = c.holder /\ d3.lease = c.lease /\ d3.attempt = c.attempt
        /\ d3.status = c.status /\ d3.stop = c.stop
    BY <1>1 DEF Connection
  <1>5. \/ Settled(x) = c
        \/ /\ c.status # "DISCONNECTED" /\ c.attempt = x.attempt
           /\ ~(c.status = "BROKEN" /\ c.stop.kind = "terminal")
           /\ Settled(x) \in {d1, d2, d3}
    BY DEF Settled
  <1> HIDE DEF d1, d2, d3
  <1> QED BY <1>1, <1>2, <1>3, <1>4, <1>5

(* Settling a connection leaves its lease, and never revives one cut off.   *)
LEMMA WriteStateOK ==
  ASSUME IInv, NEW r \in Runs, WriteState(r)
  PROVE  IInv'
  <1> DEFINE x == run[r]
             c == x.conn
  <1>1. x \in Run /\ c \in Conns /\ x.pc = "state"
    BY RunFacts DEF WriteState
  <1>2. Calm(x, [x EXCEPT !.pc = "release"])
    BY <1>1, AllSteps, CalmTo DEF Busy
  <1>3. CASE UNCHANGED conn
    BY <1>1, <1>2, <1>3, CalmAlone DEF WriteState
  <1>4. CASE conn' = [conn EXCEPT ![c] = Settled(x)]
    <2>1. conn \in [Conns -> Connection]
      BY Types
    <2>2. conn' \in [Conns -> Connection] /\ LeasesKept
      BY <1>1, <1>4, <2>1, SettledConnection DEF LeasesKept
    <2> QED BY <1>1, <1>2, <2>2, CalmStep DEF WriteState, Set
  <1> QED BY <1>3, <1>4 DEF WriteState

(* A run starts with nothing read and nothing held.                         *)
LEMMA StartOK ==
  ASSUME IInv, NEW r \in Runs, Start(r)
  PROVE  IInv'
  <1>0. PICK c \in Conns, s \in Softs :
          Set(r, [NewRun EXCEPT
            !.pc = "claim", !.conn = c, !.attempt = conn[c].attempt, !.was = conn[c].status,
            !.night = conn[c].night, !.fresh = conn[c].reached, !.left = Budget, !.soft = s])
          /\ Live(c)
    BY DEF Start
  <1>1. PICK y : y = [NewRun EXCEPT
            !.pc = "claim", !.conn = c, !.attempt = conn[c].attempt, !.was = conn[c].status,
            !.night = conn[c].night, !.fresh = conn[c].reached, !.left = Budget, !.soft = s]
    OBVIOUS
  <1>2. conn[c].attempt \in Nat /\ conn[c].status \in {"ACTIVE", "BROKEN"} /\ conn[c].night \in BOOLEAN /\ conn[c].reached \in BOOLEAN
    <2>1. conn[c] \in Connection
      BY Types
    <2>2. conn[c].attempt \in Nat /\ conn[c].night \in BOOLEAN /\ conn[c].reached \in BOOLEAN
      BY <2>1, Zenon DEF Connection
    <2> QED BY <1>0, <2>2 DEF Live
  <1>3. y \in Run
    <2>1. "claim" \in Steps /\ s \in Nat /\ c \in Conns \cup {NoConn}
      BY ConstantFacts, AllSteps
    <2> QED BY <1>1, <1>2, <2>1, Beginnings, ConstantFacts, Zenon DEF Run
  <1>4. y.pc = "claim" /\ y.seen = Nothing /\ y.conn = c
    BY <1>1, Beginnings DEF Run, NewRun
  <1>5. Todo(y) = {} /\ Shaped(y)
    BY <1>3, <1>4, Emptied DEF Shaped, Busy
  <1>6. run' = [run EXCEPT ![r] = y] /\ run'[r] = y
    BY <1>0, <1>1, Types DEF Set
  <1>7. Reading(r)'
    BY <1>4, <1>5, <1>6 DEF Reading
  <1> QED BY <1>4, <1>5, <1>6, <1>7, StaysAtOK DEF Start

-----------------------------------------------------------------------------
(* A file of new entries: none of them was ever asked for. *)

(* A file's new entries are QUEUED, and nothing of them is in Fortnox.      *)
LEMMA FiledOK ==
  ASSUME IInv, NEW c \in Conns, dv' = Filed(c, Unfiled), UNCHANGED <<conn, series, late>>, AsksKept
  PROVE  /\ dv' \in [Entries -> Delivery]
         /\ \A e \in Entries : Told(e)' /\ Single(e)'
         /\ \A e \in Entries : dv[e].state # "NEW" => dv'[e] = dv[e]
  <1>1. dv \in [Entries -> Delivery]
    BY Types
  <1>2. PICK n \in Nat : n = Cardinality(Files) + 1
    BY <1>1, FilesFinite
  <1>3. PICK o : o = [NoDelivery EXCEPT !.state = "QUEUED", !.conn = c, !.file = n]
    OBVIOUS
  <1>4. o \in Delivery /\ o.state = "QUEUED" /\ o.conn = c /\ ~o.denied
    <2>1. "QUEUED" \in States /\ c \in Conns \cup {NoConn}
      BY DEF States
    <2>2. o \in Delivery
      BY <1>3, <2>1, Beginnings, Zenon DEF Delivery
    <2> QED BY <1>3, <2>2 DEF NoDelivery
  <1>5. \A e \in Entries : dv'[e] = dv[e] \/ (dv[e].state = "NEW" /\ dv'[e] = o)
    BY <1>2, <1>3 DEF Filed, Unfiled
  <1>6. dv' \in [Entries -> Delivery]
    BY <1>1, <1>2, <1>3, <1>4 DEF Filed
  <1>7. ASSUME NEW e \in Entries PROVE Told(e)' /\ Single(e)'
    <2>1. Told(e) /\ Single(e)
      BY DEF IInv
    <2>2. Single(e)'
      BY <2>1, SingleStays
    <2>3. CASE dv'[e] = dv[e]
      BY <2>1, <2>2, <2>3, ToldStays
    <2>4. CASE dv[e].state = "NEW" /\ dv'[e] = o
      <3>1. Clear(e)
        BY <2>1, <2>4, ConstantFacts DEF Told
      <3>2. Clear(e)'
        BY <3>1, ClearStays
      <3>3. c # NoConn
        BY ConstantFacts
      <3> QED BY <1>4, <2>2, <2>4, <3>2, <3>3 DEF Told
    <2> QED BY <1>5, <2>2, <2>3, <2>4
  <1> QED BY <1>4, <1>5, <1>6, <1>7

(* The night's file is made by the holder, for its own connection.          *)
LEMMA NightFileOK ==
  ASSUME IInv, NEW r \in Runs, NightFile(r)
  PROVE  IInv'
  <1> DEFINE x == run[r]
  <1>1. x \in Run /\ x.conn \in Conns /\ x.pc = "file"
    BY RunFacts DEF NightFile
  <1>2. CASE Set(r, Cut(x)) /\ UNCHANGED dv /\ (Fault \/ UNCHANGED faults)
    BY <1>1, <1>2, Ends, CalmAlone DEF NightFile
  <1>3. CASE Set(r, [x EXCEPT !.pc = "close"]) /\ UNCHANGED <<dv, faults>>
    <2>1. Calm(x, [x EXCEPT !.pc = "close"])
      BY <1>1, AllSteps, CalmTo DEF Busy
    <2> QED BY <1>1, <1>3, <2>1, CalmAlone DEF NightFile
  <1>4. CASE dv' = Filed(x.conn, Unfiled) /\ Set(r, [x EXCEPT !.pc = "line"]) /\ UNCHANGED faults
    <2>0. PICK y : y = [x EXCEPT !.pc = "line"]
      OBVIOUS
    <2>1. y \in Run /\ y.pc = "line" /\ y.seen = x.seen /\ y.conn = x.conn
      BY <1>1, <2>0, AllSteps, Stepped
    <2>2. Calm(x, y)
      BY <1>1, <2>0, AllSteps, CalmTo DEF Busy
    <2>3. run' = [run EXCEPT ![r] = y] /\ run' \in [Runs -> Run] /\ run'[r] = y
      BY <1>4, <2>0, <2>1, Types DEF Set
    <2>4. AsksKept
      BY <1>4, <2>0, <2>1, Types, NotAsking
    <2>5. UNCHANGED <<conn, series, late, due, slow>>
      BY DEF NightFile
    <2>6. /\ dv' \in [Entries -> Delivery]
          /\ \A e \in Entries : Told(e)' /\ Single(e)'
          /\ \A e \in Entries : dv[e].state # "NEW" => dv'[e] = dv[e]
      BY <1>1, <1>4, <2>4, <2>5, FiledOK
    <2>7. TypeOK'
      BY <1>4, <2>3, <2>5, <2>6, Types DEF TypeOK
    <2>8. LeasesKept /\ Shaped(y)
      BY <2>2, <2>5 DEF LeasesKept, Calm
    <2>9. \A e \in Entries : Clear(e) => Clear(e)'
      BY <2>4, <2>5, ClearStays
    <2>10. \A q \in Runs, e \in Entries : e \in Todo(run[q]) => dv'[e] = dv[e]
      BY <2>6 DEF IInv, Reading
    <2>11. Reading(r)'
      <3>1. Reading(r) /\ (Holds(r)' => Holds(r)) /\ Todo(y) = Todo(x) /\ Cur(y) = Cur(x)
        BY <2>1, <2>3, <2>5 DEF IInv, Holds, Todo, Cur
      <3>2. \A e \in Todo(y) : dv'[e].state # "NEW" /\ dv'[e].conn = y.conn
        BY <2>1, <2>10, <3>1 DEF Reading, Todo
      <3>3. ASSUME NEW e \in Todo(y), Holds(r), y.seen[e].state = "SENDING", e # Cur(y) PROVE Fresh(y, e)'
        <4>1. Fresh(x, e) /\ dv'[e] = dv[e]
          BY <1>1, <2>1, <2>10, <3>1, <3>3 DEF Reading, Todo
        <4> QED BY <2>1, <4>1 DEF Fresh
      <3> QED BY <2>1, <2>3, <3>1, <3>2, <3>3 DEF Reading
    <2> QED BY <2>3, <2>5, <2>6, <2>7, <2>8, <2>9, <2>10, <2>11, AnyStep
  <1> QED BY <1>2, <1>3, <1>4 DEF NightFile

-----------------------------------------------------------------------------
(* The steps of people, of Fortnox and of the books: no run moves. *)

(* A step that is no run's keeps the invariant when it leaves alone what    *)
(* the holders read.                                                        *)
LEMMA WorldStep ==
  ASSUME IInv, run' = run, TypeOK', Grows,
         \A e \in Entries : Told(e)' /\ Single(e)',
         \A e \in Entries : dv[e].state # "NEW" => dv'[e].state # "NEW" /\ dv'[e].conn = dv[e].conn,
         \A q \in Runs : run[q].pc # "idle" /\ Holds(q)' => Holds(q),
         \A q \in Runs, e \in Entries :
           run[q].pc # "idle" /\ Holds(q) /\ e \in Todo(run[q]) =>
             dv'[e] = dv[e] /\ (Clear(e) => Clear(e)')
  PROVE  IInv'
  <1>1. ASSUME NEW q \in Runs PROVE Reading(q)' /\ Shaped(run'[q])
    <2>1. Shaped(run[q]) /\ Reading(q)
      BY DEF IInv
    <2>3. run[q].pc = "requeue" => Todo(run[q]) # {} /\ Cur(run[q]) \in Todo(run[q])
      BY <2>1, Current DEF Shaped, Busy
    <2>4. \A e \in Todo(run[q]) : e \in Entries
      BY DEF Todo
    <2>5. CASE run[q].pc = "idle"
      BY <2>1, <2>4, <2>5 DEF Reading
    <2>6. CASE run[q].pc # "idle"
      BY <2>1, <2>3, <2>4, <2>6, ReadingStays DEF Reading
    <2> QED BY <2>1, <2>5, <2>6
  <1> QED BY <1>1 DEF IInv

(* A person's act on a connection leaves its lease, and no cut is undone.   *)
LEMMA ConnStep ==
  ASSUME IInv, UNCHANGED <<dv, run, series, late, due, faults, slow>>,
         NEW c \in Conns, NEW d \in Connection, conn' = [conn EXCEPT ![c] = d],
         d.holder = conn[c].holder, d.lease = conn[c].lease, conn[c].status # "DISCONNECTED"
  PROVE  IInv'
  <1>1. /\ conn' \in [Conns -> Connection]
        /\ \A b \in Conns : /\ conn'[b].holder = conn[b].holder /\ conn'[b].lease = conn[b].lease
                            /\ conn[b].status = "DISCONNECTED" => conn'[b].status = "DISCONNECTED"
    BY Types
  <1>2. AsksKept /\ Grows
    BY SameSeries DEF AsksKept
  <1>3. TypeOK'
    BY <1>1, Types DEF TypeOK
  <1>4. \A e \in Entries : Told(e)' /\ Single(e)'
    BY <1>1, <1>2, ToldStays, SingleStays DEF IInv
  <1>5. \A q \in Runs : run[q].pc # "idle" /\ Holds(q)' => Holds(q)
    BY <1>1 DEF Holds, IInv, Shaped
  <1>6. \A e \in Entries : Clear(e) => Clear(e)'
    BY <1>2, ClearStays
  <1> QED BY <1>2, <1>3, <1>4, <1>5, <1>6, WorldStep

(* No act of a person on a connection disturbs a run but by cutting it off. *)
LEMMA PersonOK ==
  ASSUME IInv, NEW c \in Conns, Person(c)
  PROVE  IInv'
  <1>1. conn \in [Conns -> Connection] /\ conn[c] \in Connection
    BY Types
  <1>2. conn[c].attempt \in Nat
    BY <1>1, Zenon DEF Connection
  <1>3. CASE Connect(c)
    <2> DEFINE d == [conn[c] EXCEPT !.status = "ACTIVE", !.attempt = 1]
    <2>1. d \in Connection /\ d.holder = conn[c].holder /\ d.lease = conn[c].lease
      BY <1>1 DEF Connection
    <2>2. conn' = [conn EXCEPT ![c] = d]
      BY <1>1, <1>3 DEF Connect
    <2> HIDE DEF d
    <2> QED BY <1>3, <2>1, <2>2, ConnStep DEF Connect
  <1>4. CASE Reconnect(c)
    <2> DEFINE n == conn[c].attempt + 1
               d == [conn[c] EXCEPT !.status = "ACTIVE", !.stop = NoStop, !.attempt = n, !.night = TRUE, !.reached = TRUE]
    <2>0. n \in Nat /\ NoStop \in Stop
      BY <1>2, Beginnings
    <2>2. conn' = [conn EXCEPT ![c] = d]
      BY <1>1, <1>4 DEF Reconnect, Connection
    <2> HIDE DEF n
    <2>1. d \in Connection /\ d.holder = conn[c].holder /\ d.lease = conn[c].lease
      BY <1>1, <2>0 DEF Connection
    <2> HIDE DEF d
    <2> QED BY <1>4, <2>1, <2>2, ConnStep DEF Reconnect
  <1>5. CASE Disconnect(c)
    <2> DEFINE n == Cardinality(Vouchers(c))
               d == [conn[c] EXCEPT !.status = "DISCONNECTED", !.cut = n]
    <2>0. n \in Nat
      BY VouchersFinite, Types
    <2>2. conn' = [conn EXCEPT ![c] = d]
      BY <1>1, <1>5 DEF Disconnect
    <2> HIDE DEF n
    <2>1. d \in Connection /\ d.holder = conn[c].holder /\ d.lease = conn[c].lease
      BY <1>1, <2>0 DEF Connection
    <2> HIDE DEF d
    <2> QED BY <1>5, <2>1, <2>2, ConnStep DEF Disconnect, Live
  <1>6. CASE BookYearEnd(c)
    <2>1. UNCHANGED <<conn, run, series, late, due, faults, slow>> /\ dv' = Filed(c, Unfiled)
      BY <1>6 DEF BookYearEnd
    <2>2. AsksKept /\ Grows
      BY <2>1, SameSeries DEF AsksKept
    <2>3. /\ dv' \in [Entries -> Delivery]
          /\ \A e \in Entries : Told(e)' /\ Single(e)'
          /\ \A e \in Entries : dv[e].state # "NEW" => dv'[e] = dv[e]
      BY <2>1, <2>2, FiledOK
    <2>4. TypeOK'
      BY <2>1, <2>3, Types DEF TypeOK
    <2>5. \A q \in Runs : Holds(q)' => Holds(q)
      BY <2>1 DEF Holds
    <2>6. \A e \in Entries : Clear(e) => Clear(e)'
      BY <2>1, <2>2, ClearStays
    <2>7. \A q \in Runs, e \in Entries : e \in Todo(run[q]) => dv'[e] = dv[e]
      BY <2>3 DEF IInv, Reading
    <2> QED BY <2>1, <2>2, <2>3, <2>4, <2>5, <2>6, <2>7, WorldStep
  <1> QED BY <1>3, <1>4, <1>5, <1>6 DEF Person

(* What a person decides: only where no run holds the lease.                *)
LEMMA DecideStep ==
  ASSUME IInv, UNCHANGED <<conn, run, series, late, due, faults, slow>>,
         dv' \in [Entries -> Delivery],
         \A e \in Entries : Told(e)',
         \A e \in Entries : dv[e].state # "NEW" => dv'[e].state # "NEW" /\ dv'[e].conn = dv[e].conn,
         \A e \in Entries : dv'[e] # dv[e] =>
           conn[dv[e].conn].status = "DISCONNECTED" \/ conn[dv[e].conn].lease = 0
  PROVE  IInv'
  <1>1. AsksKept /\ Grows
    BY SameSeries DEF AsksKept
  <1>2. TypeOK'
    BY Types DEF TypeOK
  <1>3. \A e \in Entries : Single(e)'
    BY <1>1, SingleStays DEF IInv
  <1>4. \A q \in Runs : Holds(q)' => Holds(q)
    BY DEF Holds
  <1>5. \A q \in Runs, e \in Entries : Holds(q) /\ e \in Todo(run[q]) => dv'[e] = dv[e] /\ (Clear(e) => Clear(e)')
    <2>1. ASSUME NEW q \in Runs, NEW e \in Entries, Holds(q), e \in Todo(run[q]) PROVE dv'[e] = dv[e]
      <3>1. dv[e].conn = run[q].conn
        BY <2>1 DEF IInv, Reading
      <3>2. conn[run[q].conn].lease # 0
        <4>1. conn[run[q].conn].lease > 0
          BY <2>1 DEF Holds
        <4> QED BY <4>1
      <3> QED BY <2>1, <3>1, <3>2 DEF Holds
    <2> QED BY <1>1, <2>1, ClearStays
  <1> QED BY <1>1, <1>2, <1>3, <1>4, <1>5, WorldStep

(* A person decides only what no run holds.                                 *)
LEMMA BookByHandOK ==
  ASSUME IInv, NEW e \in Entries, BookByHand(e)
  PROVE  IInv'
  <1>1. dv \in [Entries -> Delivery] /\ dv[e] \in Delivery /\ "BY_HAND" \in States
    BY Types DEF States
  <1>2. PICK o : o = [dv[e] EXCEPT !.state = "BY_HAND", !.next = 0, !.age = 0, !.old = FALSE]
    OBVIOUS
  <1>3. o \in Delivery
    BY <1>1, <1>2, ConstantFacts, 0 \in Nat, Zenon DEF Delivery
  <1>4. o.state = "BY_HAND" /\ o.conn = dv[e].conn /\ o.denied = dv[e].denied
    BY <1>1, <1>2 DEF Delivery
  <1>5. dv' = [dv EXCEPT ![e] = o]
    BY <1>1, <1>2 DEF BookByHand
  <1>6. UNCHANGED <<conn, run, series, late, due, faults, slow>> /\ AsksKept
    BY DEF BookByHand, AsksKept
  <1>7. dv' \in [Entries -> Delivery] /\ dv'[e] = o /\ \A f \in Entries : f # e => dv'[f] = dv[f]
    BY <1>1, <1>3, <1>5
  <1>8. dv[e].state # "NEW" /\ (conn[dv[e].conn].status = "DISCONNECTED" \/ conn[dv[e].conn].lease = 0)
    BY DEF BookByHand, Decidable
  <1>9. ASSUME NEW f \in Entries PROVE Told(f)'
    <2>1. Told(f)
      BY DEF IInv
    <2>2. CASE f # e
      BY <1>6, <1>7, <2>1, <2>2, ToldStays
    <2>3. CASE f = e
      BY <1>4, <1>6, <1>7, <1>8, <2>1, <2>3 DEF Told
    <2> QED BY <2>2, <2>3
  <1> QED BY <1>4, <1>6, <1>7, <1>8, <1>9, DecideStep

(* A person's "not in Fortnox" is of a connection cut off, and is           *)
(* remembered.                                                              *)
LEMMA NotInFortnoxOK ==
  ASSUME IInv, NEW e \in Entries, NotInFortnox(e)
  PROVE  IInv'
  <1>1. dv \in [Entries -> Delivery] /\ dv[e] \in Delivery /\ "QUEUED" \in States
    BY Types DEF States
  <1>2. PICK o : o = [dv[e] EXCEPT !.state = "QUEUED", !.next = 0, !.age = 0, !.denied = TRUE]
    OBVIOUS
  <1>3. o \in Delivery
    BY <1>1, <1>2, ConstantFacts, 0 \in Nat, Zenon DEF Delivery
  <1>4. o.state = "QUEUED" /\ o.conn = dv[e].conn /\ o.denied = TRUE
    BY <1>1, <1>2 DEF Delivery
  <1>5. dv' = [dv EXCEPT ![e] = o]
    BY <1>1, <1>2 DEF NotInFortnox
  <1>6. UNCHANGED <<conn, run, series, late, due, faults, slow>> /\ AsksKept
    BY DEF NotInFortnox, AsksKept
  <1>7. dv' \in [Entries -> Delivery] /\ dv'[e] = o /\ \A f \in Entries : f # e => dv'[f] = dv[f]
    BY <1>1, <1>3, <1>5
  <1>8. dv[e].state = "SENDING" /\ conn[dv[e].conn].status = "DISCONNECTED"
    BY DEF NotInFortnox
  <1>9. ASSUME NEW f \in Entries PROVE Told(f)'
    <2>1. Told(f)
      BY DEF IInv
    <2>2. CASE f # e
      BY <1>6, <1>7, <2>1, <2>2, ToldStays
    <2>3. CASE f = e
      <3>1. dv[e].conn # NoConn /\ dv[e].conn \in Conns
        <4>1. dv[e].conn \in Conns \cup {NoConn}
          BY <1>1, Zenon DEF Delivery
        <4> QED BY <1>8, <2>1, <2>3, <4>1 DEF Told
      <3> QED BY <1>4, <1>6, <1>7, <1>8, <2>3, <3>1 DEF Told
    <2> QED BY <2>2, <2>3
  <1> QED BY <1>4, <1>6, <1>7, <1>8, <1>9, DecideStep

(* A file is handed over only of a connection cut off.                      *)
LEMMA HandOverOK ==
  ASSUME IInv, NEW n, HandOver(n)
  PROVE  IInv'
  <1> DEFINE file == {e \in Entries : dv[e].file = n /\ dv[e].state = "QUEUED"}
             c    == dv[First(file)].conn
  <1>1. dv \in [Entries -> Delivery] /\ "DOWNLOADED" \in States
    BY Types DEF States
  <1>2. UNCHANGED <<conn, run, series, late, due, faults, slow>> /\ AsksKept
    BY DEF HandOver, AsksKept
  <1>3. dv' = [e \in Entries |-> IF e \in file THEN [dv[e] EXCEPT !.state = "DOWNLOADED"] ELSE dv[e]]
    BY DEF HandOver
  <1>4. ASSUME NEW e \in Entries, dv[e].state = "QUEUED"
        PROVE  LET o == [dv[e] EXCEPT !.state = "DOWNLOADED"]
               IN  o \in Delivery /\ o.state = "DOWNLOADED" /\ o.conn = dv[e].conn /\ o.denied = dv[e].denied
    <2>1. dv[e] \in Delivery
      BY <1>1
    <2>2. [dv[e] EXCEPT !.state = "DOWNLOADED"] \in Delivery
      BY <1>1, <2>1, Zenon DEF Delivery
    <2> QED BY <2>1, <2>2 DEF Delivery
  <1>5. \A e \in Entries : \/ e \notin file /\ dv'[e] = dv[e]
                           \/ e \in file /\ dv'[e] = [dv[e] EXCEPT !.state = "DOWNLOADED"]
    BY <1>3
  <1>6. dv' \in [Entries -> Delivery]
    BY <1>1, <1>3, <1>4
  <1>7. ASSUME NEW e \in Entries PROVE Told(e)'
    <2>1. Told(e)
      BY DEF IInv
    <2>2. CASE dv'[e] = dv[e]
      BY <1>2, <2>1, <2>2, ToldStays
    <2>3. CASE e \in file /\ dv'[e] = [dv[e] EXCEPT !.state = "DOWNLOADED"]
      <3>0. PICK o : o = [dv[e] EXCEPT !.state = "DOWNLOADED"]
        OBVIOUS
      <3>1. dv[e].state = "QUEUED" /\ dv'[e] = o
        BY <2>3, <3>0
      <3>2. o.state = "DOWNLOADED" /\ o.conn = dv[e].conn /\ o.denied = dv[e].denied
        BY <1>4, <3>0, <3>1
      <3>3. Clear(e) => Clear(e)'
        BY <1>2, ClearStays
      <3> QED BY <1>2, <2>1, <3>1, <3>2, <3>3 DEF Told
    <2> QED BY <1>5, <2>2, <2>3
  <1>8. ASSUME NEW e \in Entries
        PROVE  /\ dv[e].state # "NEW" => dv'[e].state # "NEW" /\ dv'[e].conn = dv[e].conn
               /\ dv'[e] # dv[e] => conn[dv[e].conn].status = "DISCONNECTED"
    <2>1. CASE dv'[e] = dv[e]
      BY <2>1
    <2>2. CASE e \in file /\ dv'[e] = [dv[e] EXCEPT !.state = "DOWNLOADED"]
      <3>0. PICK o : o = [dv[e] EXCEPT !.state = "DOWNLOADED"]
        OBVIOUS
      <3>1. dv[e].state = "QUEUED" /\ dv'[e] = o
        BY <2>2, <3>0
      <3>2. o.state = "DOWNLOADED" /\ o.conn = dv[e].conn
        BY <1>4, <3>0, <3>1
      <3>3. conn[dv[e].conn].status = "DISCONNECTED"
        BY <2>2 DEF HandOver
      <3> QED BY <3>1, <3>2, <3>3
    <2> QED BY <1>5, <2>1, <2>2
  <1> QED BY <1>2, <1>6, <1>7, <1>8, DecideStep

(* A voucher made in the series changes what is known of its entry only.    *)
LEMMA MadeSame ==
  ASSUME NEW v, series \in Seq(Entries \cup {Other}), v \in Entries \cup {Other},
         series' = Append(series, v), NEW e, NEW n, v # e
  PROVE  Made(e, n)' = Made(e, n)
  <1>1. /\ DOMAIN series' = 1 .. Len(series) + 1 /\ DOMAIN series = 1 .. Len(series)
        /\ \A i \in 1 .. Len(series) : series'[i] = series[i]
        /\ series'[Len(series) + 1] = v /\ Len(series) \in Nat
    OBVIOUS
  <1>2. Made(e, n)' = {i \in 1 .. Len(series) + 1 : i >= n /\ series'[i] = e}
    BY <1>1 DEF Made
  <1>3. Made(e, n) = {i \in 1 .. Len(series) : i >= n /\ series[i] = e}
    BY <1>1 DEF Made
  <1> QED BY <1>1, <1>2, <1>3

(* A first voucher of an entry is its only one.                             *)
LEMMA MadeOne ==
  ASSUME NEW v, series \in Seq(Entries \cup {Other}), v \in Entries \cup {Other},
         series' = Append(series, v), Made(v, 1) = {}
  PROVE  Made(v, 1)' = {Len(series) + 1}
  <1>1. /\ DOMAIN series' = 1 .. Len(series) + 1 /\ DOMAIN series = 1 .. Len(series)
        /\ \A i \in 1 .. Len(series) : series'[i] = series[i]
        /\ series'[Len(series) + 1] = v /\ Len(series) \in Nat
    OBVIOUS
  <1>2. Made(v, 1)' = {i \in 1 .. Len(series) + 1 : i >= 1 /\ series'[i] = v}
    BY <1>1 DEF Made
  <1>3. {} = {i \in 1 .. Len(series) : i >= 1 /\ series[i] = v}
    BY <1>1 DEF Made
  <1> QED BY <1>1, <1>2, <1>3

(* A voucher that is made is of an entry asked for once, or of somebody     *)
(* else.                                                                    *)
LEMMA AppendOK ==
  ASSUME IInv, NEW v, v \in Entries \cup {Other}, series' = Append(series, v),
         UNCHANGED <<dv, conn, run, due, faults, slow>>,
         late' \in [Entries -> 0 .. Landing],
         \A e \in Entries : IF v = e THEN late[e] > 0 /\ late'[e] = 0 ELSE late'[e] = late[e]
  PROVE  IInv'
  <1>1. series \in Seq(Entries \cup {Other}) /\ Len(series) \in Nat
    BY Types
  <1>2. Grows
    BY <1>1 DEF Grows
  <1>3. TypeOK'
    <2>1. series' \in Seq(Entries \cup {Other})
      BY <1>1
    <2> QED BY <2>1 DEF TypeOK, IInv
  <1>4. Len(series') = Len(series) + 1
    BY <1>1
  <1>5. \A q \in Runs : \A e : Asking(q, e)' <=> Asking(q, e)
    BY DEF Asking
  <1>6. ASSUME NEW e \in Entries, v # e
        PROVE  Made(e, 1)' = Made(e, 1) /\ (Clear(e)' <=> Clear(e))
    <2>1. Made(e, 1)' = Made(e, 1)
      BY <1>1, <1>6, MadeSame
    <2>2. late'[e] = late[e]
      BY <1>6
    <2>3. Clear(e)' <=> Clear(e)
      BY <1>5, <2>1, <2>2 DEF Clear
    <2> QED BY <2>1, <2>3
  <1>7. ASSUME NEW e \in Entries PROVE Told(e)' /\ Single(e)'
    <2>1. Told(e) /\ Single(e)
      BY DEF IInv
    <2>2. CASE v # e
      <3>1. Single(e)'
        BY <1>5, <1>6, <2>1, <2>2 DEF Single
      <3>2. Told(e)'
        <4>1. late'[e] = late[e]
          BY <2>2
        <4>2. (dv[e].state \in {"NEW", "QUEUED", "DOWNLOADED"} /\ ~dv[e].denied => Clear(e)')
          BY <1>6, <2>1, <2>2 DEF Told
        <4>3. ASSUME dv[e].state = "SENDING"
              PROVE  /\ dv[e].next \in 1 .. Len(series') + 1
                     /\ \A i \in Made(e, 1)' : i >= dv[e].next
                     /\ late'[e] > 0 => dv[e].age + late'[e] <= Budget + Landing
                     /\ \A r \in Runs : Asking(r, e)' => dv[e].age + run[r].left <= Budget
          BY <1>1, <1>4, <1>5, <1>6, <2>1, <2>2, <4>1, <4>3 DEF Told
        <4>4. dv[e].state \in {"BOOKED", "DONE"} => dv[e].number \in DOMAIN series' /\ series'[dv[e].number] = e
          BY <1>2, <2>1 DEF Told, Grows
        <4> QED BY <2>1, <4>2, <4>3, <4>4 DEF Told
      <3> QED BY <3>1, <3>2
    <2>3. CASE v = e
      <3>1. Made(e, 1) = {} /\ Made(e, 1)' = {Len(series) + 1}
        BY <1>1, <2>1, <2>3, MadeOne DEF Single
      <3>2. \A r \in Runs : ~Asking(r, e)
        BY <2>1, <2>3 DEF Single
      <3>3. late'[e] = 0 /\ ~Clear(e)
        BY <2>3 DEF Clear
      <3>4. Single(e)'
        BY <1>5, <3>1, <3>2, <3>3 DEF Single
      <3>5. ASSUME dv[e].state = "SENDING"
            PROVE  /\ dv[e].next \in 1 .. Len(series') + 1
                   /\ \A i \in Made(e, 1)' : i >= dv[e].next
        BY <1>1, <1>4, <2>1, <3>1, <3>5 DEF Told
      <3>6. dv[e].state \in {"BOOKED", "DONE"} => dv[e].number \in DOMAIN series' /\ series'[dv[e].number] = e
        BY <1>2, <2>1 DEF Told, Grows
      <3> QED BY <1>5, <2>1, <3>2, <3>3, <3>4, <3>5, <3>6 DEF Told
    <2> QED BY <2>2, <2>3
  <1>8. \A e \in Entries : Clear(e) => Clear(e)'
    BY <1>6 DEF Clear
  <1>9. \A q \in Runs : Holds(q)' => Holds(q)
    BY DEF Holds
  <1>10. \A q \in Runs, e \in Entries : dv'[e] = dv[e] /\ (Clear(e) => Clear(e)')
    BY <1>8
  <1> QED BY <1>2, <1>3, <1>7, <1>9, <1>10, WorldStep

(* A request that lands is the only one of its entry.                       *)
LEMMA LandOK ==
  ASSUME IInv, NEW e \in Entries, Land(e)
  PROVE  IInv'
  <1>1. late \in [Entries -> 0 .. Landing] /\ 0 \in 0 .. Landing
    BY Types, ConstantFacts
  <1>2. late' = [late EXCEPT ![e] = 0] /\ late[e] > 0
    BY DEF Land
  <1>3. late' \in [Entries -> 0 .. Landing]
    BY <1>1, <1>2
  <1>4. \A f \in Entries : IF e = f THEN late[f] > 0 /\ late'[f] = 0 ELSE late'[f] = late[f]
    BY <1>1, <1>2
  <1> QED BY <1>3, <1>4, AppendOK DEF Land

(* Somebody else's voucher is nobody's here.                                *)
LEMMA OtherVoucherOK ==
  ASSUME IInv, OtherVoucher
  PROVE  IInv'
  <1>1. \A f \in Entries : Other # f
    BY ConstantFacts
  <1>2. late' \in [Entries -> 0 .. Landing]
    BY Types DEF OtherVoucher
  <1> QED BY <1>1, <1>2, AppendOK DEF OtherVoucher

(* A new entry of the books is in no line yet.                              *)
LEMMA NewEntryOK ==
  ASSUME IInv, NewEntry
  PROVE  IInv'
  <1>1. UNCHANGED <<dv, conn, run, series, late, faults, slow>> /\ AsksKept /\ Grows
    BY SameSeries DEF NewEntry, AsksKept
  <1>2. TypeOK'
    <2>0. LastEntry \in Nat
      BY FortnoxAssumption
    <2>1. due' \in 0 .. LastEntry
      BY <2>0, Types DEF NewEntry
    <2>2. /\ dv' \in [Entries -> Delivery] /\ conn' \in [Conns -> Connection] /\ run' \in [Runs -> Run]
          /\ series' \in Seq(Entries \cup {Other}) /\ late' \in [Entries -> 0 .. Landing]
          /\ faults' \in 0 .. MaxFaults /\ slow' \in 0 .. MaxSlow
      BY Types DEF NewEntry
    <2> QED BY <2>1, <2>2 DEF TypeOK
  <1>3. ASSUME NEW e \in Entries PROVE Told(e)' /\ Single(e)' /\ (Clear(e) => Clear(e)')
    BY <1>1, ToldStays, SingleStays, ClearStays DEF IInv
  <1>4. \A q \in Runs : Holds(q)' => Holds(q)
    BY <1>1 DEF Holds
  <1> QED BY <1>1, <1>2, <1>3, <1>4, WorldStep

(* Tick takes one from what is left of a count, to zero and no further.     *)
LEMMA Lessened ==
  ASSUME NEW n \in Nat, NEW m \in Nat, n <= m
  PROVE  Less(n) \in 0 .. m /\ Less(n) <= n /\ (Less(n) > 0 => n > 0 /\ Less(n) = n - 1) /\ (n = 0 => Less(n) = 0)
  BY DEF Less

(* What the passing of time changes, field by field.                         *)
LEMMA TickTypes ==
  ASSUME IInv, Tick
  PROVE  /\ TypeOK'
         /\ \A e \in Entries : /\ dv'[e].state = dv[e].state /\ dv'[e].conn = dv[e].conn
                               /\ dv'[e].next = dv[e].next /\ dv'[e].number = dv[e].number
                               /\ dv'[e].denied = dv[e].denied
                               /\ dv'[e].age >= dv[e].age
                               /\ dv'[e].age = dv[e].age \/ dv'[e].age = dv[e].age + 1
         /\ \A c \in Conns : /\ conn'[c].status = conn[c].status /\ conn'[c].holder = conn[c].holder
                             /\ conn'[c].lease > 0 => conn[c].lease > 0
         /\ \A r \in Runs : run'[r] = [run[r] EXCEPT !.left = Less(@)] /\ run'[r] \in Run
  <1>1. /\ dv \in [Entries -> Delivery] /\ conn \in [Conns -> Connection] /\ run \in [Runs -> Run]
        /\ series \in Seq(Entries \cup {Other}) /\ late \in [Entries -> 0 .. Landing]
        /\ due \in 0 .. LastEntry /\ faults \in 0 .. MaxFaults /\ slow \in 0 .. MaxSlow
    BY Types
  <1>2. late' \in [Entries -> 0 .. Landing]
    <2>1. \A e \in Entries : Less(late[e]) \in 0 .. Landing
      BY <1>1, ConstantFacts, Lessened
    <2> QED BY <2>1 DEF Tick
  <1>3. slow' \in 0 .. MaxSlow /\ UNCHANGED <<series, due, faults>>
    BY <1>1, ConstantFacts, SMTT(30) DEF Tick
  <1>4. ASSUME NEW e \in Entries, NEW o, o = [dv[e] EXCEPT !.age = @ + 1], dv[e].age < Unsure
        PROVE  /\ o \in Delivery /\ o.state = dv[e].state /\ o.conn = dv[e].conn /\ o.next = dv[e].next
               /\ o.number = dv[e].number /\ o.denied = dv[e].denied /\ o.age = dv[e].age + 1
    <2>1. dv[e] \in Delivery /\ dv[e].age \in 0 .. Unsure
      BY <1>1 DEF Delivery
    <2>2. dv[e].age + 1 \in 0 .. Unsure
      BY <1>4, <2>1, ConstantFacts
    <2>3. o \in Delivery
      BY <1>4, <2>1, <2>2, Zenon DEF Delivery
    <2> QED BY <1>4, <2>1, <2>3 DEF Delivery
  <1>5. ASSUME NEW e \in Entries
        PROVE  /\ dv'[e] \in Delivery
               /\ dv'[e].state = dv[e].state /\ dv'[e].conn = dv[e].conn
               /\ dv'[e].next = dv[e].next /\ dv'[e].number = dv[e].number
               /\ dv'[e].denied = dv[e].denied
               /\ dv'[e].age >= dv[e].age
               /\ dv'[e].age = dv[e].age \/ dv'[e].age = dv[e].age + 1
    <2>0. dv[e] \in Delivery /\ dv[e].age \in 0 .. Unsure
      BY <1>1 DEF Delivery
    <2>1. CASE dv[e].state = "SENDING" /\ dv[e].age < Unsure
      <3>1. PICK o : o = [dv[e] EXCEPT !.age = @ + 1]
        OBVIOUS
      <3>2. dv'[e] = o
        BY <2>1, <3>1 DEF Tick
      <3> QED BY <1>4, <2>0, <2>1, <3>1, <3>2, ConstantFacts
    <2>2. CASE ~(dv[e].state = "SENDING" /\ dv[e].age < Unsure)
      <3>1. dv'[e] = dv[e]
        BY <2>2 DEF Tick
      <3> QED BY <2>0, <3>1, ConstantFacts
    <2> QED BY <2>1, <2>2
  <1>6. ASSUME NEW c \in Conns
        PROVE  /\ conn'[c] \in Connection /\ conn'[c].status = conn[c].status
               /\ conn'[c].holder = conn[c].holder /\ (conn'[c].lease > 0 => conn[c].lease > 0)
    <2>1. conn[c] \in Connection /\ conn[c].lease \in 0 .. Lease
      BY <1>1 DEF Connection
    <2>2. PICK n : n = Less(conn[c].lease)
      OBVIOUS
    <2>3. n \in 0 .. Lease /\ (n > 0 => conn[c].lease > 0)
      BY <2>1, <2>2, ConstantFacts, Lessened
    <2>4. conn'[c] = [conn[c] EXCEPT !.lease = n]
      BY <2>2 DEF Tick
    <2>5. conn'[c] \in Connection
      BY <2>1, <2>3, <2>4, Zenon DEF Connection
    <2>6. conn'[c].lease = n /\ conn'[c].status = conn[c].status /\ conn'[c].holder = conn[c].holder
      BY <2>1, <2>4 DEF Connection
    <2> QED BY <2>3, <2>5, <2>6
  <1>7. ASSUME NEW r \in Runs
        PROVE  run'[r] = [run[r] EXCEPT !.left = Less(@)] /\ run'[r] \in Run
    <2>1. run[r] \in Run /\ run[r].left \in 0 .. Budget
      BY <1>1 DEF Run
    <2>2. PICK n : n = Less(run[r].left)
      OBVIOUS
    <2>3. n \in 0 .. Budget
      BY <2>1, <2>2, ConstantFacts, Lessened
    <2>4. run'[r] = [run[r] EXCEPT !.left = n]
      BY <2>2 DEF Tick
    <2>5. run'[r] \in Run
      BY <2>1, <2>3, <2>4, ZenonT(40) DEF Run
    <2> QED BY <2>5 DEF Tick
  <1>8. dv' \in [Entries -> Delivery] /\ conn' \in [Conns -> Connection] /\ run' \in [Runs -> Run]
    <2>1. /\ dv' = [e \in Entries |->
                     IF dv[e].state = "SENDING" /\ dv[e].age < Unsure THEN [dv[e] EXCEPT !.age = @ + 1] ELSE dv[e]]
          /\ conn' = [c \in Conns |-> [conn[c] EXCEPT !.lease = Less(@)]]
          /\ run' = [r \in Runs |-> [run[r] EXCEPT !.left = Less(@)]]
      BY DEF Tick
    <2>2. \A e \in Entries : dv'[e] \in Delivery
      BY <1>5
    <2>3. \A c \in Conns : conn'[c] \in Connection
      BY <1>6
    <2>4. \A r \in Runs : run'[r] \in Run
      BY <1>7
    <2> QED BY <2>1, <2>2, <2>3, <2>4
  <1>9. TypeOK'
    BY <1>1, <1>2, <1>3, <1>8 DEF TypeOK
  <1> QED BY <1>5, <1>6, <1>7, <1>9

(* Time takes from a request under way and from its run what it adds to the *)
(* entry's age.                                                             *)
LEMMA TickOK ==
  ASSUME IInv, Tick
  PROVE  IInv'
  <1>1. series' = series /\ Grows
    BY SameSeries DEF Tick
  <1>2. \A e \in Entries : late[e] \in Nat /\ late'[e] = Less(late[e])
    BY Types DEF Tick
  <1>3. \A e \in Entries : /\ late[e] \in Nat /\ late'[e] \in Nat
                           /\ (late'[e] > 0 => late[e] > 0 /\ late'[e] = late[e] - 1)
                           /\ (late[e] = 0 => late'[e] = 0)
    BY <1>2, Lessened
  <1>4. ASSUME NEW r \in Runs
        PROVE  /\ run'[r].pc = run[r].pc /\ run'[r].conn = run[r].conn /\ run'[r].at = run[r].at
               /\ run'[r].seen = run[r].seen /\ run'[r].then = run[r].then
               /\ Todo(run'[r]) = Todo(run[r]) /\ Cur(run'[r]) = Cur(run[r])
               /\ run[r].left \in Nat /\ (run'[r].left > 0 => run[r].left > 0 /\ run'[r].left = run[r].left - 1)
    <2>1. run[r] \in Run /\ run[r].left \in Nat
      BY Types, ConstantFacts DEF Run
    <2>2. run'[r] = [run[r] EXCEPT !.left = Less(@)]
      BY TickTypes
    <2>3. /\ run'[r].pc = run[r].pc /\ run'[r].conn = run[r].conn /\ run'[r].at = run[r].at
          /\ run'[r].seen = run[r].seen /\ run'[r].then = run[r].then /\ run'[r].left = Less(run[r].left)
      BY <2>1, <2>2 DEF Run
    <2>4. Todo(run'[r]) = Todo(run[r])
      BY <2>3 DEF Todo
    <2>5. Cur(run'[r]) = Cur(run[r])
      BY <2>4 DEF Cur
    <2> QED BY <2>1, <2>3, <2>4, <2>5, Lessened
  <1>5. \A r \in Runs : \A e : Asking(r, e)' => Asking(r, e) /\ run'[r].left = run[r].left - 1
    BY <1>4 DEF Asking
  <1>6. \A e : Made(e, 1)' = Made(e, 1)
    BY <1>1 DEF Made
  <1>7. ASSUME NEW e \in Entries, Clear(e) PROVE Clear(e)'
    <2>1. late'[e] = 0 /\ Made(e, 1)' = {}
      BY <1>3, <1>6, <1>7 DEF Clear
    <2> QED BY <1>5, <1>7, <2>1 DEF Clear
  <1>8. \A q \in Runs : Holds(q)' => Holds(q) \/ run[q].pc = "idle"
    BY <1>4, TickTypes DEF IInv, Shaped, Holds
  <1>9. ASSUME NEW e \in Entries PROVE Told(e)'
    <2>1. Told(e) /\ dv[e] \in Delivery /\ dv[e].age \in Nat
      BY Types, ConstantFacts DEF IInv, Delivery
    <2>2. /\ dv'[e].state = dv[e].state /\ dv'[e].conn = dv[e].conn /\ dv'[e].next = dv[e].next
          /\ dv'[e].number = dv[e].number /\ dv'[e].denied = dv[e].denied
          /\ dv'[e].age = dv[e].age \/ dv'[e].age = dv[e].age + 1
      BY TickTypes
    <2>3. dv'[e].denied => dv'[e].conn \in Conns /\ conn'[dv'[e].conn].status = "DISCONNECTED"
      BY <2>1, <2>2, TickTypes DEF Told
    <2>4. ASSUME dv[e].state = "SENDING", late'[e] > 0
          PROVE  dv'[e].age + late'[e] <= Budget + Landing
      <3>1. late[e] > 0 /\ late'[e] = late[e] - 1 /\ late[e] \in Nat
        BY <1>3, <2>4
      <3>2. dv[e].age + late[e] <= Budget + Landing
        BY <2>1, <2>4, <3>1 DEF Told
      <3> QED BY <2>1, <2>2, <3>1, <3>2, ConstantFacts
    <2>5. ASSUME dv[e].state = "SENDING", NEW r \in Runs, Asking(r, e)'
          PROVE  dv'[e].age + run'[r].left <= Budget
      <3>1. Asking(r, e) /\ run'[r].left = run[r].left - 1 /\ run[r].left \in Nat
        BY <1>4, <1>5, <2>5
      <3>2. dv[e].age + run[r].left <= Budget
        BY <2>1, <2>5, <3>1 DEF Told
      <3> QED BY <2>1, <2>2, <3>1, <3>2, ConstantFacts
    <2> QED BY <1>1, <1>6, <1>7, <2>1, <2>2, <2>3, <2>4, <2>5 DEF Told
  <1>10. ASSUME NEW e \in Entries PROVE Single(e)'
    BY <1>3, <1>5, <1>6 DEF IInv, Single
  <1>11. ASSUME NEW r \in Runs PROVE Shaped(run'[r])
    BY <1>4, TickTypes DEF IInv, Shaped
  <1>12. ASSUME NEW r \in Runs PROVE Reading(r)'
    <2>0. PICK x, y : x = run[r] /\ y = run'[r]
      OBVIOUS
    <2>1. Reading(r) /\ Shaped(x) /\ x \in Run
      BY <2>0, Types DEF IInv
    <2>2. /\ y.pc = x.pc /\ y.conn = x.conn /\ y.at = x.at
          /\ y.seen = x.seen /\ Todo(y) = Todo(x) /\ Cur(y) = Cur(x)
      BY <1>4, <2>0
    <2>3. \A e \in Todo(y) : e \in Entries
      BY DEF Todo
    <2>4. \A e \in Todo(y) : dv'[e].state # "NEW" /\ dv'[e].conn = y.conn
      BY <2>0, <2>1, <2>2, <2>3, TickTypes DEF Reading
    <2>5. ASSUME y.pc # "idle", Holds(r)', NEW e \in Todo(y),
                 y.seen[e].state = "SENDING", e # Cur(y) \/ y.pc \in {"book", "reconcile"}
          PROVE  Fresh(y, e)'
      <3>1. Fresh(x, e)
        BY <1>8, <2>0, <2>1, <2>2, <2>5 DEF Reading
      <3>2. e \in Entries /\ dv[e].age \in Nat /\ x.seen[e].age \in Nat
        <4>1. e \in Entries
          BY <2>3, <2>5
        <4>2. x.seen \in [Entries -> Delivery]
          BY <2>1 DEF Run
        <4>3. x.seen[e] \in Delivery /\ dv[e] \in Delivery
          BY <4>1, <4>2, Types
        <4> QED BY <4>1, <4>3, ConstantFacts DEF Delivery
      <3>3. dv'[e].state = dv[e].state /\ dv'[e].next = dv[e].next
            /\ (dv'[e].age = dv[e].age \/ dv'[e].age = dv[e].age + 1)
        BY <3>2, TickTypes
      <3> QED BY <2>2, <3>1, <3>2, <3>3 DEF Fresh
    <2>6. ASSUME Holds(r)', y.pc = "requeue", dv'[Cur(y)].state = "SENDING"
          PROVE  Clear(Cur(y))'
      <3>1. PICK e : e = Cur(y)
        OBVIOUS
      <3>2. e \in Todo(y) /\ e \in Entries
        BY <2>1, <2>2, <2>3, <2>6, <3>1, Current DEF Shaped, Busy
      <3>3. dv[e].state = "SENDING"
        BY <2>6, <3>1, <3>2, TickTypes
      <3>4. Clear(e)
        BY <1>8, <2>0, <2>1, <2>2, <2>6, <3>1, <3>3 DEF Reading
      <3>5. Clear(e)'
        BY <1>7, <3>2, <3>4
      <3> QED BY <3>1, <3>5
    <2>7. /\ y.pc = "claim" => Todo(y) = {}
          /\ y.pc = "intent" => y.at \in 1 .. Len(series') + 1
          /\ y.pc = "booked" => y.at \in DOMAIN series' /\ series'[y.at] = Cur(y)
          /\ y.pc = "reconcile" => y.seen[Cur(y)].state = "SENDING" /\ y.seen[Cur(y)].age >= Unsure
      BY <1>1, <2>0, <2>1, <2>2 DEF Reading
    <2> QED BY <2>0, <2>4, <2>5, <2>6, <2>7 DEF Reading
  <1> QED BY <1>9, <1>10, <1>11, <1>12, TickTypes DEF IInv

(* After a day without a run nothing is under way, so every age is safe.    *)
LEMMA DayPassesOK ==
  ASSUME IInv, DayPasses
  PROVE  IInv'
  <1>1. UNCHANGED <<run, series, late, due, faults, slow>> /\ AsksKept /\ Grows
    BY SameSeries DEF DayPasses, AsksKept
  <1>2. (\A r \in Runs : run[r].pc = "idle") /\ (\A e \in Entries : late[e] = 0)
    BY DEF DayPasses, Under
  <1>3. ASSUME NEW e \in Entries
        PROVE  /\ dv'[e] \in Delivery /\ dv'[e].state = dv[e].state /\ dv'[e].conn = dv[e].conn
               /\ dv'[e].next = dv[e].next /\ dv'[e].number = dv[e].number /\ dv'[e].denied = dv[e].denied
    <2>1. dv[e] \in Delivery /\ Unsure \in 0 .. Unsure
      BY Types, ConstantFacts
    <2>2. CASE dv[e].state = "SENDING"
      <3>1. PICK o : o = [dv[e] EXCEPT !.age = Unsure]
        OBVIOUS
      <3>2. o \in Delivery
        BY <2>1, <3>1, Zenon DEF Delivery
      <3>3. dv'[e] = o
        BY <2>2, <3>1 DEF DayPasses
      <3> QED BY <2>1, <3>1, <3>2, <3>3 DEF Delivery
    <2>3. CASE dv[e].state = "BOOKED"
      <3>1. PICK o : o = [dv[e] EXCEPT !.old = TRUE]
        OBVIOUS
      <3>2. o \in Delivery
        BY <2>1, <3>1, Zenon DEF Delivery
      <3>3. dv'[e] = o
        BY <2>3, <3>1 DEF DayPasses
      <3> QED BY <2>1, <3>1, <3>2, <3>3 DEF Delivery
    <2>4. CASE dv[e].state \notin {"SENDING", "BOOKED"}
      <3>1. dv'[e] = dv[e]
        BY <2>4 DEF DayPasses
      <3> QED BY <2>1, <3>1
    <2> QED BY <2>2, <2>3, <2>4
  <1>4. ASSUME NEW c \in Conns PROVE conn'[c] \in Connection /\ conn'[c].status = conn[c].status
    <2>1. conn[c] \in Connection
      BY Types
    <2>2. PICK d : d = [conn[c] EXCEPT !.lease = 0, !.night = FALSE, !.reached = FALSE]
      OBVIOUS
    <2>3. d \in Connection
      BY <2>1, <2>2, ConstantFacts, Zenon DEF Connection
    <2>4. d.status = conn[c].status
      BY <2>1, <2>2 DEF Connection
    <2>5. conn'[c] = d \/ conn'[c] = conn[c]
      BY <2>2 DEF DayPasses
    <2> QED BY <2>1, <2>3, <2>4, <2>5
  <1>5. TypeOK'
    <2>1. dv' \in [Entries -> Delivery]
      <3>1. PICK A : dv' = [e \in Entries |-> A[e]]
        <4> DEFINE B == [e \in Entries |->
                           CASE dv[e].state = "SENDING" -> [dv[e] EXCEPT !.age = Unsure]
                             [] dv[e].state = "BOOKED"  -> [dv[e] EXCEPT !.old = TRUE]
                             [] OTHER -> dv[e]]
        <4>1. dv' = B
          BY DEF DayPasses
        <4>2. dv' = [e \in Entries |-> dv'[e]]
          BY <4>1
        <4> QED BY <4>2
      <3> QED BY <1>3, <3>1
    <2>2. conn' \in [Conns -> Connection]
      <3>1. conn' = [c \in Conns |-> conn'[c]]
        BY DEF DayPasses
      <3> QED BY <1>4, <3>1
    <2> QED BY <1>1, <2>1, <2>2, Types DEF TypeOK
  <1>6. \A e : Made(e, 1)' = Made(e, 1) /\ \A r \in Runs : ~Asking(r, e) /\ ~Asking(r, e)'
    BY <1>1, <1>2 DEF Made, Asking
  <1>7. \A e \in Entries : late'[e] = 0
    BY <1>1, <1>2
  <1>8. ASSUME NEW e \in Entries PROVE Told(e)' /\ Single(e)'
    <2>1. Told(e) /\ Single(e)
      BY DEF IInv
    <2>2. Single(e)'
      BY <1>6, <1>7, <2>1 DEF Single
    <2>3. Clear(e) => Clear(e)'
      BY <1>6, <1>7 DEF Clear
    <2>4. dv'[e].denied => dv'[e].conn \in Conns /\ conn'[dv'[e].conn].status = "DISCONNECTED"
      BY <1>3, <1>4, <2>1 DEF Told
    <2> QED BY <1>1, <1>3, <1>6, <1>7, <2>1, <2>2, <2>3, <2>4 DEF Told
  <1>9. \A e \in Entries : dv[e].state # "NEW" => dv'[e].state # "NEW" /\ dv'[e].conn = dv[e].conn
    BY <1>3
  <1> QED BY <1>1, <1>2, <1>5, <1>8, <1>9, WorldStep

-----------------------------------------------------------------------------
(* Every step *)

(* At the start nothing is asked for and no run has anything before it.     *)
LEMMA InitOK == Init => IInv
  <1> SUFFICES ASSUME Init PROVE IInv
    OBVIOUS
  <1>1. NoDelivery \in Delivery /\ NoConnection \in Connection /\ NewRun \in Run
    BY Beginnings
  <1>2. TypeOK
    BY <1>1, ConstantFacts, FortnoxAssumption DEF Init, Nothing, TypeOK
  <1>3. \A r \in Runs : run[r] = NewRun
    BY DEF Init
  <1>4. Todo(NewRun) = {} /\ NewRun.pc = "idle"
    BY DEF Todo, NewRun, Nothing, NoDelivery
  <1>5. ASSUME NEW r \in Runs PROVE Shaped(run[r]) /\ Reading(r)
    BY <1>1, <1>3, <1>4 DEF Shaped, Reading, Busy
  <1>6. ASSUME NEW e \in Entries PROVE Told(e) /\ Single(e)
    <2>1. Made(e, 1) = {} /\ late[e] = 0 /\ dv[e] = NoDelivery /\ \A r \in Runs : ~Asking(r, e)
      BY <1>3, <1>4 DEF Init, Made, Asking, Nothing
    <2> QED BY <2>1 DEF Told, Single, Clear, NoDelivery
  <1> QED BY <1>2, <1>5, <1>6 DEF IInv

(* Every step of the system keeps the invariant.                            *)
LEMMA StepOK == IInv /\ WithinScan /\ [Next]_vars => IInv'
  <1> SUFFICES ASSUME IInv, WithinScan, [Next]_vars PROVE IInv'
    OBVIOUS
  <1>1. ASSUME NEW r \in Runs, Advance(r) PROVE IInv'
    BY <1>1, ClaimOK, HelloOK, ReadLineOK, BookOK, ReconcileOK, RequeueOK, SendOK, IntentOK, AskOK,
       AnswerOK, WriteBookedOK, ReadOwedOK, NextOwedOK, AttachPdfOK, KeepMarkOK, ConnectFileOK,
       WriteDoneOK, NightOK, NightFileOK, CloseNightOK, SettleOK, WriteStateOK, ReleaseOK
       DEF Advance
  <1>2. ASSUME NEW r \in Runs, Start(r) \/ Throw(r) \/ Crash(r) PROVE IInv'
    BY <1>2, StartOK, ThrowOK, CrashOK
  <1>3. ASSUME NEW c \in Conns, Person(c) PROVE IInv'
    BY <1>3, PersonOK
  <1>4. ASSUME NEW e \in Entries, BookByHand(e) \/ NotInFortnox(e) \/ Land(e) PROVE IInv'
    BY <1>4, BookByHandOK, NotInFortnoxOK, LandOK
  <1>5. ASSUME NEW e \in Entries, HandOver(dv[e].file) PROVE IInv'
    <2>1. PICK n : n = dv[e].file
      OBVIOUS
    <2> QED BY <1>5, <2>1, HandOverOK
  <1>6. CASE OtherVoucher \/ NewEntry \/ Tick \/ DayPasses
    BY <1>6, OtherVoucherOK, NewEntryOK, TickOK, DayPassesOK
  <1>7. CASE UNCHANGED vars
    <2>1. UNCHANGED <<dv, conn, run, series, late, due, faults, slow>> /\ AsksKept /\ Grows
      BY <1>7, SameSeries DEF vars, AsksKept
    <2>2. ASSUME NEW e \in Entries PROVE Told(e)' /\ Single(e)' /\ (Clear(e) => Clear(e)')
      BY <2>1, ToldStays, SingleStays, ClearStays DEF IInv
    <2>3. (\A q \in Runs : Holds(q)' => Holds(q)) /\ TypeOK'
      BY <2>1, Types DEF Holds, TypeOK
    <2> QED BY <2>1, <2>2, <2>3, WorldStep
  <1> QED BY <1>1, <1>2, <1>3, <1>4, <1>5, <1>6, <1>7 DEF Next

(* The invariant says what the runs check.                                  *)
LEMMA IInvMeans == IInv => TypeOK /\ OneVoucher /\ VouchersAccounted
  <1> SUFFICES ASSUME IInv PROVE TypeOK /\ OneVoucher /\ VouchersAccounted
    OBVIOUS
  <1>1. series \in Seq(Entries \cup {Other}) /\ dv \in [Entries -> Delivery]
    BY Types
  <1>2. \A i \in DOMAIN series : i \in Nat /\ i >= 1 /\ (series[i] # Other => series[i] \in Entries)
    BY <1>1
  <1>3. \A i \in DOMAIN series : i \in Made(series[i], 1)
    BY <1>2 DEF Made
  <1>4. OneVoucher
    BY <1>2, <1>3 DEF OneVoucher, IInv, Single
  <1>5. ASSUME NEW i \in DOMAIN series, series[i] # Other, ~dv[series[i]].denied
        PROVE  dv[series[i]].state \in {"SENDING", "BOOKED", "DONE", "BY_HAND"}
    <2>1. PICK e \in Entries : e = series[i]
      BY <1>2, <1>5
    <2>2. ~Clear(e)
      BY <1>3, <2>1 DEF Clear
    <2>3. dv[e].state \in States
      BY <1>1 DEF Delivery
    <2>4. dv[e].state \notin {"NEW", "QUEUED", "DOWNLOADED"}
      BY <1>5, <2>1, <2>2 DEF IInv, Told
    <2> QED BY <2>1, <2>3, <2>4 DEF States
  <1>6. VouchersAccounted
    BY <1>5 DEF VouchersAccounted, IInv, Told
  <1> QED BY <1>4, <1>6 DEF IInv

-----------------------------------------------------------------------------
(* Who moves a connection *)

(* A connection not made yet was never consented to, and a stop has broken  *)
(* its connection.                                                          *)
Steady(d) ==
  /\ d.status = "NONE" => d.attempt = 0 /\ d.stop = NoStop
  /\ d.status = "ACTIVE" => d.stop = NoStop

(* What a step may make of a connection's state: nothing, or one of four.   *)
Moves(c) ==
  LET d == conn[c] IN
  \/ conn'[c].status = d.status /\ conn'[c].stop = d.stop /\ conn'[c].attempt = d.attempt
  \/ d.status = "NONE" /\ conn'[c].status = "ACTIVE" /\ conn'[c].stop = d.stop /\ conn'[c].attempt = 1
  \/ conn'[c].status = "ACTIVE" /\ conn'[c].stop = NoStop /\ conn'[c].attempt = d.attempt + 1
  \/ conn'[c].status = "DISCONNECTED"
  \/ \E r \in Runs : /\ run[r].pc = "state" /\ run[r].conn = c /\ conn'[c] = Settled(run[r])
                     /\ run'[r] = [run[r] EXCEPT !.pc = "release"]

(* Every step leaves a connection's state, or moves it in one of the four   *)
(* ways.                                                                    *)
LEMMA Moved ==
  ASSUME IInv, [Next]_vars, NEW c \in Conns
  PROVE  Moves(c)
  <1>1. conn \in [Conns -> Connection] /\ conn[c] \in Connection
    BY Types
  <1>2. ASSUME NEW r \in Runs, WriteState(r) PROVE Moves(c)
    <2>1. run \in [Runs -> Run]
      BY Types
    <2>2. CASE UNCHANGED conn
      BY <2>2 DEF Moves
    <2>3. CASE conn' = [conn EXCEPT ![run[r].conn] = Settled(run[r])]
      <3>1. run'[r] = [run[r] EXCEPT !.pc = "release"] /\ run[r].pc = "state"
        BY <1>2, <2>1 DEF WriteState, Set
      <3>2. CASE run[r].conn = c
        BY <1>1, <2>3, <3>1, <3>2 DEF Moves
      <3>3. CASE run[r].conn # c
        BY <1>1, <2>3, <3>3 DEF Moves
      <3> QED BY <3>2, <3>3
    <2> QED BY <1>2, <2>2, <2>3 DEF WriteState
  <1>3. ASSUME NEW b, NEW d, conn' = [conn EXCEPT ![b] = d],
               d.status = conn[b].status /\ d.stop = conn[b].stop /\ d.attempt = conn[b].attempt
        PROVE  Moves(c)
    BY <1>1, <1>3 DEF Moves
  <1>4. ASSUME NEW b \in Conns, NEW d,
               \/ d = [conn[b] EXCEPT !.lease = 0, !.holder = NoRun]
               \/ \E r : d = [conn[b] EXCEPT !.lease = Lease, !.holder = r]
               \/ d = [conn[b] EXCEPT !.night = TRUE]
               \/ \E n : d = [conn[b] EXCEPT !.lease = n]
               \/ d = [conn[b] EXCEPT !.lease = 0, !.night = FALSE, !.reached = FALSE]
        PROVE  d.status = conn[b].status /\ d.stop = conn[b].stop /\ d.attempt = conn[b].attempt
    <2>1. conn[b] \in Connection
      BY <1>1
    <2> QED BY <1>4, <2>1 DEF Connection
  <1>5. ASSUME NEW r \in Runs, Claim(r) \/ Release(r) \/ CloseNight(r) PROVE Moves(c)
    <2>1. PICK b : b = run[r].conn
      OBVIOUS
    <2>2. run[r].pc # "idle"
      BY <1>5 DEF Claim, Release, CloseNight
    <2>3. b \in Conns /\ b = run[r].conn
      BY <2>1, <2>2, RunFacts
    <2>4. CASE UNCHANGED conn
      BY <2>4 DEF Moves
    <2>5. CASE conn' = [conn EXCEPT ![b].lease = Lease, ![b].holder = r]
      <3>1. PICK d : d = [conn[b] EXCEPT !.lease = Lease, !.holder = r]
        OBVIOUS
      <3>2. conn' = [conn EXCEPT ![b] = d]
        BY <1>1, <2>3, <2>5, <3>1
      <3>3. d.status = conn[b].status /\ d.stop = conn[b].stop /\ d.attempt = conn[b].attempt
        BY <1>4, <2>3, <3>1
      <3> QED BY <1>3, <3>2, <3>3
    <2>6. CASE conn' = [conn EXCEPT ![b].lease = 0, ![b].holder = NoRun]
      <3>1. PICK d : d = [conn[b] EXCEPT !.lease = 0, !.holder = NoRun]
        OBVIOUS
      <3>2. conn' = [conn EXCEPT ![b] = d]
        BY <1>1, <2>3, <2>6, <3>1
      <3>3. d.status = conn[b].status /\ d.stop = conn[b].stop /\ d.attempt = conn[b].attempt
        BY <1>4, <2>3, <3>1
      <3> QED BY <1>3, <3>2, <3>3
    <2>7. CASE conn' = [conn EXCEPT ![b].night = TRUE]
      BY <1>1, <1>3, <1>4, <2>3, <2>7
    <2> QED BY <1>5, <2>3, <2>4, <2>5, <2>6, <2>7 DEF Claim, Release, CloseNight
  <1>6. CASE Tick \/ DayPasses
    <2>1. \/ conn'[c] = conn[c]
          \/ \E n : conn'[c] = [conn[c] EXCEPT !.lease = n]
          \/ conn'[c] = [conn[c] EXCEPT !.lease = 0, !.night = FALSE, !.reached = FALSE]
      BY <1>6 DEF Tick, DayPasses
    <2> QED BY <1>4, <2>1 DEF Moves
  <1>7. ASSUME NEW b \in Conns, Person(b) PROVE Moves(c)
    <2>1. CASE b # c \/ UNCHANGED conn
      BY <1>1, <1>7, <2>1 DEF Person, Connect, Reconnect, Disconnect, BookYearEnd, Moves
    <2>2. CASE b = c /\ Connect(c)
      <3>1. conn'[c] = [conn[c] EXCEPT !.status = "ACTIVE", !.attempt = 1] /\ conn[c].status = "NONE"
        BY <1>1, <2>2 DEF Connect
      <3> QED BY <1>1, <3>1 DEF Connection, Moves
    <2>3. CASE b = c /\ Reconnect(c)
      <3>1. conn'[c] = [conn[c] EXCEPT !.status = "ACTIVE", !.stop = NoStop, !.attempt = @ + 1,
                                       !.night = TRUE, !.reached = TRUE]
        BY <1>1, <2>3 DEF Reconnect
      <3> QED BY <1>1, <3>1 DEF Connection, Moves
    <2>4. CASE b = c /\ Disconnect(c)
      <3>1. PICK n : n = Cardinality(Vouchers(c))
        OBVIOUS
      <3>2. conn'[c] = [conn[c] EXCEPT !.status = "DISCONNECTED", !.cut = n]
        BY <1>1, <2>4, <3>1 DEF Disconnect
      <3> QED BY <1>1, <3>2 DEF Connection, Moves
    <2> QED BY <1>7, <2>1, <2>2, <2>3, <2>4 DEF Person, BookYearEnd
  <1>8. CASE UNCHANGED conn
    BY <1>8 DEF Moves
  <1>9. ASSUME NEW r \in Runs, Advance(r), ~(Claim(r) \/ Release(r) \/ CloseNight(r) \/ WriteState(r))
        PROVE  UNCHANGED conn
    BY <1>9 DEF Advance, Hello, ReadLine, Book, Reconcile, Requeue, Send, Intent, Ask, Answer, WriteBooked,
       ReadOwed, NextOwed, AttachPdf, KeepMark, ConnectFile, WriteDone, Night, NightFile, Settle
  <1>10. ASSUME NEW r \in Runs, Start(r) \/ Throw(r) \/ Crash(r) PROVE UNCHANGED conn
    BY <1>10 DEF Start, Throw, Crash
  <1>11. ASSUME NEW e \in Entries, BookByHand(e) \/ NotInFortnox(e) \/ HandOver(dv[e].file) \/ Land(e)
         PROVE  UNCHANGED conn
    BY <1>11 DEF BookByHand, NotInFortnox, HandOver, Land
  <1>12. CASE OtherVoucher \/ NewEntry \/ UNCHANGED vars
    BY <1>8, <1>12 DEF OtherVoucher, NewEntry, vars
  <1> QED BY <1>2, <1>5, <1>6, <1>7, <1>8, <1>9, <1>10, <1>11, <1>12 DEF Next

(* One step of a connection: it stays steady, and moves for a reason.       *)
LEMMA MovedSteadily ==
  ASSUME IInv, [Next]_vars, NEW c \in Conns, Steady(conn[c])
  PROVE  /\ Steady(conn'[c])
         /\ conn'[c].status # conn[c].status \/ conn'[c].stop # conn[c].stop =>
              \/ conn'[c].status = "DISCONNECTED"
              \/ conn'[c].attempt # conn[c].attempt
              \/ /\ conn[c].stop.kind # "terminal"
                 /\ \E r \in Runs : /\ run[r].conn = c /\ run'[r] # run[r]
                                    /\ run[r].attempt = conn[c].attempt
  <1>1. Moves(c) /\ conn \in [Conns -> Connection] /\ conn[c] \in Connection /\ conn[c].attempt \in Nat
    BY Moved, Types DEF Connection
  <1>2. NoStop.kind = "none" /\ NoStop \in Stop
    BY Beginnings DEF NoStop
  <1>3. ASSUME NEW r \in Runs, run[r].pc = "state", run[r].conn = c, conn'[c] = Settled(run[r]),
               run'[r] = [run[r] EXCEPT !.pc = "release"]
        PROVE  /\ Steady(conn'[c])
               /\ conn'[c].status # conn[c].status \/ conn'[c].stop # conn[c].stop =>
                    /\ conn[c].stop.kind # "terminal"
                    /\ run[r].conn = c /\ run'[r] # run[r] /\ run[r].attempt = conn[c].attempt
    <2>1. PICK x \in Run : x = run[r]
      BY Types
    <2>2. run'[r] # run[r]
      <3>1. run'[r].pc = "release"
        BY <1>3, <2>1 DEF Run
      <3> QED BY <1>3, <3>1
    <2>3. Steady(Settled(x))
      <3>1. \/ Settled(x) = conn[c]
            \/ Settled(x) = [conn[c] EXCEPT !.status = "BROKEN", !.stop = x.stop]
            \/ Settled(x) = [conn[c] EXCEPT !.status = "ACTIVE", !.stop = NoStop, !.reached = TRUE]
            \/ Settled(x) = [conn[c] EXCEPT !.reached = TRUE]
        BY <1>3, <2>1 DEF Settled
      <3> QED BY <1>1, <3>1 DEF Steady, Connection
    <2>4. Settled(x).status # conn[c].status \/ Settled(x).stop # conn[c].stop =>
            /\ conn[c].attempt = x.attempt /\ ~(conn[c].status = "BROKEN" /\ conn[c].stop.kind = "terminal")
            /\ conn[c].status # "DISCONNECTED"
      BY <1>1, <1>3, <2>1, SettledConnection
    <2>5. conn[c].status \in {"NONE", "ACTIVE", "BROKEN", "DISCONNECTED"}
      BY <1>1 DEF Connection
    <2> QED BY <1>2, <1>3, <2>1, <2>2, <2>3, <2>4, <2>5 DEF Steady
  <1>4. CASE \E r \in Runs : /\ run[r].pc = "state" /\ run[r].conn = c /\ conn'[c] = Settled(run[r])
                             /\ run'[r] = [run[r] EXCEPT !.pc = "release"]
    BY <1>3, <1>4
  <1>5. CASE conn'[c].status = conn[c].status /\ conn'[c].stop = conn[c].stop /\ conn'[c].attempt = conn[c].attempt
    BY <1>5 DEF Steady
  <1>6. CASE conn[c].status = "NONE" /\ conn'[c].status = "ACTIVE" /\ conn'[c].stop = conn[c].stop /\ conn'[c].attempt = 1
    BY <1>6 DEF Steady
  <1>7. CASE conn'[c].status = "ACTIVE" /\ conn'[c].stop = NoStop /\ conn'[c].attempt = conn[c].attempt + 1
    BY <1>1, <1>7 DEF Steady
  <1>8. CASE conn'[c].status = "DISCONNECTED"
    BY <1>8 DEF Steady
  <1> QED BY <1>1, <1>4, <1>5, <1>6, <1>7, <1>8 DEF Moves
=============================================================================
