-------------------------------- MODULE Outbox --------------------------------
(***************************************************************************)
(* The email outbox (src/src/jobs/outbox.ts): rows of email_outbox that    *)
(* concurrent drains claim under a lease, resolve, send outside any        *)
(* transaction and finalise one by one.                                    *)
(*                                                                         *)
(* One step is one database transaction, one answer of the mail transport  *)
(* or one tick of the clock.  Times are kept relative, so that the clock   *)
(* needs no bound: `wait' is the time left to a row's send_after, `lease'  *)
(* the age of its locked_at (it stops growing at Lease, when the row may   *)
(* be reclaimed), `age' the time since a drain's claim and `busy' the time *)
(* since the recount or the send it waits for began.                       *)
(***************************************************************************)
EXTENDS Naturals, FiniteSets

CONSTANTS
  Rows,              \* ids of email_outbox rows, one per idempotency key
  Drains,            \* the calls of drainOutbox that may overlap
  Kind,              \* the template kind of each row, see Kinds
  Limit,             \* the most rows of one claim
  MaxAttempts,       \* MAX_ATTEMPTS
  Lease,             \* LEASE_MINUTES, in ticks
  RecountBudget,     \* the last age at which a recount may start
  SendBudget,        \* the last age at which a send may start
  CallTime,          \* the longest one recount or one send takes
  Stalls,            \* whether one may take longer, at a fault for every tick
  MaxFailuresInARow, \* MAX_FAILURES_IN_A_ROW
  Backoff,           \* attempts so far -> ticks until the next one
  MaxDelay,          \* bound: the longest debounce or quiet-hours hold
  MaxHolds,          \* bound: how often quiet hours re-time one row
  MaxFaults          \* bound: crashes and lost writes in a behaviour

NoDrain == "none"

(* "retired" is a kind no template exists for any more; "plain" is mail     *)
(* that is only rendered; "digest" is a member's summary; "summary" and     *)
(* "report" go to a client's person and are asked again after the claim.    *)
Kinds == {"plain", "work", "digest", "summary", "report", "retired"}

ASSUME OutboxAssumption ==
  /\ NoDrain \notin Drains
  /\ Kind \in [Rows -> Kinds]
  /\ Limit \in Nat \ {0}
  /\ MaxAttempts \in Nat \ {0}
  /\ Lease \in Nat \ {0}
  /\ {RecountBudget, SendBudget, CallTime, MaxDelay, MaxHolds, MaxFaults} \subseteq Nat
  /\ MaxFailuresInARow \in Nat \ {0}
  /\ Stalls \in BOOLEAN
  /\ Backoff \in [0 .. MaxAttempts - 1 -> Nat]

VARIABLES
  row,         \* the table email_outbox
  drain,       \* what each running drain holds in memory
  suppressed,  \* rows whose address is on the suppression list
  delivered,   \* history: how often the transport accepted each row's mail
  lost,        \* history: how often such an acceptance was never recorded
  faults       \* how many faults the behaviour has had

vars == <<row, drain, suppressed, delivered, lost, faults>>

Terminal == {"SENT", "DEAD", "SKIPPED", "SUPPRESSED"}
Statuses == Terminal \cup {"ABSENT", "QUEUED", "SENDING", "FAILED"}
Answers  == {"accepted", "blocked", "refused", "failed"}
Phases   == Answers \cup {"none", "counting", "sending"}

Row ==
  [status: Statuses, attempts: Nat, wait: Nat, lease: 0 .. Lease,
   owner: Drains \cup {NoDrain}, holds: Nat, dropped: BOOLEAN]

Drain ==
  [todo: SUBSET Rows, ready: SUBSET Rows, cur: SUBSET Rows, phase: Phases,
   age: Nat, busy: Nat, streak: Nat, snap: [Rows -> Nat], gone: SUBSET Rows]

NoRow ==
  [status |-> "ABSENT", attempts |-> 0, wait |-> 0, lease |-> 0,
   owner |-> NoDrain, holds |-> 0, dropped |-> FALSE]

NewDrain ==
  [todo |-> {}, ready |-> {}, cur |-> {}, phase |-> "none", age |-> 0, busy |-> 0,
   streak |-> 0, snap |-> [r \in Rows |-> 0], gone |-> {}]

Init ==
  /\ row = [r \in Rows |-> NoRow]
  /\ drain = [d \in Drains |-> NewDrain]
  /\ suppressed = {}
  /\ delivered = [r \in Rows |-> 0]
  /\ lost = [r \in Rows |-> 0]
  /\ faults = 0

-----------------------------------------------------------------------------
(* Rows *)

Closed(x, s, tag) == [x EXCEPT !.status = s, !.lease = 0, !.owner = NoDrain, !.dropped = tag]
Queued(x, w)      == [x EXCEPT !.status = "QUEUED", !.lease = 0, !.owner = NoDrain, !.wait = w]

(* Mutant of Leased: the claim keeps the stamp of the lapsed lease. *)
LeasedUnstamped(x, d) == [x EXCEPT !.status = "SENDING", !.owner = d]

Leased(x, d)      == [x EXCEPT !.status = "SENDING", !.lease = 0, !.owner = d]

(* failureData: `a' is the attempts the drain read at its claim, while the  *)
(* stored column is incremented.  A dead row's send_after is read by nobody. *)
Failed(x, a) ==
  IF a + 1 >= MaxAttempts
    THEN [Closed(x, "DEAD", FALSE) EXCEPT !.attempts = @ + 1]
    ELSE [Closed(x, "FAILED", FALSE) EXCEPT !.attempts = @ + 1, !.wait = Backoff[a]]

Held(d) == drain[d].todo \cup drain[d].ready \cup drain[d].cur
Idle(d) == Held(d) = {}

(* Mutant of Due: a lapsed lease is never reclaimed.                        *)
DueUnlessLeased(r) == row[r].status \in {"QUEUED", "FAILED"} /\ row[r].wait = 0

Due(r) ==
  \/ row[r].status \in {"QUEUED", "FAILED"} /\ row[r].wait = 0
  \/ row[r].status = "SENDING" /\ row[r].lease = Lease

(* A producer's createMany with skipDuplicates: a row is made once, its     *)
(* send_after a debounce or the end of the receiver's quiet hours away.     *)
Enqueue(r) ==
  /\ row[r].status = "ABSENT"
  /\ r \notin suppressed
  /\ \E w \in 0 .. MaxDelay, h \in {0, 1} :
       /\ h = 1 => Kind[r] = "work" /\ w > 0 /\ MaxHolds > 0
       /\ row' = [row EXCEPT ![r] = [Queued(@, w) EXCEPT !.holds = h]]
  /\ UNCHANGED <<drain, suppressed, delivered, lost, faults>>

(* Mutant of Remake: any closed mail of a report is made again. *)
RemakeClosed(r) ==
  /\ Kind[r] = "report"
  /\ row[r].status \in Terminal
  /\ r \notin suppressed
  /\ row' = [row EXCEPT ![r] = Queued(NoRow, 0)]
  /\ UNCHANGED <<drain, suppressed, delivered, lost, faults>>

(* enqueueReportMails: a report's mail dropped unsent is deleted and made    *)
(* again, so a drain that still holds the old row will find it gone.        *)
Remake(r) ==
  /\ Kind[r] = "report"
  /\ row[r].status = "SKIPPED" /\ row[r].dropped
  /\ r \notin suppressed
  /\ row' = [row EXCEPT ![r] = Queued(NoRow, 0)]
  /\ drain' = [d \in Drains |->
       IF r \in Held(d) THEN [drain[d] EXCEPT !.gone = @ \cup {r}] ELSE drain[d]]
  /\ UNCHANGED <<suppressed, delivered, lost, faults>>

(* retimeHeldMail: the receiver changed their quiet hours. *)
Retime(r) ==
  /\ row[r].status = "QUEUED"
  /\ row[r].holds \in 1 .. MaxHolds - 1
  /\ \E w \in 0 .. MaxDelay :
       row' = [row EXCEPT ![r] = [Queued(@, w) EXCEPT !.holds = row[r].holds + 1]]
  /\ UNCHANGED <<drain, suppressed, delivered, lost, faults>>

(* recordMailFeedback: a bounce or a complaint blocks the address; support  *)
(* may lift the block.                                                      *)
Block(r) ==
  /\ suppressed' = suppressed \cup {r}
  /\ UNCHANGED <<row, drain, delivered, lost, faults>>

Lift(r) ==
  /\ suppressed' = suppressed \ {r}
  /\ UNCHANGED <<row, drain, delivered, lost, faults>>

-----------------------------------------------------------------------------
(* Drains *)

(* What the drain holds once its current row is dealt with; a drain that    *)
(* holds nothing has returned.                                              *)
Rest(x) == IF x.todo \cup x.ready \cup x.cur = {} THEN NewDrain ELSE x

(* What the claim may decide for a row, in the order the code asks: the     *)
(* kind, the receiver's wishes and quiet hours, the suppression list, and   *)
(* then what the kind itself needs.                                         *)
Verdicts(r) ==
  IF Kind[r] = "retired" THEN {"unknown"}
  ELSE (IF Kind[r] = "work"
          THEN {"skip"} \cup (IF row[r].holds < MaxHolds THEN {"hold"} ELSE {})
          ELSE {})
       \cup (IF r \in suppressed THEN {"suppressed"}
             ELSE CASE Kind[r] \in {"plain", "work"}     -> {"send", "throw"}
                    [] Kind[r] = "digest"                -> {"drop", "skip", "send", "throw"}
                    [] Kind[r] \in {"summary", "report"} -> {"drop", "recount"})

Resolved(r, v, d) ==
  CASE v = "unknown"             -> {Closed(row[r], "DEAD", FALSE)}
    [] v = "skip"                -> {Closed(row[r], "SKIPPED", FALSE)}
    [] v = "drop"                -> {Closed(row[r], "SKIPPED", TRUE)}
    [] v = "suppressed"          -> {Closed(row[r], "SUPPRESSED", row[r].dropped)}
    [] v = "throw"               -> {Failed(row[r], row[r].attempts)}
    [] v = "hold"                -> {[Queued(row[r], w) EXCEPT !.holds = @ + 1] : w \in 1 .. MaxDelay}
    [] v \in {"send", "recount"} -> {Leased(row[r], d)}

Outcomes(r, d) == UNION {{v} \X Resolved(r, v, d) : v \in Verdicts(r)}

(* The claim of the due rows S, each resolved in the same transaction.  Due *)
(* rows may be left: beyond the limit, or locked by a concurrent claim.     *)
ClaimRows(d, S) ==
  /\ Idle(d)
  /\ S # {} /\ Cardinality(S) <= Limit
  /\ \A r \in S : Due(r)
  /\ \E out \in [S -> UNION {Outcomes(r, d) : r \in S}] :
       /\ \A r \in S : out[r] \in Outcomes(r, d)
       /\ row' = [r \in Rows |-> IF r \in S THEN out[r][2] ELSE row[r]]
       /\ drain' = [drain EXCEPT ![d] = Rest(
            [NewDrain EXCEPT !.todo  = {r \in S : out[r][1] = "recount"},
                             !.ready = {r \in S : out[r][1] = "send"},
                             !.snap  = [r \in Rows |-> IF r \in S THEN row[r].attempts ELSE 0]])]
  /\ UNCHANGED <<suppressed, delivered, lost, faults>>

Claim(d) == \E S \in SUBSET Rows : ClaimRows(d, S)

(* A client's mail is asked for again, unless the budget is spent. *)
RecountBegin(d) ==
  /\ drain[d].cur = {} /\ drain[d].age <= RecountBudget
  /\ \E r \in drain[d].todo :
       drain' = [drain EXCEPT ![d].todo = @ \ {r}, ![d].cur = {r}, ![d].phase = "counting"]
  /\ UNCHANGED <<row, suppressed, delivered, lost, faults>>

Done(d) == [drain[d] EXCEPT !.cur = {}, !.phase = "none", !.busy = 0]

(* An acceptance of r's mail that d has still to record. *)
Unrecorded(d, r) == r \in drain[d].cur /\ drain[d].phase = "accepted"

Unwritten(d, r) ==
  UNCHANGED row /\ lost' = [lost EXCEPT ![r] = @ + (IF Unrecorded(d, r) THEN 1 ELSE 0)]

(* A write of one row by its id alone.  It fails when the row was deleted,  *)
(* or by a fault; the drain goes on either way.                             *)
Write(d, r, x) ==
  \/ r \notin drain[d].gone /\ row' = [row EXCEPT ![r] = x] /\ UNCHANGED <<lost, faults>>
  \/ r \in drain[d].gone /\ Unwritten(d, r) /\ UNCHANGED faults
  \/ faults < MaxFaults /\ Unwritten(d, r) /\ faults' = faults + 1

(* The mail is ready to send, or the row is closed unsent (finaliseUnsent). *)
RecountEnd(d) ==
  /\ drain[d].phase = "counting"
  /\ \E r \in drain[d].cur :
       \/ drain' = [drain EXCEPT ![d] = [Done(d) EXCEPT !.ready = @ \cup {r}]]
          /\ UNCHANGED <<row, lost, faults>>
       \/ /\ \E x \in {Closed(row[r], "SKIPPED", TRUE), Failed(row[r], drain[d].snap[r])}
                      \cup (IF Kind[r] = "summary" THEN {Closed(row[r], "SKIPPED", FALSE)} ELSE {}) :
               Write(d, r, x)
          /\ drain' = [drain EXCEPT ![d] = Rest(Done(d))]
  /\ UNCHANGED <<suppressed, delivered>>

Exhausted(d) == drain[d].age > SendBudget \/ drain[d].streak >= MaxFailuresInARow

(* Mutant of SendBegin: the row sent is left among those to send. *)
SendBeginKept(d) ==
  /\ drain[d].todo = {} /\ drain[d].cur = {}
  /\ ~ Exhausted(d)
  /\ \E r \in drain[d].ready \ suppressed :
       drain' = [drain EXCEPT ![d].cur = {r}, ![d].phase = "sending"]
  /\ UNCHANGED <<row, suppressed, delivered, lost, faults>>

(* send, until the transport is called: the suppression list is asked once  *)
(* more, and a lookup that fails counts as a failed transport.              *)
SendBegin(d) ==
  /\ drain[d].todo = {} /\ drain[d].cur = {}
  /\ ~ Exhausted(d)
  /\ \E r \in drain[d].ready, p \in {"sending", "blocked", "failed"} :
       /\ p = "blocked" => r \in suppressed
       /\ p = "sending" => r \notin suppressed
       /\ drain' = [drain EXCEPT ![d].ready = @ \ {r}, ![d].cur = {r}, ![d].phase = p]
  /\ UNCHANGED <<row, suppressed, delivered, lost, faults>>

(* The transport's answer.  By a fault it takes the mail and the drain hears *)
(* of a failure, a timeout.                                                  *)
Answer(d) ==
  /\ drain[d].phase = "sending"
  /\ \E r \in drain[d].cur, a \in {"accepted", "refused", "failed"} :
       /\ drain' = [drain EXCEPT ![d].phase = a]
       /\ \/ a = "accepted" /\ delivered' = [delivered EXCEPT ![r] = @ + 1] /\ UNCHANGED <<lost, faults>>
          \/ a # "accepted" /\ UNCHANGED <<delivered, lost, faults>>
          \/ /\ a = "failed" /\ faults < MaxFaults
             /\ faults' = faults + 1
             /\ delivered' = [delivered EXCEPT ![r] = @ + 1]
             /\ lost' = [lost EXCEPT ![r] = @ + 1]
  /\ UNCHANGED <<row, suppressed>>

(* Mutants of Finalised: a taken mail is booked as failed; a refusal as sent. *)
FinalisedFailed(x, a, answer) ==
  IF answer = "blocked" THEN Closed(x, "SUPPRESSED", x.dropped) ELSE Failed(x, a)

FinalisedRefused(x, a, answer) ==
  CASE answer = "blocked"               -> Closed(x, "SUPPRESSED", x.dropped)
    [] answer \in {"accepted", "refused"} -> [Closed(x, "SENT", x.dropped) EXCEPT !.attempts = @ + 1]
    [] answer = "failed"                -> Failed(x, a)

Finalised(x, a, answer) ==
  CASE answer = "blocked"             -> Closed(x, "SUPPRESSED", x.dropped)
    [] answer = "accepted"            -> [Closed(x, "SENT", x.dropped) EXCEPT !.attempts = @ + 1]
    [] answer \in {"refused", "failed"} -> Failed(x, a)

NextStreak(n, answer) ==
  CASE answer = "failed"               -> n + 1
    [] answer = "accepted"             -> 0
    [] answer \in {"blocked", "refused"} -> n

Finalise(d) ==
  /\ drain[d].phase \in Answers
  /\ \E r \in drain[d].cur : Write(d, r, Finalised(row[r], drain[d].snap[r], drain[d].phase))
  /\ drain' = [drain EXCEPT ![d] =
       Rest([Done(d) EXCEPT !.streak = NextStreak(@, drain[d].phase)])]
  /\ UNCHANGED <<suppressed, delivered>>

(* Mutant of Mine: nothing is handed back. *)
MineNone(d, S) == {}

(* releaseUnattempted: rows go back to the queue, but only those whose      *)
(* lease is still this drain's.  A release that fails leaves them leased.   *)
Mine(d, S) == {r \in S : row[r].status = "SENDING" /\ row[r].owner = d}

ReleaseRows(d, S) ==
  /\ S # {} /\ drain[d].cur = {}
  /\ \/ row' = [r \in Rows |-> IF r \in Mine(d, S) THEN Queued(row[r], row[r].wait) ELSE row[r]]
        /\ UNCHANGED faults
     \/ faults < MaxFaults /\ faults' = faults + 1 /\ UNCHANGED row
  /\ drain' = [drain EXCEPT ![d] = Rest([drain[d] EXCEPT !.todo = @ \ S, !.ready = @ \ S])]
  /\ UNCHANGED <<suppressed, delivered, lost>>

Release(d) ==
  \/ drain[d].age > RecountBudget /\ ReleaseRows(d, drain[d].todo)
  \/ drain[d].todo = {} /\ Exhausted(d) /\ ReleaseRows(d, drain[d].ready)

(* The function ends, by the platform or by an error, with rows in hand. *)
Crash(d) ==
  /\ ~ Idle(d) /\ faults < MaxFaults
  /\ faults' = faults + 1
  /\ lost' = [r \in Rows |-> lost[r] + (IF Unrecorded(d, r) THEN 1 ELSE 0)]
  /\ drain' = [drain EXCEPT ![d] = NewDrain]
  /\ UNCHANGED <<row, suppressed, delivered>>

(* Time passes while every running drain waits for a recount or for the     *)
(* transport; what a drain does in between is counted with the call before. *)
Overdue == \E d \in Drains : ~ Idle(d) /\ drain[d].busy >= CallTime

Tick ==
  /\ \A d \in Drains : ~ Idle(d) => drain[d].phase \in {"counting", "sending"}
  /\ Overdue => Stalls /\ faults < MaxFaults
  /\ faults' = faults + (IF Overdue THEN 1 ELSE 0)
  /\ row' = [r \in Rows |->
       [row[r] EXCEPT !.wait = IF @ > 0 THEN @ - 1 ELSE 0,
                      !.lease = IF row[r].status = "SENDING" /\ @ < Lease THEN @ + 1 ELSE @]]
  /\ drain' = [d \in Drains |->
       IF Idle(d) THEN drain[d] ELSE [drain[d] EXCEPT !.age = @ + 1, !.busy = @ + 1]]
  /\ UNCHANGED <<suppressed, delivered, lost>>

Next ==
  \/ Tick
  \/ \E r \in Rows : Enqueue(r) \/ Remake(r) \/ Retime(r) \/ Block(r) \/ Lift(r)
  \/ \E d \in Drains : \/ Claim(d) \/ RecountBegin(d) \/ RecountEnd(d) \/ SendBegin(d)
                       \/ Answer(d) \/ Finalise(d) \/ Release(d) \/ Crash(d)

Spec == Init /\ [][Next]_vars

-----------------------------------------------------------------------------
(* Fairness: the clock runs, a cron calls a drain as long as there is mail   *)
(* due and takes the oldest first, and a drain's own code goes on unless the *)
(* function ends.                                                            *)
Go(d) == \/ RecountBegin(d) \/ RecountEnd(d) \/ SendBegin(d)
         \/ Answer(d) \/ Finalise(d) \/ Release(d)

Taken(r) == \E d \in Drains, S \in SUBSET Rows : r \in S /\ ClaimRows(d, S)

Fairness == /\ WF_vars(Tick)
            /\ \A r \in Rows : WF_vars(Taken(r))
            /\ \A d \in Drains : WF_vars(Go(d))

FairSpec == Spec /\ Fairness

-----------------------------------------------------------------------------
(* Properties *)

Orderly(x) ==
  /\ x.todo \cap x.ready = {} /\ x.todo \cap x.cur = {} /\ x.ready \cap x.cur = {}
  /\ \A r, q \in x.cur : r = q
  /\ x.phase = "none" <=> x.cur = {}

(* Every variable stays in its type; what a drain holds is in one place     *)
(* only, and a row in hand has a phase.                                     *)
TypeOK ==
  /\ row \in [Rows -> Row]
  /\ drain \in [Drains -> Drain]
  /\ \A d \in Drains : Orderly(drain[d])
  /\ suppressed \subseteq Rows
  /\ delivered \in [Rows -> Nat]
  /\ lost \in [Rows -> Nat]
  /\ faults \in 0 .. MaxFaults

(* The budgets the code gives itself, against the lease.                     *)
BudgetsInsideLease == ~ Stalls /\ RecountBudget + CallTime < Lease /\ SendBudget + CallTime < Lease

(* The claim is the lock: a row in the hands of a live drain is leased to   *)
(* it, the lease is exactly as old as the claim, however long recounts and  *)
(* sends have taken, and the attempts read at the claim are the row's still. *)
HeldIsLeased ==
  \A d \in Drains : \A r \in Held(d) :
    row[r].status = "SENDING" /\ row[r].owner = d
      /\ row[r].lease = drain[d].age /\ row[r].attempts = drain[d].snap[r]

(* No two drains ever hold the same row.                                    *)
OneHolder == \A d, e \in Drains : d # e => Held(d) \cap Held(e) = {}

(* The books of the mail: every acceptance by the transport is one a fault  *)
(* lost, the one the row's SENT stands for, or one a drain is about to      *)
(* record.  So no row is sent again without a fault, and a row closed       *)
(* unsent (dropped, dead, blocked) has had no mail the outbox knows of.     *)
DeliveryAccount ==
  \A r \in Rows :
    delivered[r] = lost[r] + (IF row[r].status = "SENT" \/ \E d \in Drains : Unrecorded(d, r)
                                THEN 1 ELSE 0)

(* At least once, and again only after a fault: the transport has taken a   *)
(* mail at most once more than an acceptance of it went unrecorded.         *)
NoUnexplainedDuplicate == \A r \in Rows : delivered[r] <= 1 + lost[r]

(* The retry budget: a row that may still be sent has tries left, and only  *)
(* a row without any (or without a template) is dead.                       *)
AttemptsBudget ==
  \A r \in Rows :
    /\ row[r].attempts <= MaxAttempts
    /\ row[r].status \in {"QUEUED", "FAILED", "SENDING"} => row[r].attempts < MaxAttempts
    /\ row[r].status = "DEAD" => row[r].attempts = MaxAttempts \/ Kind[r] = "retired"

(* No lease is leaked: without a fault a leased row is in a live drain's    *)
(* hands, so nothing waits out the ten minutes of a lease nobody uses.      *)
NoOrphanWithoutFault ==
  faults = 0 => \A r \in Rows : row[r].status = "SENDING" => r \in Held(row[r].owner)

(* A closed row stays closed, whatever late drains still write; only a      *)
(* report's mail dropped unsent is made again.                              *)
ClosedIsFinal ==
  [][\A r \in Rows :
       row[r].status \in Terminal
         /\ (row'[r].status # row[r].status \/ row'[r].attempts # row[r].attempts) =>
         Kind[r] = "report" /\ row[r].dropped /\ row'[r].status = "QUEUED"]_vars

(* Every mail that waits is in the end sent or closed for a reason.         *)
EveryMailCloses == \A r \in Rows : row[r].status = "QUEUED" ~> row[r].status \in Terminal

(* What the outbox promises, see MailDelivery.                              *)
Mail == INSTANCE MailDelivery WITH
  Mails  <- Rows,
  copies <- delivered,
  state  <- [r \in Rows |->
    CASE row[r].status = "ABSENT" -> "none"
      [] row[r].status = "SENT" -> "sent"
      [] row[r].status \in Terminal \ {"SENT"} -> "dropped"
      [] OTHER -> "waiting"]

ImplementsMailDelivery == Mail!Spec
=============================================================================
