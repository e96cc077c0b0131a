-------------------------------- MODULE Timer --------------------------------
(***************************************************************************)
(* A member's tracked time (src/src/modules/time): the personal timer      *)
(* (timer.ts), what the member types and corrects (entries.ts), the        *)
(* automatic stop (settle.ts) and the hours each project is shown to have  *)
(* used (summary.ts).                                                      *)
(*                                                                         *)
(* A call is up to two transactions: the pass that stops what ran too long *)
(* (Settle...), which takes no lock, and the member's act, whose writes    *)
(* stand under the member's advisory lock.  Postgres runs them READ        *)
(* COMMITTED: what a transaction read may be old when it writes, its rows  *)
(* stay locked from its writes (...: pc is "written" or "settled") to its  *)
(* commit, and a sum it computes sees what is committed and its own        *)
(* writes.  One member; projects stand for (project, month) pairs.  That   *)
(* at most one entry runs is also a unique index: it is left out, and      *)
(* OneRunning shows that it never refuses.                                 *)
(***************************************************************************)
EXTENDS Integers, FiniteSets, FiniteSetsExt

CONSTANTS
  Entries,     \* bound: rows of time_entry that may come to be
  Projects,
  Calls,       \* the calls that may overlap: tabs of the member, and the cron
  NoEntry,
  NoProject,
  NoCall,
  Cap,         \* time.autoStopHours
  UndoWindow,  \* UNDO_WINDOW_SECONDS
  MaxNow,      \* bound: the last instant
  MaxTyped     \* bound: entries typed, corrections and deletions

(* The undo is over long before the automatic stop; a table has finitely    *)
(* many rows.                                                               *)
ASSUME TimerAssumption ==
  /\ IsFiniteSet(Entries)
  /\ {Cap, UndoWindow, MaxNow, MaxTyped} \subseteq Nat
  /\ UndoWindow < Cap
  /\ NoEntry \notin Entries /\ NoProject \notin Projects /\ NoCall \notin Calls

VARIABLES
  now,
  entry,    \* time_entry
  summary,  \* project_time_summary: the seconds of each project
  lock,     \* who holds the member's advisory lock
  call,     \* the transactions under way
  typed,    \* bound: calls of entries.ts begun
  crossed   \* history: transactions met in one of the two ways that mislead a sum

vars == <<now, entry, summary, lock, call, typed, crossed>>

(* hand: its interval is a person's word, not the timer's alone.             *)
NotStopped == -1
Unborn == [st |-> "none", start |-> 0, stop |-> NotStopped, p |-> NoProject, review |-> FALSE, hand |-> FALSE]

(* e: the entry the call is about; saw: the row as the call read it; w: its *)
(* writes, sums: the summaries it wrote, both not committed yet; after: the *)
(* calls that hold one of these summaries and commit before it.             *)
Idle == [pc |-> "idle", op |-> "look", e |-> NoEntry, saw |-> Unborn, w |-> <<>>, sums |-> <<>>, after |-> {}]

Settling == {"start", "stop", "look"}     \* the calls that settle first
Acts     == {"start", "stop", "undo", "create", "update", "delete"}

Rows == [st : {"none", "live", "gone", "erased"}, start : 0 .. MaxNow,
         stop : 0 .. MaxNow \cup {NotStopped}, p : Projects \cup {NoProject}, review : BOOLEAN, hand : BOOLEAN]

TypeOK ==
  /\ now \in 0 .. MaxNow
  /\ entry \in [Entries -> Rows]
  /\ summary \in [Projects -> Nat]
  /\ lock \in Calls \cup {NoCall}
  /\ \A c \in Calls :
       /\ call[c].pc \in {"idle", "saw", "settled", "ready", "locked", "written"}
       /\ call[c].op \in Acts \cup {"look"}
       /\ call[c].e \in Entries \cup {NoEntry}
       /\ call[c].saw \in Rows
       /\ DOMAIN call[c].w \subseteq Entries /\ \A e \in DOMAIN call[c].w : call[c].w[e] \in Rows
       /\ DOMAIN call[c].sums \subseteq Projects
       /\ call[c].after \subseteq Calls \ {c}
  /\ lock # NoCall <=> \E c \in Calls : call[c].pc \in {"locked", "written"}
  /\ typed \in 0 .. MaxTyped
  /\ crossed \in BOOLEAN

Init ==
  /\ now = 0
  /\ entry = [e \in Entries |-> Unborn]
  /\ summary = [p \in Projects |-> 0]
  /\ lock = NoCall
  /\ call = [c \in Calls |-> Idle]
  /\ typed = 0
  /\ crossed = FALSE

-----------------------------------------------------------------------------
Live(rows)    == {e \in Entries : rows[e].st = "live"}
Running(rows) == {e \in Live(rows) : rows[e].stop = NotStopped}
Bound(row)    == row.start + Cap

(* stopRunningEntry, the automatic stop, a new timer.                       *)
Stopped(row, at) == [row EXCEPT !.stop = at]
AutoStopped(row) == [row EXCEPT !.stop = Bound(row), !.review = TRUE]
Started(p)       == [Unborn EXCEPT !.st = "live", !.start = now, !.p = p]

(* recomputeProjectMonth: the finished, live hours of a project.            *)
Seconds(rows, p) ==
  LET counted == {e \in Live(rows) : rows[e].stop # NotStopped /\ rows[e].p = p}
  IN  MapThenSumSet(LAMBDA e : rows[e].stop - rows[e].start, counted)

Overlay(rows, w) == [e \in Entries |-> IF e \in DOMAIN w THEN w[e] ELSE rows[e]]

(* The calls that hold one of these summaries.                              *)
Summing(c, touched) == {d \in Calls \ {c} : DOMAIN call[d].sums \cap touched # {}}

(* Two sums of one project are under way at once, or a row has left the     *)
(* project it was in when the call read it.                                 *)
Misleads(c, touched) ==
  \/ Summing(c, touched) # {}
  \/ call[c].e # NoEntry /\ entry[call[c].e].p # call[c].saw.p

(* The writes of a transaction, once no other one holds these rows, and     *)
(* over them recomputeTouched: what it sums is fixed as it begins, the      *)
(* upsert then waits for the others'.                                       *)
Write(c, pc, w, touched) ==
  /\ \A d \in Calls \ {c} : DOMAIN call[d].w \cap DOMAIN w = {}
  /\ call' = [call EXCEPT ![c].pc = pc, ![c].w = w, ![c].after = Summing(c, touched),
                          ![c].sums = [p \in touched |-> Seconds(Overlay(entry, w), p)]]
  /\ crossed' = (crossed \/ Misleads(c, touched))
  /\ UNCHANGED <<now, entry, summary, lock, typed>>

CommitWrites(c, next) ==
  /\ call[c].after = {}
  /\ entry' = Overlay(entry, call[c].w)
  /\ summary' = [p \in Projects |-> IF p \in DOMAIN call[c].sums THEN call[c].sums[p] ELSE summary[p]]
  /\ call' = [d \in Calls |-> IF d = c THEN next ELSE [call[d] EXCEPT !.after = @ \ {c}]]

(* A call about the entry e, as it has read it; and where one goes when its *)
(* settling pass is over.                                                   *)
At(pc, op, e, saw) == [Idle EXCEPT !.pc = pc, !.op = op, !.e = e, !.saw = saw]
Settled(op)        == IF op = "look" THEN Idle ELSE At("ready", op, NoEntry, Unborn)

Overdue == {e \in Running(entry) : Bound(entry[e]) <= now}

-----------------------------------------------------------------------------
(* A start, a stop and every list of entries settle first (settleMember),   *)
(* and the cron's pass does nothing else.  The pass reads the running       *)
(* entry ...                                                                *)
Begin(c, op) ==
  /\ call[c].pc = "idle"
  /\ op \in Settling
  /\ IF Overdue = {}
     THEN call' = [call EXCEPT ![c] = Settled(op)]
     ELSE \E e \in Overdue : call' = [call EXCEPT ![c] = At("saw", op, e, entry[e])]
  /\ UNCHANGED <<now, entry, summary, lock, typed, crossed>>

(* The other calls go straight to the lock; a correction has read its row   *)
(* by then.                                                                 *)
BeginOn(c, op, e) ==
  /\ call[c].pc = "idle"
  /\ op \in {"update", "delete"}
  /\ e \in Live(entry)
  /\ call' = [call EXCEPT ![c] = At("ready", op, e, entry[e])]
  /\ typed < MaxTyped /\ typed' = typed + 1
  /\ UNCHANGED <<now, entry, summary, lock, crossed>>

(* Mutant of StillRuns: the pass writes by the id alone.                    *)
StillRunsById(e) == entry[e].st \in {"live", "gone"}

(* ... and stops it, if it still runs.                                      *)
StillRuns(e) == entry[e].st \in {"live", "gone"} /\ entry[e].stop = NotStopped

SettleWrite(c) ==
  LET e == call[c].e
      saw == call[c].saw
  IN  /\ call[c].pc = "saw"
      /\ StillRuns(e) /\ entry[e].start = saw.start
      /\ Write(c, "settled", [x \in {e} |-> AutoStopped(entry[e])], {saw.p})

(* Stopped meanwhile: nothing further.                                      *)
SettleMissed(c) ==
  /\ call[c].pc = "saw"
  /\ ~StillRuns(call[c].e)
  /\ call' = [call EXCEPT ![c] = Settled(call[c].op)]
  /\ UNCHANGED <<now, entry, summary, lock, typed, crossed>>

(* Its start was moved meanwhile: time_entry_duration_exact refuses the     *)
(* stop, and the call fails.                                                *)
SettleRefused(c) ==
  /\ call[c].pc = "saw"
  /\ StillRuns(call[c].e) /\ entry[call[c].e].start # call[c].saw.start
  /\ call' = [call EXCEPT ![c] = Idle]
  /\ UNCHANGED <<now, entry, summary, lock, typed, crossed>>

SettleCommit(c) ==
  /\ call[c].pc = "settled"
  /\ CommitWrites(c, Settled(call[c].op))
  /\ UNCHANGED <<now, lock, typed, crossed>>

-----------------------------------------------------------------------------
(* An act takes the lock and reads under it: the running entry, or the row  *)
(* it corrects.  A delete reads nothing, and writes by what it saw before.  *)
Takes(c, op) ==
  \/ call[c].pc = "ready" /\ call[c].op = op
  \/ call[c].pc = "idle" /\ op \in Acts \ (Settling \cup {"update", "delete"})

ReadUnderLock(c, op, e) ==
  CASE op \in {"start", "stop", "undo"} -> IF Running(entry) = {} THEN e = NoEntry ELSE e \in Running(entry)
    [] op = "create" -> e = NoEntry
    [] op \in {"update", "delete"} -> e = call[c].e

(* Mutant of SeenUnderLock: a correction writes the row it read before.     *)
SeenBeforeLock(c, op, e) ==
  CASE e = NoEntry -> Unborn
    [] op \in {"update", "delete"} -> call[c].saw
    [] OTHER -> entry[e]

SeenUnderLock(c, op, e) ==
  CASE e = NoEntry -> Unborn
    [] op = "delete" -> call[c].saw
    [] OTHER -> entry[e]

(* No timer to stop, no row to correct: the call fails.                     *)
Refused(op, e) ==
  \/ op \in {"stop", "undo"} /\ e = NoEntry
  \/ op = "update" /\ e \notin Live(entry)

(* Mutant of LockMember: it does not wait for the lock.                     *)
LockMemberHeld(c, op, e) ==
  /\ Takes(c, op)
  /\ ReadUnderLock(c, op, e)
  /\ IF Refused(op, e)
     THEN call' = [call EXCEPT ![c] = Idle] /\ UNCHANGED lock
     ELSE call' = [call EXCEPT ![c] = At("locked", op, e, SeenUnderLock(c, op, e))] /\ lock' = c
  /\ op = "create" => typed < MaxTyped
  /\ typed' = IF op = "create" THEN typed + 1 ELSE typed
  /\ UNCHANGED <<now, entry, summary, crossed>>

LockMember(c, op, e) ==
  /\ Takes(c, op)
  /\ lock = NoCall
  /\ ReadUnderLock(c, op, e)
  /\ IF Refused(op, e)
     THEN call' = [call EXCEPT ![c] = Idle] /\ UNCHANGED lock
     ELSE call' = [call EXCEPT ![c] = At("locked", op, e, SeenUnderLock(c, op, e))] /\ lock' = c
  /\ op = "create" => typed < MaxTyped
  /\ typed' = IF op = "create" THEN typed + 1 ELSE typed
  /\ UNCHANGED <<now, entry, summary, crossed>>

(* Mutant of Fail: the lock outlives the transaction.                       *)
FailHolding(c) ==
  /\ call' = [call EXCEPT ![c] = Idle]
  /\ UNCHANGED <<now, entry, summary, lock, typed, crossed>>

(* The act is refused after all: its transaction is undone.                 *)
Fail(c) ==
  /\ call' = [call EXCEPT ![c] = Idle]
  /\ lock' = NoCall
  /\ UNCHANGED <<now, entry, summary, typed, crossed>>

Holds(c, op) == call[c].pc = "locked" /\ call[c].op = op

(* stopTimer; a break begun and a clock-out stop the timer the same way.    *)
StopTimer(c) ==
  LET e == call[c].e
  IN  /\ Holds(c, "stop")
      /\ Write(c, "written", [x \in {e} |-> Stopped(entry[e], now)], {entry[e].p})

(* Mutants of StartTimer: the timer that runs is left running; it is        *)
(* stopped, and its project's sum forgotten.                                *)
StartTimerBeside(c, new, p) ==
  /\ Holds(c, "start")
  /\ entry[new] = Unborn
  /\ Write(c, "written", [x \in {new} |-> Started(p)], {})

StartTimerUncounted(c, new, p) ==
  LET e == call[c].e
      stopped == IF e = NoEntry THEN {} ELSE {e}
  IN  /\ Holds(c, "start")
      /\ entry[new] = Unborn
      /\ Write(c, "written",
               [x \in {new} \cup stopped |-> IF x = new THEN Started(p) ELSE Stopped(entry[x], now)], {})

StartTimer(c, new, p) ==
  LET e == call[c].e
      stopped == IF e = NoEntry THEN {} ELSE {e}
  IN  /\ Holds(c, "start")
      /\ entry[new] = Unborn
      /\ Write(c, "written",
               [x \in {new} \cup stopped |-> IF x = new THEN Started(p) ELSE Stopped(entry[x], now)],
               {entry[x].p : x \in stopped})

(* undoStart: the entry just started goes for good, the one it stopped runs *)
(* again.                                                                   *)
Undoable(started, resume) ==
  /\ resume # started
  /\ resume \in Live(entry) \ Running(entry)
  /\ now - entry[started].start <= UndoWindow
  /\ entry[resume].stop = entry[started].start

UndoStart(c, resume) ==
  LET started == call[c].e
  IN  /\ Holds(c, "undo")
      /\ Undoable(started, resume)
      /\ Write(c, "written",
               [x \in {started, resume} |->
                  IF x = started THEN [entry[x] EXCEPT !.st = "erased"]
                                 ELSE [entry[x] EXCEPT !.stop = NotStopped, !.hand = @ \/ entry[started].hand]],
               {entry[started].p, entry[resume].p})

NothingToUndo(c) ==
  /\ Holds(c, "undo")
  /\ \A resume \in Entries : ~Undoable(call[c].e, resume)
  /\ Fail(c)

(* createEntry: a finished entry, as typed.                                 *)
CreateEntry(c, new, p, from, to) ==
  /\ Holds(c, "create")
  /\ entry[new] = Unborn
  /\ from < to /\ to <= now
  /\ Write(c, "written",
           [x \in {new} |-> [st |-> "live", start |-> from, stop |-> to, p |-> p, review |-> FALSE, hand |-> TRUE]],
           {p})

(* updateEntry: the whole row is written as it was read under the lock,     *)
(* with another project ...                                                 *)
MoveEntry(c, p) ==
  LET e == call[c].e
      saw == call[c].saw
  IN  /\ Holds(c, "update")
      /\ Write(c, "written", [x \in {e} |-> [saw EXCEPT !.p = p]], {saw.p, p})

(* ... or with an interval a person answers for; a running entry may be     *)
(* given its end, or another start and run on.                              *)
Retime(c, from, to) ==
  LET e == call[c].e
      saw == call[c].saw
  IN  /\ Holds(c, "update")
      /\ IF to = NotStopped THEN saw.stop = NotStopped /\ from <= now ELSE from < to /\ to <= now
      /\ Write(c, "written",
               [x \in {e} |-> [saw EXCEPT !.start = from, !.stop = to, !.review = FALSE, !.hand = TRUE]],
               {saw.p})

(* deleteEntry, with the row as it was before the lock: a running one is    *)
(* stopped as it goes, and refused when its start was moved meanwhile.      *)
Deletable(c) ==
  /\ entry[call[c].e].st # "erased"
  /\ call[c].saw.stop = NotStopped => entry[call[c].e].start = call[c].saw.start

DeleteEntry(c) ==
  LET e == call[c].e
      saw == call[c].saw
      end == IF saw.stop = NotStopped THEN now ELSE entry[e].stop
  IN  /\ Holds(c, "delete")
      /\ Deletable(c)
      /\ Write(c, "written", [x \in {e} |-> [entry[e] EXCEPT !.st = "gone", !.stop = end]], {saw.p})

NothingToDelete(c) ==
  /\ Holds(c, "delete")
  /\ ~Deletable(c)
  /\ Fail(c)

Commit(c) ==
  /\ call[c].pc = "written"
  /\ CommitWrites(c, Idle)
  /\ lock' = NoCall
  /\ UNCHANGED <<now, typed, crossed>>

Tick ==
  /\ now < MaxNow
  /\ now' = now + 1
  /\ UNCHANGED <<entry, summary, lock, call, typed, crossed>>

-----------------------------------------------------------------------------
Settle(c) == SettleWrite(c) \/ SettleMissed(c) \/ SettleRefused(c) \/ SettleCommit(c)

Act(c) ==
  \/ \E op \in Acts, e \in Entries \cup {NoEntry} : LockMember(c, op, e)
  \/ StopTimer(c)
  \/ \E new \in Entries, p \in Projects : StartTimer(c, new, p)
  \/ \E resume \in Entries : UndoStart(c, resume)
  \/ NothingToUndo(c)
  \/ \E new \in Entries, p \in Projects, from, to \in 0 .. MaxNow : CreateEntry(c, new, p, from, to)
  \/ \E p \in Projects : MoveEntry(c, p)
  \/ \E from \in 0 .. MaxNow, to \in 0 .. MaxNow \cup {NotStopped} : Retime(c, from, to)
  \/ DeleteEntry(c) \/ NothingToDelete(c)
  \/ Commit(c)

Next ==
  \/ Tick
  \/ \E c \in Calls :
       \/ \E op \in Settling : Begin(c, op)
       \/ \E op \in {"update", "delete"}, e \in Entries : BeginOn(c, op, e)
       \/ Settle(c)
       \/ Act(c)

Spec == Init /\ [][Next]_vars

-----------------------------------------------------------------------------
(* At most one entry of the member runs, without the index that would       *)
(* refuse the second: every start and every reopening holds the lock.       *)
OneRunning == Cardinality(Running(entry)) <= 1

(* No instant is counted by two entries left to the timer, whatever was     *)
(* switched, undone, stopped late or stopped by the cron in between         *)
(* (entries.ts: "timer-created overlaps are impossible").                   *)
Covers(row, t) == row.start <= t /\ (row.stop = NotStopped \/ t < row.stop)

TimerOverlapImpossible ==
  \A e, f \in Live(entry) :
    e # f /\ ~entry[e].hand /\ ~entry[f].hand =>
      ~\E t \in 0 .. MaxNow : Covers(entry[e], t) /\ Covers(entry[f], t)

(* Passes that met the same running entry stop it once: what one writes,    *)
(* and audits, ends an entry that was running until then, at its bound and  *)
(* for review.                                                              *)
AutoStopOnce ==
  [][\A c \in Calls :
       call[c].pc = "settled" /\ call'[c].pc # "settled" =>
         \A e \in DOMAIN call[c].w :
           /\ entry[e].stop = NotStopped
           /\ entry'[e].stop = Bound(entry[e]) /\ entry'[e].review]_vars

(* A deleted entry is not brought back by a correction, a stop or an undo   *)
(* that had read it before.                                                 *)
DeletedStays == [][\A e \in Entries : entry[e].st = "gone" => entry'[e].st = "gone"]_vars

(* What a project is shown to have used is the sum of its finished entries  *)
(* (time.dbtest.ts: "project_time_summary == SUM(time_entry)").             *)
SummaryIsTotal == \A p \in Projects : summary[p] = Seconds(entry, p)

(* So it is as long as no two sums of one project were under way at once    *)
(* and no entry changed project under a call that had read it.              *)
SummaryIsTotalUnlessCrossed == ~crossed => SummaryIsTotal
=============================================================================
