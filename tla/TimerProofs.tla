----------------------------- MODULE TimerProofs -----------------------------
(***************************************************************************)
(* Proofs about Timer, for any entries, projects and overlapping calls,    *)
(* however long they last: one entry runs, the timer counts no instant     *)
(* twice, an automatic stop ends a running entry once, a deleted entry     *)
(* stays deleted, and a project's sum is that of its entries unless two    *)
(* transactions met in one of the two ways that mislead it.                *)
(***************************************************************************)
EXTENDS Timer, SumTheorems

(* A row's columns, and a call's.                                           *)
CallShape(k) ==
  /\ k = [pc |-> k.pc, op |-> k.op, e |-> k.e, saw |-> k.saw, w |-> k.w, sums |-> k.sums, after |-> k.after]
  /\ k.op \in Acts \cup {"look"} /\ k.e \in Entries \cup {NoEntry} /\ k.saw \in Rows
  /\ DOMAIN k.w \subseteq Entries /\ \A x \in DOMAIN k.w : k.w[x] \in Rows

Shape ==
  /\ now \in 0 .. MaxNow
  /\ entry \in [Entries -> Rows]
  /\ call = [c \in Calls |-> call[c]]
  /\ \A c \in Calls : CallShape(call[c])

(* What is true of the member's rows whenever no write is under way: one    *)
(* runs, what the timer alone made does not overlap and is in the past.     *)
Good(rows, n) ==
  /\ \A e, f \in Running(rows) : e = f
  /\ \A e, f \in Live(rows) : e # f /\ ~rows[e].hand /\ ~rows[f].hand =>
       \A t \in 0 .. MaxNow : ~(Covers(rows[e], t) /\ Covers(rows[f], t))
  /\ \A e \in Live(rows) : ~rows[e].hand => rows[e].stop <= n

(* The rows, had nobody but the call touched the one it read.               *)
AsSeen(c) == [x \in Entries |-> IF x = call[c].e THEN call[c].saw ELSE entry[x]]

(* The lock is with the call that is past LockMember.                       *)
LockOK ==
  /\ lock \in Calls \cup {NoCall}
  /\ \A c \in Calls : call[c].pc \in {"locked", "written"} <=> lock = c

(* Rows written and not committed are one transaction's.                    *)
RowsApart ==
  /\ \A c \in Calls : call[c].pc \notin {"settled", "written"} => DOMAIN call[c].w = {}
  /\ \A c, d \in Calls : c # d => DOMAIN call[c].w \cap DOMAIN call[d].w = {}

(* A settling pass: what it read was overdue, what it writes still runs.    *)
(* No delete begins with one: it has read its row instead.                  *)
Passing(c) ==
  /\ call[c].pc \in {"saw", "settled"} => call[c].op \in Settling
  /\ call[c].pc = "ready" /\ call[c].op = "delete" => call[c].e \in Entries
  /\ call[c].pc = "saw" => call[c].e \in Entries /\ Bound(call[c].saw) <= now
  /\ call[c].pc = "settled" =>
       \A e \in DOMAIN call[c].w : /\ entry[e].st \in {"live", "gone"} /\ entry[e].stop = NotStopped
                                   /\ Bound(entry[e]) <= now /\ call[c].w[e] = AutoStopped(entry[e])

(* An act under the lock: what it read may since have been stopped by a     *)
(* pass, and nothing else.                                                  *)
Acting(c) ==
  call[c].pc = "locked" =>
    LET e == call[c].e
        op == call[c].op
    IN  /\ op \in Acts
        /\ e = NoEntry => op \in {"start", "create"} /\ (op = "start" => Running(entry) = {})
        /\ op = "create" => e = NoEntry
        /\ e # NoEntry /\ op # "delete" =>
             /\ entry[e].st = "live" /\ call[c].saw.st = "live"
             /\ entry[e].start = call[c].saw.start /\ entry[e].hand = call[c].saw.hand
             /\ Good(AsSeen(c), now)
             /\ op # "update" => call[c].saw.stop = NotStopped

(* What a transaction under the lock has written keeps the rows good, and   *)
(* brings no deleted entry back.                                            *)
Written(c) ==
  call[c].pc = "written" =>
    /\ Good(Overlay(entry, call[c].w), now)
    /\ \A e \in DOMAIN call[c].w : entry[e].st = "gone" => call[c].w[e].st = "gone"

IInv ==
  /\ Shape /\ LockOK /\ RowsApart
  /\ \A c \in Calls : Passing(c) /\ Acting(c) /\ Written(c)
  /\ Good(entry, now)

-----------------------------------------------------------------------------
(* Rows that only lose running entries to a stop in the past, or change     *)
(* project, stay good, and they do as time passes.                          *)
LEMMA Shrinks ==
  ASSUME NEW rows, NEW less, NEW n \in Int, NEW m \in Int, n <= m, Good(rows, n),
         \A x \in Entries : rows[x] \in Rows,
         \A x \in Entries :
           \/ less[x] = rows[x]
           \/ /\ less[x].st = rows[x].st /\ less[x].hand = rows[x].hand
              /\ less[x].start = rows[x].start /\ less[x].stop = rows[x].stop
           \/ /\ less[x].st = rows[x].st /\ less[x].hand = rows[x].hand /\ less[x].start = rows[x].start
              /\ rows[x].stop = NotStopped /\ less[x].stop \in Nat /\ less[x].stop <= m
           \/ less[x].st # "live"
  PROVE  Good(less, m)
  <1>1. Live(less) \subseteq Live(rows) /\ Running(less) \subseteq Running(rows)
    BY DEF Live, Running, NotStopped
  <1>2. ASSUME NEW x \in Live(less), NEW t \in 0 .. MaxNow, Covers(less[x], t) PROVE Covers(rows[x], t)
    BY <1>2 DEF Covers, Live
  <1>3. \A x \in Live(less) : less[x].hand = rows[x].hand
    BY DEF Live
  <1>4. \A x \in Live(less) : ~less[x].hand => less[x].stop <= m
    <2>1. \A x \in Entries : rows[x].stop \in Int
      BY TimerAssumption DEF Rows, NotStopped
    <2> QED BY <1>1, <1>3, <2>1 DEF Good, Live
  <1> QED BY <1>1, <1>2, <1>3, <1>4 DEF Good

(* So do they when a row takes an interval a person answers for, unless it  *)
(* starts to run by that.                                                   *)
LEMMA ByHand ==
  ASSUME NEW rows, NEW other, NEW n \in Int, NEW f \in Entries, Good(rows, n), other[f].hand,
         f \in Running(other) => f \in Running(rows),
         \A x \in Entries \ {f} : other[x] = rows[x]
  PROVE  Good(other, n)
  <1>1. Running(other) \subseteq Running(rows)
    BY DEF Running, Live
  <1>2. \A x \in Live(other) : ~other[x].hand => x \in Live(rows) /\ other[x] = rows[x]
    BY DEF Live
  <1> QED BY <1>1, <1>2 DEF Good

(* So do they when a timer starts and none runs.                            *)
LEMMA Starts ==
  ASSUME NEW rows, NEW more, NEW n \in Int, NEW f \in Entries, Good(rows, n), Running(rows) = {},
         \A x \in Entries : rows[x].stop \in Int,
         more[f].start = n, more[f].stop = NotStopped, n \in Nat,
         \A x \in Entries \ {f} : more[x] = rows[x]
  PROVE  Good(more, n)
  <1>1. Running(more) \subseteq {f}
    BY DEF Running, Live
  <1>2. \A x \in Live(more) : x # f => x \in Live(rows) /\ more[x] = rows[x] /\ more[x].stop # NotStopped
    BY DEF Live, Running
  <1>3. ASSUME NEW x \in Live(more), x # f, ~more[x].hand, NEW t \in 0 .. MaxNow, Covers(more[f], t), Covers(more[x], t)
        PROVE  FALSE
    <2>1. more[x].stop \in Int /\ more[x].stop <= n /\ t < more[x].stop
      BY <1>2, <1>3 DEF Good, Covers, Live
    <2>2. n <= t
      BY <1>3 DEF Covers
    <2> QED BY <1>3, <2>1, <2>2
  <1>4. \A x \in Live(more) : ~more[x].hand => more[x].stop <= n
    BY <1>2 DEF Good, NotStopped
  <1>5. ASSUME NEW x \in Live(more), NEW y \in Live(more), x # y, ~more[x].hand, ~more[y].hand, NEW t \in 0 .. MaxNow,
               Covers(more[x], t), Covers(more[y], t)
        PROVE  FALSE
    <2>1. x # f /\ y # f
      BY <1>3, <1>5
    <2> QED BY <1>2, <1>5, <2>1 DEF Good
  <1> QED BY <1>1, <1>4, <1>5 DEF Good

-----------------------------------------------------------------------------
(* What the steps do to the variables. *)

(* A call at rest has written nothing.                                      *)
LEMMA IdleFacts == CallShape(Idle) /\ DOMAIN Idle.w = {} /\ Idle.pc = "idle"
  <1>1. DOMAIN Idle.w = {}
    BY DEF Idle
  <1>2. Unborn \in Rows
    BY TimerAssumption DEF Unborn, Rows, NotStopped
  <1> QED BY <1>1, <1>2 DEF Idle, CallShape, Acts

(* A call that moves on holds what it was given and has written nothing.    *)
LEMMA Entered ==
  ASSUME NEW pc, NEW op \in Acts \cup {"look"}, NEW e \in Entries \cup {NoEntry}, NEW saw \in Rows
  PROVE  /\ CallShape(At(pc, op, e, saw)) /\ DOMAIN At(pc, op, e, saw).w = {}
         /\ At(pc, op, e, saw).pc = pc /\ At(pc, op, e, saw).op = op
         /\ At(pc, op, e, saw).e = e /\ At(pc, op, e, saw).saw = saw
  <1> DEFINE j == Idle
             k == At(pc, op, e, saw)
  <1>1. CallShape(j) /\ DOMAIN j.w = {}
    BY IdleFacts
  <1>2. k = [j EXCEPT !.pc = pc, !.op = op, !.e = e, !.saw = saw]
    BY DEF At
  <1> HIDE DEF j, k
  <1>3. k = [pc |-> pc, op |-> op, e |-> e, saw |-> saw, w |-> j.w, sums |-> j.sums, after |-> j.after]
    BY <1>1, <1>2 DEF CallShape
  <1>4. CallShape(k) /\ DOMAIN k.w = {} /\ k.pc = pc /\ k.op = op /\ k.e = e /\ k.saw = saw
    BY <1>1, <1>3 DEF CallShape
  <1> USE DEF k
  <1> QED BY <1>4

(* So does one that has settled.                                            *)
LEMMA SettledFacts ==
  ASSUME NEW op \in Acts \cup {"look"}
  PROVE  /\ CallShape(Settled(op)) /\ DOMAIN Settled(op).w = {} /\ Settled(op).pc \in {"idle", "ready"}
         /\ Settled(op).pc = "ready" => Settled(op).op = op
  <1>1. CASE op = "look"
    BY <1>1, IdleFacts DEF Settled
  <1>2. CASE op # "look"
    <2>1. Unborn \in Rows
      BY IdleFacts DEF Idle, CallShape
    <2> QED BY <1>2, <2>1, Entered DEF Settled
  <1> QED BY <1>1, <1>2

(* The writes of a transaction change its call and no row.                  *)
LEMMA WriteFacts ==
  ASSUME Shape, NEW c \in Calls, NEW pc, NEW w, NEW touched, Write(c, pc, w, touched),
         DOMAIN w \subseteq Entries, \A x \in DOMAIN w : w[x] \in Rows
  PROVE  /\ Shape' /\ UNCHANGED <<now, entry, lock>>
         /\ call'[c].pc = pc /\ call'[c].w = w /\ call'[c].op = call[c].op
         /\ call'[c].e = call[c].e /\ call'[c].saw = call[c].saw
         /\ \A d \in Calls \ {c} : call'[d] = call[d] /\ DOMAIN call[d].w \cap DOMAIN w = {}
  <1> DEFINE k == call[c]
             s == [p \in touched |-> Seconds(Overlay(entry, w), p)]
             a == Summing(c, touched)
  <1>1. k = [pc |-> k.pc, op |-> k.op, e |-> k.e, saw |-> k.saw, w |-> k.w, sums |-> k.sums, after |-> k.after]
    BY DEF Shape, CallShape
  <1>2. call' = [call EXCEPT ![c].pc = pc, ![c].w = w, ![c].after = a, ![c].sums = s]
    BY DEF Write
  <1>3. call' = [d \in Calls |-> call'[d]] /\ \A d \in Calls \ {c} : call'[d] = call[d]
    <2> HIDE DEF s, a
    <2> QED BY <1>2 DEF Shape
  <1>4. call'[c] = [pc |-> pc, op |-> k.op, e |-> k.e, saw |-> k.saw, w |-> w, sums |-> s, after |-> a]
    <2>1. call'[c] = [k EXCEPT !.pc = pc, !.w = w, !.after = a, !.sums = s]
      <3> HIDE DEF s, a
      <3> QED BY <1>2 DEF Shape
    <2> HIDE DEF s, a, k
    <2> QED BY <1>1, <2>1
  <1>5. /\ call'[c].pc = pc /\ call'[c].w = w /\ call'[c].op = call[c].op
        /\ call'[c].e = call[c].e /\ call'[c].saw = call[c].saw
    BY <1>4
  <1>6. CallShape(call'[c])
    <2> HIDE DEF s, a
    <2> QED BY <1>4 DEF CallShape, Shape
  <1>7. UNCHANGED <<now, entry, lock>> /\ \A d \in Calls \ {c} : DOMAIN call[d].w \cap DOMAIN w = {}
    BY DEF Write
  <1>8. Shape'
    BY <1>3, <1>6, <1>7 DEF Shape
  <1> QED BY <1>3, <1>5, <1>7, <1>8

(* A commit makes the writes the rows and ends the call, or lets it go on.  *)
LEMMA CommitFacts ==
  ASSUME Shape, NEW c \in Calls, NEW next, CallShape(next), CommitWrites(c, next), now' = now
  PROVE  /\ Shape' /\ call'[c] = next
         /\ \A x \in Entries : entry'[x] = IF x \in DOMAIN call[c].w THEN call[c].w[x] ELSE entry[x]
         /\ \A d \in Calls \ {c} : /\ call'[d].pc = call[d].pc /\ call'[d].op = call[d].op /\ call'[d].e = call[d].e
                                   /\ call'[d].saw = call[d].saw /\ call'[d].w = call[d].w
  <1>1. entry' = [x \in Entries |-> IF x \in DOMAIN call[c].w THEN call[c].w[x] ELSE entry[x]]
    BY DEF CommitWrites, Overlay
  <1>2. entry' \in [Entries -> Rows]
    BY <1>1 DEF Shape, CallShape
  <1>3. call' = [d \in Calls |-> IF d = c THEN next ELSE [call[d] EXCEPT !.after = @ \ {c}]]
    BY DEF CommitWrites
  <1>4. ASSUME NEW d \in Calls \ {c}
        PROVE  /\ call'[d].pc = call[d].pc /\ call'[d].op = call[d].op /\ call'[d].e = call[d].e
               /\ call'[d].saw = call[d].saw /\ call'[d].w = call[d].w /\ CallShape(call'[d])
    <2> DEFINE k == call[d]
    <2>1. CallShape(k)
      BY DEF Shape
    <2>2. call'[d] = [k EXCEPT !.after = k.after \ {c}]
      BY <1>3
    <2> HIDE DEF k
    <2>3. call'[d] = [pc |-> k.pc, op |-> k.op, e |-> k.e, saw |-> k.saw, w |-> k.w, sums |-> k.sums, after |-> k.after \ {c}]
      BY <2>1, <2>2 DEF CallShape
    <2> QED BY <2>1, <2>3 DEF k, CallShape
  <1>5. call'[c] = next
    BY <1>3
  <1>6. Shape'
    BY <1>2, <1>3, <1>4, <1>5 DEF Shape
  <1> QED BY <1>1, <1>4, <1>5, <1>6

-----------------------------------------------------------------------------
(* Every kind of step keeps the invariant. *)

(* What a call relies on stands when another call alone has moved.          *)
LEMMA Others ==
  ASSUME IInv, NEW d \in Calls, call'[d] = call[d], UNCHANGED <<now, entry>>
  PROVE  Passing(d)' /\ Acting(d)' /\ Written(d)'
  BY DEF IInv, Passing, Acting, Written, AsSeen

(* A call moves on, no row with it.                                         *)
LEMMA CallOnly ==
  ASSUME IInv, NEW c \in Calls, NEW k, CallShape(k), DOMAIN k.w = {}, k.pc \in {"idle", "saw", "ready", "locked"},
         call' = [call EXCEPT ![c] = k], UNCHANGED <<now, entry>>,
         IF k.pc = "locked" THEN lock = NoCall /\ lock' = c
                            ELSE lock' = IF call[c].pc \in {"locked", "written"} THEN NoCall ELSE lock,
         Passing(c)', Acting(c)'
  PROVE  IInv'
  <1> USE DEF IInv
  <1>1. call'[c] = k /\ \A d \in Calls \ {c} : call'[d] = call[d]
    BY DEF Shape
  <1>2. Shape'
    BY <1>1 DEF Shape
  <1>3. LockOK'
    BY <1>1, TimerAssumption DEF LockOK
  <1>4. RowsApart'
    BY <1>1 DEF RowsApart
  <1>5. Written(c)'
    BY <1>1 DEF Written
  <1>6. \A d \in Calls : Passing(d)' /\ Acting(d)' /\ Written(d)'
    BY <1>1, <1>5, Others
  <1>7. Good(entry, now)'
    OBVIOUS
  <1> QED BY <1>2, <1>3, <1>4, <1>6, <1>7

(* An act writes, under the lock.                                           *)
LEMMA WriteOK ==
  ASSUME IInv, NEW c \in Calls, NEW w, NEW touched, call[c].pc = "locked", Write(c, "written", w, touched),
         DOMAIN w \subseteq Entries, \A x \in DOMAIN w : w[x] \in Rows,
         Good(Overlay(entry, w), now),
         \A x \in DOMAIN w : entry[x].st = "gone" => w[x].st = "gone"
  PROVE  IInv'
  <1> USE DEF IInv
  <1>1. /\ Shape' /\ UNCHANGED <<now, entry, lock>>
        /\ call'[c].pc = "written" /\ call'[c].w = w
        /\ \A d \in Calls \ {c} : call'[d] = call[d] /\ DOMAIN call[d].w \cap DOMAIN w = {}
    BY WriteFacts
  <1>2. LockOK'
    BY <1>1 DEF LockOK
  <1>3. RowsApart'
    BY <1>1 DEF RowsApart
  <1>4. Passing(c)' /\ Acting(c)' /\ Written(c)'
    BY <1>1 DEF Passing, Acting, Written
  <1>5. \A d \in Calls : Passing(d)' /\ Acting(d)' /\ Written(d)'
    BY <1>1, <1>4, Others
  <1>6. Good(entry, now)'
    BY <1>1
  <1> QED BY <1>1, <1>2, <1>3, <1>5, <1>6

(* A pass writes the stop of the entry it read.                             *)
LEMMA SettleWriteOK ==
  ASSUME IInv, NEW c \in Calls, SettleWrite(c)
  PROVE  IInv'
  <1> USE DEF IInv
  <1> DEFINE e == call[c].e
             w == [x \in {e} |-> AutoStopped(entry[e])]
  <1>1. /\ call[c].pc = "saw" /\ StillRuns(e) /\ entry[e].start = call[c].saw.start
        /\ Write(c, "settled", w, {call[c].saw.p})
    BY DEF SettleWrite
  <1>2. e \in Entries /\ Bound(entry[e]) <= now
    BY <1>1 DEF Passing, Bound
  <1>3. AutoStopped(entry[e]) \in Rows
    <2>1. entry[e] \in Rows /\ now \in 0 .. MaxNow
      BY <1>2 DEF Shape
    <2>2. Bound(entry[e]) \in 0 .. MaxNow
      BY <1>2, <2>1, TimerAssumption DEF Bound, Rows
    <2> QED BY <2>1, <2>2 DEF AutoStopped, Rows
  <1>4. DOMAIN w = {e} /\ w[e] = AutoStopped(entry[e])
    OBVIOUS
  <1>5. /\ Shape' /\ UNCHANGED <<now, entry, lock>>
        /\ call'[c].pc = "settled" /\ call'[c].w = w /\ call'[c].op = call[c].op
        /\ \A d \in Calls \ {c} : call'[d] = call[d] /\ DOMAIN call[d].w \cap DOMAIN w = {}
    <2> HIDE DEF w
    <2> QED BY <1>1, <1>2, <1>3, <1>4, WriteFacts
  <1>6. LockOK'
    BY <1>1, <1>5 DEF LockOK
  <1>7. RowsApart'
    <2> HIDE DEF w
    <2> QED BY <1>5 DEF RowsApart
  <1>8. Passing(c)' /\ Acting(c)' /\ Written(c)'
    <2>1. call'[c].w[e] = AutoStopped(entry[e]) /\ DOMAIN call'[c].w = {e}
      BY <1>4, <1>5
    <2>2. entry[e].st \in {"live", "gone"} /\ entry[e].stop = NotStopped
      BY <1>1 DEF StillRuns
    <2>3. call'[c].op \in Settling
      BY <1>1, <1>5 DEF Passing
    <2> HIDE DEF w, e
    <2> QED BY <1>2, <1>5, <2>1, <2>2, <2>3 DEF Passing, Acting, Written, Bound, AutoStopped
  <1>9. \A d \in Calls : Passing(d)' /\ Acting(d)' /\ Written(d)'
    <2> HIDE DEF w
    <2> QED BY <1>5, <1>8, Others
  <1>10. Good(entry, now)'
    BY <1>5
  <1> QED BY <1>5, <1>6, <1>7, <1>9, <1>10

(* An automatic stop is only a stop.                                        *)
LEMMA AutoStoppedRow ==
  ASSUME NEW row \in Rows
  PROVE  /\ AutoStopped(row).st = row.st /\ AutoStopped(row).hand = row.hand
         /\ AutoStopped(row).start = row.start /\ AutoStopped(row).stop = Bound(row) /\ AutoStopped(row).review
  BY DEF AutoStopped, Rows

(* A pass commits: entries stop at a bound that is past, and no more.       *)
LEMMA SettleCommitOK ==
  ASSUME IInv, NEW c \in Calls, SettleCommit(c)
  PROVE  IInv'
  <1> USE DEF IInv
  <1> DEFINE k == Settled(call[c].op)
  <1>1. call[c].pc = "settled" /\ CommitWrites(c, k) /\ UNCHANGED <<now, lock>>
    BY DEF SettleCommit
  <1>2. CallShape(k) /\ DOMAIN k.w = {} /\ k.pc \in {"idle", "ready"} /\ ~(k.pc = "ready" /\ k.op = "delete")
    BY <1>1, SettledFacts DEF Passing, Settling, Acts
  <1>3. /\ Shape' /\ call'[c] = k
        /\ \A x \in Entries : entry'[x] = IF x \in DOMAIN call[c].w THEN call[c].w[x] ELSE entry[x]
        /\ \A d \in Calls \ {c} : /\ call'[d].pc = call[d].pc /\ call'[d].op = call[d].op /\ call'[d].e = call[d].e
                                  /\ call'[d].saw = call[d].saw /\ call'[d].w = call[d].w
    <2> HIDE DEF k
    <2> QED BY <1>1, <1>2, CommitFacts
  <1> HIDE DEF k
  <1>4. \A x \in Entries :
          \/ entry'[x] = entry[x]
          \/ /\ x \in DOMAIN call[c].w
             /\ entry'[x].st = entry[x].st /\ entry'[x].hand = entry[x].hand /\ entry'[x].start = entry[x].start
             /\ entry[x].stop = NotStopped /\ entry'[x].stop \in Nat /\ entry'[x].stop <= now
    <2> SUFFICES ASSUME NEW x \in Entries, x \in DOMAIN call[c].w
                 PROVE  /\ entry'[x].st = entry[x].st /\ entry'[x].hand = entry[x].hand /\ entry'[x].start = entry[x].start
                        /\ entry[x].stop = NotStopped /\ entry'[x].stop \in Nat /\ entry'[x].stop <= now
      BY <1>3
    <2>1. entry'[x] = AutoStopped(entry[x]) /\ entry[x].stop = NotStopped /\ Bound(entry[x]) <= now
      BY <1>1, <1>3 DEF Passing
    <2>2. entry[x] \in Rows
      BY DEF Shape
    <2>3. Bound(entry[x]) \in Nat
      BY <2>2, TimerAssumption DEF Bound, Rows
    <2>4. /\ AutoStopped(entry[x]).st = entry[x].st /\ AutoStopped(entry[x]).hand = entry[x].hand
          /\ AutoStopped(entry[x]).start = entry[x].start /\ AutoStopped(entry[x]).stop = Bound(entry[x])
      BY <2>2, AutoStoppedRow
    <2> QED BY <2>1, <2>3, <2>4
  <1>5. LockOK' /\ RowsApart'
    BY <1>1, <1>2, <1>3 DEF LockOK, RowsApart
  <1>6. Good(entry, now)'
    BY <1>1, <1>4, Shrinks DEF Shape
  <1>7. Passing(c)' /\ Acting(c)' /\ Written(c)'
    BY <1>2, <1>3 DEF Passing, Acting, Written
  <1>8. ASSUME NEW d \in Calls \ {c} PROVE Passing(d)' /\ Acting(d)' /\ Written(d)'
    <2>1. \A x \in DOMAIN call[d].w : x \in Entries /\ x \notin DOMAIN call[c].w /\ entry'[x] = entry[x]
      BY <1>3 DEF RowsApart, Shape, CallShape
    <2>2. Passing(d)'
      BY <1>1, <1>3, <2>1 DEF Passing
    <2>3. Written(d)'
      <3>1. CASE call[d].pc = "written"
        <4> DEFINE o == Overlay(entry, call[d].w)
                   n == Overlay(entry', call[d].w)
        <4>1. Good(o, now) /\ \A x \in Entries : o[x] \in Rows
          BY <3>1 DEF Written, Overlay, Shape, CallShape
        <4>2. \A x \in Entries :
                \/ n[x] = o[x]
                \/ /\ n[x].st = o[x].st /\ n[x].hand = o[x].hand /\ n[x].start = o[x].start
                   /\ o[x].stop = NotStopped /\ n[x].stop \in Nat /\ n[x].stop <= now
          BY <1>4 DEF Overlay
        <4>3. Good(n, now)
          <5> HIDE DEF n, o
          <5> QED BY <4>1, <4>2, Shrinks DEF Shape
        <4> QED BY <1>1, <1>3, <2>1, <3>1, <4>3 DEF Written
      <3>2. CASE call[d].pc # "written"
        BY <1>3, <3>2 DEF Written
      <3> QED BY <3>1, <3>2
    <2>4. Acting(d)'
      <3>1. CASE call[d].pc # "locked"
        BY <1>3, <3>1 DEF Acting
      <3>2. CASE call[d].pc = "locked" /\ call[d].e = NoEntry
        <4>1. Running(entry') \subseteq Running(entry)
          BY <1>4 DEF Running, Live, NotStopped
        <4> QED BY <1>3, <3>2, <4>1 DEF Acting
      <3>3. CASE call[d].pc = "locked" /\ call[d].e # NoEntry /\ call[d].op = "delete"
        BY <1>3, <3>3 DEF Acting
      <3>4. CASE call[d].pc = "locked" /\ call[d].e # NoEntry /\ call[d].op # "delete"
        <4> DEFINE o == AsSeen(d)
                   n == [x \in Entries |-> IF x = call[d].e THEN call[d].saw ELSE entry'[x]]
        <4>1. Good(o, now) /\ \A x \in Entries : o[x] \in Rows
          BY <3>4 DEF Acting, AsSeen, Shape, CallShape
        <4>2. \A x \in Entries :
                \/ n[x] = o[x]
                \/ /\ n[x].st = o[x].st /\ n[x].hand = o[x].hand /\ n[x].start = o[x].start
                   /\ o[x].stop = NotStopped /\ n[x].stop \in Nat /\ n[x].stop <= now
          BY <1>4 DEF AsSeen
        <4>3. Good(n, now)
          <5> HIDE DEF n, o
          <5> QED BY <4>1, <4>2, Shrinks DEF Shape
        <4>4. call[d].e \in Entries
          BY <3>4 DEF Shape, CallShape
        <4>5. n = AsSeen(d)'
          BY <1>3 DEF AsSeen
        <4>6. Good(AsSeen(d), now)'
          <5> HIDE DEF n, o
          <5> QED BY <1>1, <4>3, <4>5
        <4> QED BY <1>1, <1>3, <1>4, <3>4, <4>4, <4>6 DEF Acting
      <3> QED BY <3>1, <3>2, <3>3, <3>4
    <2> QED BY <2>2, <2>3, <2>4
  <1> QED BY <1>3, <1>5, <1>6, <1>7, <1>8

(* The act commits what it has written.                                     *)
LEMMA CommitOK ==
  ASSUME IInv, NEW c \in Calls, Commit(c)
  PROVE  IInv'
  <1> USE DEF IInv
  <1>1. call[c].pc = "written" /\ CommitWrites(c, Idle) /\ lock' = NoCall /\ now' = now
    BY DEF Commit
  <1>2. /\ Shape' /\ call'[c] = Idle
        /\ \A x \in Entries : entry'[x] = IF x \in DOMAIN call[c].w THEN call[c].w[x] ELSE entry[x]
        /\ \A d \in Calls \ {c} : /\ call'[d].pc = call[d].pc /\ call'[d].op = call[d].op /\ call'[d].e = call[d].e
                                  /\ call'[d].saw = call[d].saw /\ call'[d].w = call[d].w
    BY <1>1, IdleFacts, CommitFacts
  <1>3. lock = c /\ \A d \in Calls \ {c} : call'[d].pc \notin {"locked", "written"}
    BY <1>1, <1>2 DEF LockOK
  <1>4. LockOK'
    BY <1>1, <1>2, <1>3, IdleFacts, TimerAssumption DEF LockOK
  <1>5. RowsApart'
    BY <1>2, IdleFacts DEF RowsApart
  <1>6. Good(entry, now)'
    BY <1>1 DEF Written, CommitWrites
  <1>7. Passing(c)' /\ Acting(c)' /\ Written(c)'
    BY <1>2, IdleFacts DEF Passing, Acting, Written
  <1>8. ASSUME NEW d \in Calls \ {c} PROVE Passing(d)' /\ Acting(d)' /\ Written(d)'
    <2>1. \A x \in DOMAIN call[d].w : x \in Entries /\ x \notin DOMAIN call[c].w /\ entry'[x] = entry[x]
      BY <1>2 DEF RowsApart, Shape, CallShape
    <2> QED BY <1>1, <1>2, <1>3, <2>1 DEF Passing, Acting, Written
  <1> QED BY <1>2, <1>4, <1>5, <1>6, <1>7, <1>8

(* Time passes.                                                             *)
LEMMA TickOK ==
  ASSUME IInv, Tick
  PROVE  IInv'
  <1> USE DEF IInv
  <1>1. now < MaxNow /\ now' = now + 1 /\ UNCHANGED <<entry, lock, call>>
    BY DEF Tick
  <1>2. now \in Int /\ now' \in Int /\ now <= now' /\ now' \in 0 .. MaxNow
    BY <1>1, TimerAssumption DEF Shape
  <1>3. \A x \in Entries : entry[x] \in Rows
    BY DEF Shape
  <1>4. Shape' /\ LockOK' /\ RowsApart'
    BY <1>1, <1>2 DEF Shape, LockOK, RowsApart, CallShape
  <1>5. Good(entry, now')
    BY <1>2, <1>3, Shrinks
  <1>6. ASSUME NEW d \in Calls PROVE Passing(d)' /\ Acting(d)' /\ Written(d)'
    <2>1. CallShape(call[d])
      BY DEF Shape
    <2>2. Passing(d)'
      <3>1. ASSUME call[d].pc = "saw" PROVE Bound(call[d].saw) <= now'
        BY <1>1, <1>2, <2>1, <3>1, TimerAssumption DEF Passing, CallShape, Bound, Rows
      <3>2. ASSUME call[d].pc = "settled", NEW x \in DOMAIN call[d].w PROVE Bound(entry[x]) <= now'
        <4>1. x \in Entries /\ entry[x].start \in Int /\ Bound(entry[x]) <= now
          BY <1>3, <2>1, <3>2 DEF Passing, CallShape, Rows
        <4> QED BY <1>2, <4>1, TimerAssumption DEF Bound
      <3> QED BY <1>1, <3>1, <3>2 DEF Passing
    <2>3. Acting(d)'
      <3>1. ASSUME Good(AsSeen(d), now) PROVE Good(AsSeen(d), now)'
        <4> DEFINE o == AsSeen(d)
        <4>1. \A x \in Entries : o[x] \in Rows
          BY <1>3, <2>1 DEF AsSeen, CallShape
        <4>2. Good(o, now')
          <5>1. Good(o, now)
            BY <3>1
          <5> HIDE DEF o
          <5> QED BY <1>2, <4>1, <5>1, Shrinks
        <4>3. o' = o
          BY <1>1 DEF AsSeen
        <4> HIDE DEF o
        <4>4. Good(o, now)'
          BY <4>2, <4>3
        <4> USE DEF o
        <4> QED BY <4>4
      <3> QED BY <1>1, <3>1 DEF Acting
    <2>4. Written(d)'
      <3>1. ASSUME Good(Overlay(entry, call[d].w), now) PROVE Good(Overlay(entry, call[d].w), now')
        <4> DEFINE o == Overlay(entry, call[d].w)
        <4>1. \A x \in Entries : o[x] \in Rows
          BY <1>3, <2>1 DEF Overlay, CallShape
        <4>2. Good(o, now)
          BY <3>1
        <4> HIDE DEF o
        <4>3. Good(o, now')
          BY <1>2, <4>1, <4>2, Shrinks
        <4> USE DEF o
        <4> QED BY <4>3
      <3> QED BY <1>1, <3>1 DEF Written
    <2> QED BY <2>2, <2>3, <2>4
  <1> QED BY <1>1, <1>4, <1>5, <1>6

(* A call that is not at an act or in a pass relies on nothing.             *)
LEMMA Rests ==
  ASSUME IInv, NEW c \in Calls, NEW k, CallShape(k), DOMAIN k.w = {}, k.pc \in {"idle", "ready"},
         k.pc = "ready" /\ k.op = "delete" => k.e \in Entries,
         call' = [call EXCEPT ![c] = k], UNCHANGED <<now, entry>>,
         lock' = IF call[c].pc \in {"locked", "written"} THEN NoCall ELSE lock
  PROVE  IInv'
  <1>1. call'[c] = k
    BY DEF IInv, Shape
  <1>2. Passing(c)' /\ Acting(c)'
    BY <1>1 DEF Passing, Acting
  <1> QED BY <1>2, CallOnly

(* A call begins, with a pass that has something to stop or has not.        *)
LEMMA BeginOK ==
  ASSUME IInv, NEW c \in Calls, NEW op \in Settling, Begin(c, op)
  PROVE  IInv'
  <1>1. call[c].pc = "idle" /\ UNCHANGED <<now, entry, lock>> /\ op \in Acts \cup {"look"}
    BY DEF Begin, Settling, Acts
  <1>2. CASE Overdue = {}
    <2>1. call' = [call EXCEPT ![c] = Settled(op)]
      BY <1>2 DEF Begin
    <2> QED BY <1>1, <2>1, SettledFacts, Rests DEF Settling
  <1>3. CASE Overdue # {}
    <2>1. PICK e \in Overdue : call' = [call EXCEPT ![c] = At("saw", op, e, entry[e])]
      BY <1>3 DEF Begin
    <2> DEFINE s == entry[e]
               k == At("saw", op, e, s)
    <2>2. e \in Entries /\ Bound(s) <= now /\ s \in Rows
      BY DEF Overdue, Running, Live, IInv, Shape
    <2>3. call' = [call EXCEPT ![c] = k]
      BY <2>1
    <2> HIDE DEF s
    <2>4. CallShape(k) /\ DOMAIN k.w = {} /\ k.pc = "saw" /\ k.op = op /\ k.e = e /\ k.saw = s
      BY <1>1, <2>2, Entered
    <2> HIDE DEF k
    <2>5. call'[c] = k
      BY <2>3 DEF IInv, Shape
    <2>6. Passing(c)' /\ Acting(c)'
      BY <1>1, <2>2, <2>4, <2>5 DEF Passing, Acting, Bound
    <2> QED BY <1>1, <2>3, <2>4, <2>6, CallOnly
  <1> QED BY <1>2, <1>3

(* A correction reads its row.                                              *)
LEMMA BeginOnOK ==
  ASSUME IInv, NEW c \in Calls, NEW op \in {"update", "delete"}, NEW e \in Entries, BeginOn(c, op, e)
  PROVE  IInv'
  <1> DEFINE s == entry[e]
             k == At("ready", op, e, s)
  <1>1. call[c].pc = "idle" /\ call' = [call EXCEPT ![c] = k] /\ UNCHANGED <<now, entry, lock>>
    BY DEF BeginOn
  <1>2. s \in Rows /\ op \in Acts \cup {"look"}
    BY DEF IInv, Shape, Acts
  <1> HIDE DEF s
  <1>3. CallShape(k) /\ DOMAIN k.w = {} /\ k.pc = "ready" /\ k.e = e
    BY <1>2, Entered
  <1> HIDE DEF k
  <1> QED BY <1>1, <1>3, Rests

(* A pass finds its entry stopped, or its start moved.                      *)
LEMMA SettleEndsOK ==
  ASSUME IInv, NEW c \in Calls, SettleMissed(c) \/ SettleRefused(c)
  PROVE  IInv'
  <1>1. call[c].pc = "saw" /\ UNCHANGED <<now, entry, lock>>
    BY DEF SettleMissed, SettleRefused
  <1>2. CASE SettleMissed(c)
    <2>1. call[c].op \in Acts \cup {"look"} /\ call[c].op # "delete"
      BY <1>1 DEF IInv, Passing, Settling, Acts
    <2>2. call' = [call EXCEPT ![c] = Settled(call[c].op)]
      BY <1>2 DEF SettleMissed
    <2> QED BY <1>1, <2>1, <2>2, SettledFacts, Rests
  <1>3. CASE SettleRefused(c)
    BY <1>1, <1>3, IdleFacts, Rests DEF SettleRefused
  <1> QED BY <1>2, <1>3

(* An act is refused under the lock.                                        *)
LEMMA FailOK ==
  ASSUME IInv, NEW c \in Calls, NothingToUndo(c) \/ NothingToDelete(c)
  PROVE  IInv'
  BY IdleFacts, Rests DEF NothingToUndo, NothingToDelete, Holds, Fail

(* An act takes the lock, and what it reads under it is so.                 *)
LEMMA LockMemberOK ==
  ASSUME IInv, NEW c \in Calls, NEW op \in Acts, NEW e \in Entries \cup {NoEntry}, LockMember(c, op, e)
  PROVE  IInv'
  <1>1. /\ Takes(c, op) /\ lock = NoCall /\ ReadUnderLock(c, op, e) /\ UNCHANGED <<now, entry>>
    BY DEF LockMember
  <1>2. call[c].pc \in {"idle", "ready"}
    BY <1>1 DEF Takes
  <1>3. CASE Refused(op, e)
    <2>1. call' = [call EXCEPT ![c] = Idle] /\ lock' = lock
      BY <1>3 DEF LockMember
    <2> QED BY <1>1, <1>2, <2>1, IdleFacts, Rests
  <1>4. CASE ~Refused(op, e)
    <2> DEFINE s == SeenUnderLock(c, op, e)
               k == At("locked", op, e, s)
    <2>1. call' = [call EXCEPT ![c] = k] /\ lock' = c
      BY <1>4 DEF LockMember
    <2>2. s \in Rows
      <3>1. Unborn \in Rows
        BY IdleFacts DEF Idle, CallShape
      <3>2. call[c].saw \in Rows
        BY DEF IInv, Shape, CallShape
      <3>3. e # NoEntry => entry[e] \in Rows
        BY DEF IInv, Shape
      <3> QED BY <3>1, <3>2, <3>3 DEF SeenUnderLock
    <2>3. e # NoEntry /\ op # "delete" => s = entry[e]
      BY DEF SeenUnderLock
    <2> HIDE DEF s
    <2>5. CallShape(k) /\ DOMAIN k.w = {} /\ k.pc = "locked" /\ k.op = op /\ k.e = e /\ k.saw = s
      BY <2>2, Entered
    <2> HIDE DEF k
    <2>6. call'[c] = k
      BY <2>1 DEF IInv, Shape
    <2>7. Passing(c)'
      BY <2>5, <2>6 DEF Passing
    <2>8. e = NoEntry => op \in {"start", "create"} /\ (op = "start" => Running(entry) = {})
      <3> SUFFICES ASSUME e = NoEntry PROVE op \in {"start", "create"} /\ (op = "start" => Running(entry) = {})
        OBVIOUS
      <3>1. op \notin {"stop", "undo"}
        BY <1>4 DEF Refused
      <3>2. op # "update"
        BY <1>4, TimerAssumption DEF Refused, Live
      <3>3. op # "delete"
        <4> SUFFICES ASSUME op = "delete" PROVE FALSE
          OBVIOUS
        <4>1. call[c].pc = "ready" /\ call[c].op = "delete"
          BY <1>1 DEF Takes
        <4>2. call[c].e \in Entries
          BY <4>1 DEF IInv, Passing
        <4>3. e = call[c].e
          BY <1>1 DEF ReadUnderLock
        <4> QED BY <4>2, <4>3, TimerAssumption
      <3>4. op = "start" => Running(entry) = {}
        BY <1>1, TimerAssumption DEF ReadUnderLock, Running, Live
      <3> QED BY <3>1, <3>2, <3>3, <3>4 DEF Acts
    <2>9. op = "create" => e = NoEntry
      BY <1>1 DEF ReadUnderLock
    <2>10. ASSUME e # NoEntry, op # "delete"
           PROVE  /\ e \in Entries /\ entry[e].st = "live" /\ s = entry[e]
                  /\ op # "update" => entry[e].stop = NotStopped
      <3>1. op \in {"start", "stop", "undo", "update"}
        BY <2>9, <2>10 DEF Acts
      <3>2. op # "update" => e \in Running(entry)
        BY <1>1, <2>10, <3>1 DEF ReadUnderLock
      <3>3. op = "update" => e \in Live(entry)
        BY <1>4 DEF Refused
      <3> QED BY <2>3, <2>10, <3>2, <3>3 DEF Running, Live
    <2>11. ASSUME e # NoEntry, op # "delete" PROVE Good(AsSeen(c), now)'
      <3>1. AsSeen(c)' = [x \in Entries |-> IF x = e THEN s ELSE entry[x]]
        BY <1>1, <2>5, <2>6 DEF AsSeen
      <3>2. [x \in Entries |-> IF x = e THEN s ELSE entry[x]] = entry
        BY <2>10, <2>11 DEF IInv, Shape
      <3>3. Good(entry, now) /\ AsSeen(c)' = entry /\ now' = now
        BY <1>1, <3>1, <3>2 DEF IInv
      <3> QED BY <3>3
    <2>12. Acting(c)'
      BY <1>1, <2>5, <2>6, <2>8, <2>9, <2>10, <2>11 DEF Acting
    <2> QED BY <1>1, <2>1, <2>5, <2>7, <2>12, CallOnly
  <1> QED BY <1>3, <1>4

(* What an act knows of its row under the lock.                             *)
LEMMA Held ==
  ASSUME IInv, NEW c \in Calls, NEW op, Holds(c, op), op # "delete", call[c].e # NoEntry
  PROVE  /\ call[c].e \in Entries /\ entry[call[c].e].st = "live" /\ call[c].saw.st = "live"
         /\ entry[call[c].e].start = call[c].saw.start /\ entry[call[c].e].hand = call[c].saw.hand
         /\ Good(AsSeen(c), now) /\ \A x \in Entries : AsSeen(c)[x] \in Rows /\ entry[x] \in Rows
         /\ op # "update" => call[c].saw.stop = NotStopped
  <1>1. call[c].pc = "locked" /\ call[c].op = op
    BY DEF Holds
  <1>2. CallShape(call[c]) /\ \A x \in Entries : entry[x] \in Rows
    BY DEF IInv, Shape
  <1>3. \A x \in Entries : AsSeen(c)[x] \in Rows
    BY <1>2 DEF AsSeen, CallShape
  <1> QED BY <1>1, <1>2, <1>3 DEF IInv, Acting, CallShape

(* A stop changes the end of a row, and nothing else.                       *)
LEMMA StoppedRow ==
  ASSUME NEW row \in Rows, NEW at \in 0 .. MaxNow
  PROVE  /\ Stopped(row, at) \in Rows /\ Stopped(row, at).st = row.st /\ Stopped(row, at).start = row.start
         /\ Stopped(row, at).hand = row.hand /\ Stopped(row, at).stop = at
  BY DEF Stopped, Rows

(* The timer that was read under the lock is stopped now, whether a pass    *)
(* has stopped it since or not, and none runs then.                         *)
LEMMA StopsNow ==
  ASSUME IInv, NEW c \in Calls, NEW op \in {"start", "stop"}, Holds(c, op), call[c].e # NoEntry,
         NEW rows, \A x \in Entries : rows[x] = IF x = call[c].e THEN Stopped(entry[x], now) ELSE entry[x]
  PROVE  Good(rows, now) /\ Running(rows) = {} /\ \A x \in Entries : rows[x] \in Rows
  <1> DEFINE e == call[c].e
             o == AsSeen(c)
  <1>1. /\ e \in Entries /\ entry[e].st = "live" /\ call[c].saw.st = "live" /\ call[c].saw.stop = NotStopped
        /\ entry[e].start = call[c].saw.start /\ entry[e].hand = call[c].saw.hand
        /\ Good(o, now) /\ \A x \in Entries : o[x] \in Rows /\ entry[x] \in Rows
    BY Held
  <1>2. now \in 0 .. MaxNow
    BY DEF IInv, Shape
  <1>3. /\ rows[e].st = entry[e].st /\ rows[e].start = entry[e].start /\ rows[e].hand = entry[e].hand
        /\ rows[e].stop = now /\ rows[e] \in Rows
    <2>1. rows[e] = Stopped(entry[e], now) /\ entry[e] \in Rows
      BY <1>1
    <2> QED BY <1>2, <2>1, StoppedRow
  <1>4. o[e] = call[c].saw /\ \A x \in Entries \ {e} : rows[x] = entry[x] /\ o[x] = entry[x]
    BY <1>1 DEF AsSeen
  <1>5. Good(rows, now)
    <2> HIDE DEF o, e
    <2> QED BY <1>1, <1>2, <1>3, <1>4, Shrinks, TimerAssumption
  <1>6. Running(rows) = {}
    <2> SUFFICES ASSUME NEW x \in Running(rows) PROVE FALSE
      OBVIOUS
    <2>1. x # e
      BY <1>2, <1>3 DEF Running, NotStopped
    <2>2. x \in Running(o) /\ e \in Running(o)
      BY <1>1, <1>4, <2>1 DEF Running, Live
    <2> QED BY <1>1, <2>1, <2>2 DEF Good
  <1> QED BY <1>1, <1>3, <1>4, <1>5, <1>6

(* The timer is stopped.                                                    *)
LEMMA StopTimerOK ==
  ASSUME IInv, NEW c \in Calls, StopTimer(c)
  PROVE  IInv'
  <1> DEFINE e == call[c].e
             w == [x \in {e} |-> Stopped(entry[e], now)]
  <1>1. Holds(c, "stop") /\ call[c].pc = "locked" /\ Write(c, "written", w, {entry[e].p})
    BY DEF StopTimer, Holds
  <1>2. e # NoEntry
    BY <1>1 DEF Holds, IInv, Acting
  <1>3. e \in Entries /\ entry[e].st = "live"
    BY <1>1, <1>2, Held
  <1>4. Good(Overlay(entry, w), now) /\ \A x \in Entries : Overlay(entry, w)[x] \in Rows
    <2>1. \A x \in Entries : Overlay(entry, w)[x] = IF x = e THEN Stopped(entry[x], now) ELSE entry[x]
      BY <1>3 DEF Overlay
    <2> HIDE DEF w
    <2> QED BY <1>1, <1>2, <2>1, StopsNow
  <1>5. DOMAIN w = {e} /\ w[e] = Overlay(entry, w)[e]
    BY <1>3 DEF Overlay
  <1> HIDE DEF w
  <1> QED BY <1>1, <1>3, <1>4, <1>5, WriteOK

(* A timer starts, and the one that ran is stopped in the same breath.      *)
LEMMA StartTimerOK ==
  ASSUME IInv, NEW c \in Calls, NEW new \in Entries, NEW p \in Projects, StartTimer(c, new, p)
  PROVE  IInv'
  <1> DEFINE e == call[c].e
             stopped == IF e = NoEntry THEN {} ELSE {e}
             w == [x \in {new} \cup stopped |-> IF x = new THEN Started(p) ELSE Stopped(entry[x], now)]
             rows == [x \in Entries |-> IF x = e THEN Stopped(entry[x], now) ELSE entry[x]]
  <1>1. Holds(c, "start") /\ call[c].pc = "locked" /\ entry[new] = Unborn
        /\ Write(c, "written", w, {entry[x].p : x \in stopped})
    BY DEF StartTimer, Holds
  <1>2. Good(rows, now) /\ Running(rows) = {} /\ \A x \in Entries : rows[x] \in Rows
    <2>1. CASE e = NoEntry
      <3>1. rows = entry
        BY <2>1, TimerAssumption DEF IInv, Shape
      <3>2. Running(entry) = {}
        BY <1>1, <2>1 DEF Holds, IInv, Acting
      <3> QED BY <3>1, <3>2 DEF IInv, Shape
    <2>2. CASE e # NoEntry
      BY <1>1, <2>2, StopsNow
    <2> QED BY <2>1, <2>2
  <1>3. e # NoEntry => e \in Entries /\ entry[e].st = "live"
    BY <1>1, Held
  <1>4. Unborn.st = "none" /\ new # e
    BY <1>1, <1>3, TimerAssumption DEF Unborn
  <1>5. now \in 0 .. MaxNow
    BY DEF IInv, Shape
  <1>6. Started(p) \in Rows /\ Started(p).start = now /\ Started(p).stop = NotStopped
    BY <1>5, TimerAssumption DEF Started, Unborn, Rows, NotStopped
  <1>7. DOMAIN w \subseteq Entries /\ \A x \in DOMAIN w : w[x] = Overlay(entry, w)[x]
    BY <1>3 DEF Overlay
  <1>8. Overlay(entry, w)[new] = Started(p) /\ \A x \in Entries \ {new} : Overlay(entry, w)[x] = rows[x]
    BY <1>4, TimerAssumption DEF Overlay
  <1>9. \A x \in DOMAIN w : entry[x].st # "gone"
    BY <1>1, <1>3, <1>4
  <1> DEFINE o == Overlay(entry, w)
  <1> HIDE DEF w, rows
  <1>10. Good(o, now)
    <2>1. \A x \in Entries : rows[x].stop \in Int
      BY <1>2, TimerAssumption DEF Rows, NotStopped
    <2>2. now \in Nat /\ now \in Int
      BY <1>5, TimerAssumption
    <2> HIDE DEF o
    <2>3. o[new].start = now /\ o[new].stop = NotStopped /\ \A x \in Entries \ {new} : o[x] = rows[x]
      BY <1>6, <1>8 DEF o
    <2> QED BY <1>2, <2>1, <2>2, <2>3, Starts
  <1>11. \A x \in DOMAIN w : w[x] \in Rows
    BY <1>2, <1>6, <1>7, <1>8
  <1> QED BY <1>1, <1>7, <1>9, <1>10, <1>11, WriteOK

(* A finished entry is typed.                                               *)
LEMMA CreateEntryOK ==
  ASSUME IInv, NEW c \in Calls, NEW new \in Entries, NEW p \in Projects,
         NEW from \in 0 .. MaxNow, NEW to \in 0 .. MaxNow, CreateEntry(c, new, p, from, to)
  PROVE  IInv'
  <1> DEFINE row == [st |-> "live", start |-> from, stop |-> to, p |-> p, review |-> FALSE, hand |-> TRUE]
             w == [x \in {new} |-> row]
             o == Overlay(entry, w)
  <1>1. Holds(c, "create") /\ call[c].pc = "locked" /\ entry[new] = Unborn /\ Write(c, "written", w, {p})
    BY DEF CreateEntry, Holds
  <1>2. row \in Rows /\ row.hand /\ row.stop # NotStopped /\ Unborn.st = "none"
    BY TimerAssumption DEF Unborn, Rows, NotStopped
  <1> HIDE DEF row
  <1>3. DOMAIN w = {new} /\ w[new] = row /\ o[new] = row /\ \A x \in Entries \ {new} : o[x] = entry[x]
    BY DEF Overlay
  <1> HIDE DEF w
  <1>4. Good(o, now)
    <2>1. now \in Int /\ Good(entry, now)
      BY DEF IInv, Shape
    <2> HIDE DEF o
    <2>2. new \notin Running(o)
      BY <1>2, <1>3 DEF Running
    <2> QED BY <1>2, <1>3, <2>1, <2>2, ByHand
  <1> QED BY <1>1, <1>2, <1>3, <1>4, WriteOK

(* An entry moves to another project as it was read under the lock.         *)
LEMMA MoveEntryOK ==
  ASSUME IInv, NEW c \in Calls, NEW p \in Projects, MoveEntry(c, p)
  PROVE  IInv'
  <1> DEFINE e == call[c].e
             saw == call[c].saw
             row == [saw EXCEPT !.p = p]
             w == [x \in {e} |-> row]
             o == Overlay(entry, w)
             n == AsSeen(c)
  <1>1. Holds(c, "update") /\ call[c].pc = "locked" /\ Write(c, "written", w, {saw.p, p})
    BY DEF MoveEntry, Holds
  <1>2. e # NoEntry
    BY <1>1 DEF Holds, IInv, Acting
  <1>3. e \in Entries /\ entry[e].st = "live" /\ Good(n, now) /\ \A x \in Entries : n[x] \in Rows
    BY <1>1, <1>2, Held
  <1>4. n[e] = saw /\ \A x \in Entries \ {e} : n[x] = entry[x]
    BY <1>3 DEF AsSeen
  <1>5. saw \in Rows
    BY <1>3, <1>4
  <1>6. row \in Rows /\ row.st = saw.st /\ row.start = saw.start /\ row.stop = saw.stop /\ row.hand = saw.hand
    <2> HIDE DEF saw
    <2> QED BY <1>5 DEF Rows
  <1> HIDE DEF row
  <1>7. DOMAIN w = {e} /\ w[e] = row /\ o[e] = row /\ \A x \in Entries \ {e} : o[x] = entry[x]
    BY <1>3 DEF Overlay
  <1> HIDE DEF w, n
  <1>8. Good(o, now)
    <2>1. now \in Int
      BY DEF IInv, Shape
    <2> HIDE DEF o, e, saw
    <2> QED BY <1>3, <1>4, <1>6, <1>7, <2>1, Shrinks
  <1> QED BY <1>1, <1>3, <1>6, <1>7, <1>8, WriteOK

(* An entry gets the interval a person answers for.                         *)
LEMMA RetimeOK ==
  ASSUME IInv, NEW c \in Calls, NEW from \in 0 .. MaxNow, NEW to \in 0 .. MaxNow \cup {NotStopped}, Retime(c, from, to)
  PROVE  IInv'
  <1> DEFINE e == call[c].e
             saw == call[c].saw
             row == [saw EXCEPT !.start = from, !.stop = to, !.review = FALSE, !.hand = TRUE]
             w == [x \in {e} |-> row]
             o == Overlay(entry, w)
             n == AsSeen(c)
  <1>1. /\ Holds(c, "update") /\ call[c].pc = "locked" /\ Write(c, "written", w, {saw.p})
        /\ to = NotStopped => saw.stop = NotStopped
    BY DEF Retime, Holds
  <1>2. e # NoEntry
    BY <1>1 DEF Holds, IInv, Acting
  <1>3. e \in Entries /\ entry[e].st = "live" /\ saw.st = "live" /\ Good(n, now) /\ \A x \in Entries : n[x] \in Rows
    BY <1>1, <1>2, Held
  <1>4. n[e] = saw /\ \A x \in Entries \ {e} : n[x] = entry[x]
    BY <1>3 DEF AsSeen
  <1>5. saw \in Rows
    BY <1>3, <1>4
  <1>6. row \in Rows /\ row.stop = to /\ row.hand
    <2> HIDE DEF saw
    <2> QED BY <1>5 DEF Rows
  <1> HIDE DEF row
  <1>7. DOMAIN w = {e} /\ w[e] = row /\ o[e] = row /\ \A x \in Entries \ {e} : o[x] = entry[x]
    BY <1>3 DEF Overlay
  <1> HIDE DEF w, n
  <1>8. Good(o, now)
    <2>1. now \in Int
      BY DEF IInv, Shape
    <2> HIDE DEF o
    <2>2. e \in Running(o) => e \in Running(n)
      BY <1>1, <1>3, <1>4, <1>6, <1>7 DEF Running, Live
    <2> HIDE DEF e, saw
    <2> QED BY <1>3, <1>4, <1>6, <1>7, <2>1, <2>2, ByHand
  <1> QED BY <1>1, <1>3, <1>6, <1>7, <1>8, WriteOK

(* An entry is deleted.                                                     *)
LEMMA DeleteEntryOK ==
  ASSUME IInv, NEW c \in Calls, DeleteEntry(c)
  PROVE  IInv'
  <1> DEFINE e == call[c].e
             end == IF call[c].saw.stop = NotStopped THEN now ELSE entry[e].stop
             row == [entry[e] EXCEPT !.st = "gone", !.stop = end]
             w == [x \in {e} |-> row]
             o == Overlay(entry, w)
  <1>1. Holds(c, "delete") /\ call[c].pc = "locked" /\ Write(c, "written", w, {call[c].saw.p})
    BY DEF DeleteEntry, Holds
  <1>2. e \in Entries
    <2>1. e \in Entries \cup {NoEntry}
      BY DEF IInv, Shape, CallShape
    <2> QED BY <1>1, <2>1 DEF Holds, IInv, Acting
  <1>3. entry[e] \in Rows /\ now \in 0 .. MaxNow
    BY <1>2 DEF IInv, Shape
  <1>4. row \in Rows /\ row.st = "gone"
    <2>1. end \in 0 .. MaxNow \cup {NotStopped}
      BY <1>3 DEF Rows
    <2> HIDE DEF end
    <2> QED BY <1>3, <2>1 DEF Rows
  <1> HIDE DEF row
  <1>5. DOMAIN w = {e} /\ w[e] = row /\ o[e] = row /\ \A x \in Entries \ {e} : o[x] = entry[x]
    BY <1>2 DEF Overlay
  <1> HIDE DEF w
  <1>6. Good(o, now)
    <2>1. now \in Int /\ Good(entry, now) /\ \A x \in Entries : entry[x] \in Rows
      BY DEF IInv, Shape
    <2> HIDE DEF o, e
    <2> QED BY <1>4, <1>5, <2>1, Shrinks
  <1> QED BY <1>1, <1>2, <1>4, <1>5, <1>6, WriteOK

(* The entry just started goes, the one it stopped runs again: no other     *)
(* entry of the timer covers the time since it stopped, for the one that    *)
(* goes covered it.                                                         *)
LEMMA UndoStartOK ==
  ASSUME IInv, NEW c \in Calls, NEW resume \in Entries, UndoStart(c, resume)
  PROVE  IInv'
  <1> DEFINE e == call[c].e
             gone == [entry[e] EXCEPT !.st = "erased"]
             again == [entry[resume] EXCEPT !.stop = NotStopped, !.hand = entry[resume].hand \/ entry[e].hand]
             w == [x \in {e, resume} |-> IF x = e THEN gone ELSE again]
             o == Overlay(entry, w)
             n == AsSeen(c)
  <1>1. /\ Holds(c, "undo") /\ call[c].pc = "locked" /\ Write(c, "written", w, {entry[e].p, entry[resume].p})
        /\ resume # e /\ entry[resume].st = "live" /\ entry[resume].stop # NotStopped
        /\ entry[resume].stop = entry[e].start
    <2>1. \A x \in {e, resume} : x # e => x = resume
      OBVIOUS
    <2> QED BY <2>1 DEF UndoStart, Undoable, Holds, Live, Running
  <1>2. e # NoEntry
    BY <1>1 DEF Holds, IInv, Acting
  <1>3. /\ e \in Entries /\ entry[e].st = "live" /\ call[c].saw.st = "live" /\ call[c].saw.stop = NotStopped
        /\ entry[e].start = call[c].saw.start /\ entry[e].hand = call[c].saw.hand
        /\ Good(n, now) /\ \A x \in Entries : n[x] \in Rows /\ entry[x] \in Rows
    BY <1>1, <1>2, Held
  <1>4. n[e] = call[c].saw /\ \A x \in Entries \ {e} : n[x] = entry[x]
    BY <1>3 DEF AsSeen
  <1>5. gone \in Rows /\ gone.st = "erased"
    BY <1>3 DEF Rows
  <1>6. /\ again \in Rows /\ again.st = "live" /\ again.stop = NotStopped /\ again.start = entry[resume].start
        /\ again.hand = (entry[resume].hand \/ entry[e].hand)
    <2>1. entry[resume].hand \in BOOLEAN /\ entry[e].hand \in BOOLEAN /\ entry[resume] \in Rows
      BY <1>3 DEF Rows
    <2> QED BY <1>1, <2>1 DEF Rows
  <1> HIDE DEF gone, again
  <1>7. /\ DOMAIN w = {e, resume} /\ w[e] = gone /\ w[resume] = again
        /\ o[e] = gone /\ o[resume] = again /\ \A x \in Entries \ {e, resume} : o[x] = n[x]
    BY <1>1, <1>3, <1>4 DEF Overlay
  <1> HIDE DEF w, n
  <1>8. Good(o, now)
    <2> HIDE DEF o
    <2>1. now \in Nat
      BY TimerAssumption DEF IInv, Shape
    <2>2. e \in Running(n) /\ e \in Live(n) /\ resume \in Live(n) /\ e \notin Live(o)
      BY <1>1, <1>3, <1>4, <1>5, <1>7 DEF Running, Live
    <2>3. Running(o) \subseteq {resume}
      <3> SUFFICES ASSUME NEW x \in Running(o), x # resume PROVE FALSE
        OBVIOUS
      <3>1. x # e /\ x \in Running(n)
        BY <1>7, <2>2 DEF Running, Live
      <3> QED BY <1>3, <2>2, <3>1 DEF Good
    <2>4. \A x \in Live(o) : ~o[x].hand => o[x].stop <= now
      BY <1>3, <1>6, <1>7, <2>1, <2>2 DEF Good, Live, NotStopped
    <2>5. ASSUME NEW x \in Live(o), x # resume, ~o[x].hand, ~o[resume].hand, NEW t \in 0 .. MaxNow,
                 Covers(o[x], t), Covers(o[resume], t)
          PROVE  FALSE
      <3>1. x # e /\ x \in Live(n) /\ o[x] = n[x]
        BY <1>7, <2>2, <2>5 DEF Live
      <3>2. ~n[e].hand /\ ~n[resume].hand
        BY <1>1, <1>3, <1>4, <1>6, <1>7, <2>5
      <3>3. CASE t < n[resume].stop
        <4>1. Covers(n[resume], t)
          BY <1>1, <1>4, <1>6, <1>7, <2>5, <3>3 DEF Covers
        <4> QED BY <1>3, <2>2, <2>5, <3>1, <3>2, <4>1 DEF Good
      <3>4. CASE ~(t < n[resume].stop)
        <4>1. n[resume].stop = n[e].start /\ n[e].start \in Int
          BY <1>1, <1>3, <1>4 DEF Rows
        <4>2. Covers(n[e], t)
          BY <1>3, <1>4, <3>4, <4>1 DEF Covers
        <4> QED BY <1>3, <2>2, <2>5, <3>1, <3>2, <4>2 DEF Good
      <3> QED BY <3>3, <3>4
    <2>6. ASSUME NEW x \in Live(o), NEW y \in Live(o), x # y, ~o[x].hand, ~o[y].hand, NEW t \in 0 .. MaxNow,
                 Covers(o[x], t), Covers(o[y], t)
          PROVE  FALSE
      <3>1. x # resume /\ y # resume
        BY <2>5, <2>6
      <3>2. x \in Live(n) /\ y \in Live(n) /\ o[x] = n[x] /\ o[y] = n[y]
        BY <1>7, <2>2, <3>1 DEF Live
      <3> QED BY <1>3, <2>6, <3>2 DEF Good
    <2> QED BY <2>3, <2>4, <2>6 DEF Good
  <1>9. \A x \in DOMAIN w : w[x] \in Rows /\ entry[x].st = "live"
    BY <1>1, <1>3, <1>5, <1>6, <1>7
  <1> QED BY <1>1, <1>3, <1>7, <1>8, <1>9, WriteOK

-----------------------------------------------------------------------------
(* At first nothing is recorded and no call is under way.                   *)
LEMMA InitOK ==
  ASSUME Init
  PROVE  IInv
  <1>1. now = 0 /\ entry = [e \in Entries |-> Unborn] /\ lock = NoCall /\ call = [c \in Calls |-> Idle]
    BY DEF Init
  <1>2. CallShape(Idle) /\ DOMAIN Idle.w = {} /\ Idle.pc = "idle" /\ Unborn \in Rows /\ Unborn.st = "none"
    <2>1. Unborn \in Rows
      BY IdleFacts DEF Idle, CallShape
    <2> QED BY <2>1, IdleFacts DEF Unborn
  <1>3. Shape
    BY <1>1, <1>2, TimerAssumption DEF Shape
  <1>4. LockOK /\ RowsApart
    BY <1>1, <1>2, TimerAssumption DEF LockOK, RowsApart
  <1>5. \A c \in Calls : Passing(c) /\ Acting(c) /\ Written(c)
    BY <1>1, <1>2 DEF Passing, Acting, Written
  <1>6. Good(entry, now)
    <2>1. Live(entry) = {} /\ Running(entry) = {}
      BY <1>1, <1>2 DEF Live, Running
    <2> QED BY <2>1 DEF Good
  <1> QED BY <1>3, <1>4, <1>5, <1>6 DEF IInv

(* Every step keeps the invariant.                                          *)
LEMMA StepOK ==
  ASSUME IInv, [Next]_vars
  PROVE  IInv'
  <1>1. CASE UNCHANGED vars
    <2>1. UNCHANGED <<now, entry, lock, call>>
      BY <1>1 DEF vars
    <2> QED BY <2>1 DEF IInv, Shape, LockOK, RowsApart, Passing, Acting, Written, AsSeen
  <1>2. CASE Tick
    BY <1>2, TickOK
  <1>3. ASSUME NEW c \in Calls, Settle(c) PROVE IInv'
    BY <1>3, SettleWriteOK, SettleEndsOK, SettleCommitOK DEF Settle
  <1>4. ASSUME NEW c \in Calls, Act(c) PROVE IInv'
    BY <1>4, LockMemberOK, StopTimerOK, StartTimerOK, UndoStartOK, FailOK, CreateEntryOK, MoveEntryOK, RetimeOK,
       DeleteEntryOK, CommitOK DEF Act
  <1> QED BY <1>1, <1>2, <1>3, <1>4, BeginOK, BeginOnOK DEF Next

(* The invariant holds throughout.                                          *)
LEMMA Invariance == Spec => []IInv
  BY InitOK, StepOK, PTL DEF Spec

-----------------------------------------------------------------------------
(* At most one entry of the member runs (timer.ts: each act stops, starts   *)
(* and reopens under the member's lock), whatever calls overlap.            *)
THEOREM OneRuns == Spec => []OneRunning
  <1>1. IInv => OneRunning
    <2> SUFFICES ASSUME IInv PROVE Cardinality(Running(entry)) <= 1
      BY DEF OneRunning
    <2>1. CASE Running(entry) = {}
      BY <2>1, FS_EmptySet
    <2>2. CASE Running(entry) # {}
      <3>1. PICK e \in Running(entry) : TRUE
        BY <2>2
      <3>2. Running(entry) = {e}
        BY <3>1 DEF IInv, Good
      <3> QED BY <3>2, FS_Singleton
    <2> QED BY <2>1, <2>2
  <1> QED BY <1>1, Invariance, PTL

(* No instant is counted by two entries left to the timer (entries.ts:      *)
(* "timer-created overlaps are impossible").                                *)
THEOREM NoOverlap == Spec => []TimerOverlapImpossible
  <1>1. IInv => TimerOverlapImpossible
    BY DEF IInv, Good, TimerOverlapImpossible
  <1> QED BY <1>1, Invariance, PTL

(* A call that has written its pass changes by the pass's commit alone.     *)
LEMMA SettledMoves ==
  ASSUME IInv, Next, NEW c \in Calls, call[c].pc = "settled", call'[c].pc # "settled"
  PROVE  SettleCommit(c)
  <1>1. Shape
    BY DEF IInv
  <1>2. ASSUME Tick PROVE FALSE
    BY <1>2 DEF Tick
  <1>3. PICK d \in Calls : \/ \E op \in Settling : Begin(d, op)
                           \/ \E op \in {"update", "delete"}, e \in Entries : BeginOn(d, op, e)
                           \/ Settle(d) \/ Act(d)
    BY <1>2 DEF Next
  <1>4. ASSUME NEW k, call' = [call EXCEPT ![d] = k], call[d].pc # "settled" PROVE FALSE
    BY <1>1, <1>4 DEF Shape
  <1>5. ASSUME NEW pc, NEW w, NEW touched, Write(d, pc, w, touched), call[d].pc # "settled" PROVE FALSE
    <2> DEFINE s == [p \in touched |-> Seconds(Overlay(entry, w), p)]
               a == Summing(d, touched)
    <2>1. call' = [call EXCEPT ![d].pc = pc, ![d].w = w, ![d].after = a, ![d].sums = s]
      BY <1>5 DEF Write
    <2> HIDE DEF s, a
    <2> QED BY <1>1, <1>5, <2>1 DEF Shape
  <1>6. ASSUME NEW k, CommitWrites(d, k), d # c PROVE FALSE
    <2>1. call'[c] = [call[c] EXCEPT !.after = @ \ {d}] /\ CallShape(call[c])
      BY <1>1, <1>6 DEF CommitWrites, Shape
    <2> QED BY <2>1 DEF CallShape
  <1>7. ASSUME NEW op \in Settling, Begin(d, op) PROVE FALSE
    BY <1>4, <1>7 DEF Begin
  <1>8. ASSUME NEW op, NEW e, BeginOn(d, op, e) PROVE FALSE
    BY <1>4, <1>8 DEF BeginOn
  <1>9. ASSUME SettleWrite(d) \/ SettleMissed(d) \/ SettleRefused(d) PROVE FALSE
    BY <1>4, <1>5, <1>9 DEF SettleWrite, SettleMissed, SettleRefused
  <1>10. ASSUME NEW op, NEW e, LockMember(d, op, e) PROVE FALSE
    BY <1>4, <1>10 DEF LockMember, Takes
  <1>11. ASSUME \/ StopTimer(d)
                \/ \E new \in Entries, p \in Projects : StartTimer(d, new, p)
                \/ \E resume \in Entries : UndoStart(d, resume)
         PROVE  FALSE
    BY <1>5, <1>11 DEF StopTimer, StartTimer, UndoStart, Holds
  <1>12. ASSUME \/ \E new \in Entries, p \in Projects, from, to \in 0 .. MaxNow : CreateEntry(d, new, p, from, to)
                \/ \E p \in Projects : MoveEntry(d, p)
                \/ \E from \in 0 .. MaxNow, to \in 0 .. MaxNow \cup {NotStopped} : Retime(d, from, to)
                \/ DeleteEntry(d)
         PROVE  FALSE
    BY <1>5, <1>12 DEF CreateEntry, MoveEntry, Retime, DeleteEntry, Holds
  <1>13. ASSUME NothingToUndo(d) \/ NothingToDelete(d) PROVE FALSE
    BY <1>4, <1>13 DEF NothingToUndo, NothingToDelete, Fail, Holds
  <1>14. ASSUME Commit(d) PROVE FALSE
    BY <1>6, <1>14 DEF Commit
  <1>15. ~Act(d)
    BY <1>10, <1>11, <1>12, <1>13, <1>14 DEF Act
  <1>16. SettleCommit(d)
    BY <1>3, <1>7, <1>8, <1>9, <1>15 DEF Settle
  <1> QED BY <1>6, <1>16 DEF SettleCommit

(* What a pass writes is the end, at its bound and for review, of an entry  *)
(* that was running until then (settle.ts): of several passes that met it,  *)
(* one stops it.                                                            *)
THEOREM StopsOnce == Spec => AutoStopOnce
  <1> DEFINE A == \A c \in Calls :
                    call[c].pc = "settled" /\ call'[c].pc # "settled" =>
                      \A e \in DOMAIN call[c].w :
                        /\ entry[e].stop = NotStopped
                        /\ entry'[e].stop = Bound(entry[e]) /\ entry'[e].review
  <1>1. ASSUME IInv, Next, NEW c \in Calls, call[c].pc = "settled", call'[c].pc # "settled", NEW e \in DOMAIN call[c].w
        PROVE  entry[e].stop = NotStopped /\ entry'[e].stop = Bound(entry[e]) /\ entry'[e].review
    <2>1. CommitWrites(c, Settled(call[c].op))
      BY <1>1, SettledMoves DEF SettleCommit
    <2>2. e \in Entries /\ entry[e] \in Rows
      BY <1>1 DEF IInv, Shape, CallShape
    <2>3. entry'[e] = call[c].w[e]
      BY <1>1, <2>1, <2>2 DEF CommitWrites, Overlay
    <2>4. entry[e].stop = NotStopped /\ entry'[e] = AutoStopped(entry[e])
      BY <1>1, <2>3 DEF IInv, Passing
    <2> QED BY <2>2, <2>4, AutoStoppedRow
  <1>2. IInv /\ [Next]_vars => [A]_vars
    BY <1>1
  <1>3. Spec => [][A]_vars
    <2> HIDE DEF A
    <2> QED BY <1>2, Invariance, PTL DEF Spec
  <1> QED BY <1>3 DEF AutoStopOnce

(* A row changes by a commit alone.                                         *)
LEMMA RowsMove ==
  ASSUME Next, entry' # entry
  PROVE  \E c \in Calls : SettleCommit(c) \/ Commit(c)
  <1>1. ~Tick
    BY DEF Tick
  <1>2. \A c \in Calls : \A pc, w, touched : ~Write(c, pc, w, touched)
    BY DEF Write
  <1>3. ASSUME NEW c \in Calls, Settle(c), ~SettleCommit(c) PROVE FALSE
    BY <1>2, <1>3 DEF Settle, SettleWrite, SettleMissed, SettleRefused
  <1>4. ASSUME NEW c \in Calls, NEW op, NEW e, Begin(c, op) \/ BeginOn(c, op, e) \/ LockMember(c, op, e) PROVE FALSE
    BY <1>4 DEF Begin, BeginOn, LockMember
  <1>5. ASSUME NEW c \in Calls, NothingToUndo(c) \/ NothingToDelete(c) PROVE FALSE
    BY <1>5 DEF NothingToUndo, NothingToDelete, Fail
  <1>6. ASSUME NEW c \in Calls,
               \/ StopTimer(c) \/ DeleteEntry(c)
               \/ \E new \in Entries, p \in Projects : StartTimer(c, new, p)
               \/ \E resume \in Entries : UndoStart(c, resume)
               \/ \E p \in Projects : MoveEntry(c, p)
        PROVE  FALSE
    BY <1>2, <1>6 DEF StopTimer, DeleteEntry, StartTimer, UndoStart, MoveEntry
  <1>7. ASSUME NEW c \in Calls,
               \/ \E new \in Entries, p \in Projects, from, to \in 0 .. MaxNow : CreateEntry(c, new, p, from, to)
               \/ \E from \in 0 .. MaxNow, to \in 0 .. MaxNow \cup {NotStopped} : Retime(c, from, to)
        PROVE  FALSE
    BY <1>2, <1>7 DEF CreateEntry, Retime
  <1>8. ASSUME NEW c \in Calls, Act(c), ~Commit(c) PROVE FALSE
    BY <1>4, <1>5, <1>6, <1>7, <1>8 DEF Act
  <1>9. ASSUME NEW c \in Calls, \/ \E op \in Settling : Begin(c, op)
                                \/ \E op \in {"update", "delete"}, e \in Entries : BeginOn(c, op, e)
        PROVE  FALSE
    BY <1>4, <1>9
  <1> QED BY <1>1, <1>3, <1>8, <1>9 DEF Next

(* A deleted entry is not brought back by a correction, a stop or an undo   *)
(* that had read it before.                                                 *)
THEOREM StaysDeleted == Spec => DeletedStays
  <1> DEFINE A == \A e \in Entries : entry[e].st = "gone" => entry'[e].st = "gone"
  <1>1. ASSUME IInv, Next, NEW e \in Entries, entry[e].st = "gone" PROVE entry'[e].st = "gone"
    <2>1. CASE entry' = entry
      BY <1>1, <2>1
    <2>2. CASE entry' # entry
      <3>1. PICK c \in Calls : SettleCommit(c) \/ Commit(c)
        BY <1>1, <2>2, RowsMove
      <3>2. entry'[e] = IF e \in DOMAIN call[c].w THEN call[c].w[e] ELSE entry[e]
        BY <3>1 DEF SettleCommit, Commit, CommitWrites, Overlay
      <3>3. CASE e \notin DOMAIN call[c].w
        BY <1>1, <3>2, <3>3
      <3>4. CASE e \in DOMAIN call[c].w /\ Commit(c)
        BY <1>1, <3>2, <3>4 DEF IInv, Written, Commit
      <3>5. CASE e \in DOMAIN call[c].w /\ SettleCommit(c)
        <4>1. entry'[e] = AutoStopped(entry[e]) /\ entry[e] \in Rows
          BY <1>1, <3>2, <3>5 DEF IInv, Passing, SettleCommit, Shape
        <4> QED BY <1>1, <4>1, AutoStoppedRow
      <3> QED BY <3>1, <3>3, <3>4, <3>5
    <2> QED BY <2>1, <2>2
  <1>2. IInv /\ [Next]_vars => [A]_vars
    BY <1>1
  <1>3. Spec => [][A]_vars
    <2> HIDE DEF A
    <2> QED BY <1>2, Invariance, PTL DEF Spec
  <1> QED BY <1>3 DEF DeletedStays
-----------------------------------------------------------------------------
(* The sums.  A row's columns say when it was, and in which project.        *)
RowOK(row, n) ==
  row.st # "none" =>
    /\ row.p \in Projects /\ row.start <= n
    /\ row.stop # NotStopped => row.start <= row.stop

(* If the row is counted at all, it is in one of these projects.            *)
Within(row, touched) == row.st = "live" /\ row.stop # NotStopped => row.p \in touched

(* A call that will write the row it has read.                              *)
Reads(k) == k.pc = "saw" \/ (k.pc \in {"ready", "locked"} /\ k.op = "delete")

CallOK(c) ==
  LET k == call[c]
  IN  /\ k.pc \in {"idle", "saw", "settled", "ready", "locked", "written"}
      /\ RowOK(k.saw, now)
      /\ Reads(k) => k.saw.st = "live" /\ entry[k.e].st # "none"
      /\ \A x \in DOMAIN k.w : k.w[x].st # "none" /\ RowOK(k.w[x], now)
      /\ DOMAIN k.sums \subseteq Projects /\ \A p \in DOMAIN k.sums : k.sums[p] \in Nat
      /\ k.pc \notin {"settled", "written"} => DOMAIN k.sums = {}
      /\ k.after \subseteq Calls \ {c}

(* A sum under way is that of the rows with its transaction's writes, which *)
(* no other sum under way is of; what is not being summed does not change.  *)
SumOK(c) ==
  LET k == call[c]
  IN  /\ \A p \in DOMAIN k.sums : k.sums[p] = Seconds(Overlay(entry, k.w), p)
      /\ \A x \in DOMAIN k.w : Within(entry[x], DOMAIN k.sums) /\ Within(k.w[x], DOMAIN k.sums)

Totals ==
  /\ SummaryIsTotal
  /\ \A c \in Calls : SumOK(c)
  /\ \A c, d \in Calls : c # d => DOMAIN call[c].sums \cap DOMAIN call[d].sums = {}

Kept ==
  /\ summary \in [Projects -> Nat] /\ typed \in 0 .. MaxTyped /\ crossed \in BOOLEAN
  /\ \A x \in Entries : RowOK(entry[x], now)
  /\ \A c \in Calls : CallOK(c)
  /\ ~crossed => Totals

TInv == IInv /\ Kept

-----------------------------------------------------------------------------
(* The rows a project's sum is of.                                          *)
Counts(row, p)     == row.st = "live" /\ row.stop # NotStopped /\ row.p = p
CountedIn(rows, p) == {e \in Entries : Counts(rows[e], p)}

(* recomputeProjectMonth adds them up in some order.                        *)
LEMMA SecondsIsSum ==
  ASSUME NEW rows, NEW p, \A e \in Entries : rows[e] \in Rows
  PROVE  /\ Seconds(rows, p) = SumFunction([e \in CountedIn(rows, p) |-> rows[e].stop - rows[e].start])
         /\ IsFiniteSet(CountedIn(rows, p))
         /\ \A e \in CountedIn(rows, p) : rows[e].stop - rows[e].start \in Int
  <1> DEFINE S == CountedIn(rows, p)
             g == [e \in S |-> rows[e].stop - rows[e].start]
             Step(it) == [s \in SUBSET S |-> IF s = {} THEN 0
                                             ELSE LET x == CHOOSE x \in s : TRUE
                                                  IN  (rows[x].stop - rows[x].start) + it[s \ {x}]]
  <1>1. S \subseteq Entries
    BY DEF CountedIn
  <1>2. IsFiniteSet(S)
    BY <1>1, TimerAssumption, FS_Subset
  <1>3. \A e \in S : rows[e].stop - rows[e].start \in Int
    <2>1. \A e \in S : rows[e] \in Rows
      BY <1>1
    <2>2. \A row \in Rows : row.stop \in Int /\ row.start \in Int
      BY TimerAssumption DEF Rows, NotStopped
    <2> HIDE DEF S
    <2> QED BY <2>1, <2>2
  <1>4. DOMAIN g = S /\ \A e \in S : g[e] \in Int
    BY <1>3
  <1>5. ASSUME NEW it PROVE Step(it) = Iterated(g, S, it)
    <2> HIDE DEF S
    <2>1. ASSUME NEW s \in SUBSET S, s # {} PROVE (CHOOSE x \in s : TRUE) \in S
      BY <2>1
    <2> QED BY <2>1 DEF Iterated
  <1>6. PICK F : Additive(F, g, S)
    BY <1>2, <1>4, AdditiveExists
  <1>7. F = Iterated(g, S, F)
    <2> HIDE DEF S, g
    <2>1. ASSUME NEW s \in SUBSET S, s # {}
          PROVE  LET x == CHOOSE x \in s : TRUE IN F[s] = g[x] + F[s \ {x}]
      <3> DEFINE x == CHOOSE x \in s : TRUE
      <3>1. x \in s
        BY <2>1
      <3>2. s \ {x} \in SUBSET S /\ x \in S \ (s \ {x}) /\ (s \ {x}) \cup {x} = s
        BY <3>1
      <3> HIDE DEF x
      <3>3. F[s] = F[s \ {x}] + g[x] /\ F[s \ {x}] \in Int /\ g[x] \in Int
        BY <1>4, <1>6, <3>2 DEF Additive
      <3> QED BY <3>3 DEF x
    <2> QED BY <1>6, <2>1 DEF Additive, Iterated
  <1> DEFINE it == CHOOSE it : it = Step(it)
  <1>8. F = Step(F)
    BY <1>5, <1>7
  <1>9. it = Step(it)
    <2> HIDE DEF Step
    <2> QED BY <1>8
  <1>10. Seconds(rows, p) = it[S]
    <2>1. {e \in Live(rows) : rows[e].stop # NotStopped /\ rows[e].p = p} = S
      BY DEF CountedIn, Counts, Live
    <2> QED BY <2>1 DEF Seconds, MapThenSumSet, MapThenFoldSet
  <1> HIDE DEF it
  <1>11. it = Iterated(g, S, it)
    BY <1>5, <1>9
  <1> HIDE DEF g, Step
  <1>12. it[S] = F[S] /\ SumFunction(g) = F[S]
    BY <1>2, <1>4, <1>6, <1>11, IteratedIsAdditive, SumIsAdditive
  <1> QED BY <1>2, <1>3, <1>10, <1>12 DEF g

(* A sum is of the rows counted, and of no other.                           *)
LEMMA SecondsSame ==
  ASSUME NEW rows, NEW other, NEW p, \A e \in Entries : rows[e] \in Rows /\ other[e] \in Rows,
         \A e \in Entries : other[e] = rows[e] \/ (~Counts(rows[e], p) /\ ~Counts(other[e], p))
  PROVE  Seconds(other, p) = Seconds(rows, p)
  <1> DEFINE S == CountedIn(rows, p)
  <1>1. CountedIn(other, p) = S /\ \A e \in S : other[e] = rows[e]
    BY DEF CountedIn, Counts
  <1>2. Seconds(rows, p) = SumFunction([e \in S |-> rows[e].stop - rows[e].start])
    BY SecondsIsSum
  <1>3. Seconds(other, p) = SumFunction([e \in CountedIn(other, p) |-> other[e].stop - other[e].start])
    BY SecondsIsSum
  <1> HIDE DEF S
  <1>4. [e \in CountedIn(other, p) |-> other[e].stop - other[e].start] = [e \in S |-> rows[e].stop - rows[e].start]
    BY <1>1
  <1> QED BY <1>2, <1>3, <1>4

(* Rows that are as they should be add up to a natural number.              *)
LEMMA SecondsNat ==
  ASSUME NEW rows, NEW p, NEW n, \A e \in Entries : rows[e] \in Rows /\ RowOK(rows[e], n)
  PROVE  Seconds(rows, p) \in Nat
  <1> DEFINE S == CountedIn(rows, p)
             g == [e \in S |-> rows[e].stop - rows[e].start]
  <1>1. Seconds(rows, p) = SumFunction(g) /\ IsFiniteSet(S)
    BY SecondsIsSum
  <1>2. ASSUME NEW e \in S PROVE rows[e].stop - rows[e].start \in Nat
    <2>1. e \in Entries /\ rows[e].st = "live" /\ rows[e].stop # NotStopped
      BY DEF CountedIn, Counts
    <2>2. rows[e].start <= rows[e].stop
      BY <2>1 DEF RowOK
    <2>3. rows[e].start \in Nat /\ rows[e].stop \in Nat
      BY <2>1, TimerAssumption DEF Rows
    <2> QED BY <2>2, <2>3
  <1>3. DOMAIN g = S /\ \A e \in S : g[e] \in Nat
    BY <1>2
  <1> HIDE DEF S, g
  <1> QED BY <1>1, <1>3, SumNat

(* A row is as well in time to come.                                        *)
LEMMA RowStays ==
  ASSUME NEW row \in Rows, NEW n \in Nat, RowOK(row, n)
  PROVE  RowOK(row, n + 1)
  BY TimerAssumption DEF RowOK, Rows

-----------------------------------------------------------------------------
(* Every kind of step keeps what the sums rely on. *)

(* A transaction's sums are of the rows with its writes.                    *)
LEMMA WriteSums ==
  ASSUME Shape, NEW c \in Calls, NEW pc, NEW w, NEW touched, Write(c, pc, w, touched)
  PROVE  /\ call'[c].pc = pc /\ call'[c].op = call[c].op /\ call'[c].e = call[c].e /\ call'[c].saw = call[c].saw
         /\ call'[c].w = w /\ call'[c].sums = [p \in touched |-> Seconds(Overlay(entry, w), p)]
         /\ call'[c].after = Summing(c, touched)
         /\ \A d \in Calls \ {c} : call'[d] = call[d]
         /\ UNCHANGED <<now, entry, summary, typed>> /\ crossed' = (crossed \/ Misleads(c, touched))
  <1> DEFINE k == call[c]
             s == [p \in touched |-> Seconds(Overlay(entry, w), p)]
             a == Summing(c, touched)
  <1>1. k = [pc |-> k.pc, op |-> k.op, e |-> k.e, saw |-> k.saw, w |-> k.w, sums |-> k.sums, after |-> k.after]
    BY DEF Shape, CallShape
  <1>2. call' = [call EXCEPT ![c].pc = pc, ![c].w = w, ![c].after = a, ![c].sums = s]
    BY DEF Write
  <1> HIDE DEF s, a
  <1>3. \A d \in Calls \ {c} : call'[d] = call[d]
    BY <1>2 DEF Shape
  <1>4. call'[c] = [k EXCEPT !.pc = pc, !.w = w, !.after = a, !.sums = s]
    BY <1>2 DEF Shape
  <1> HIDE DEF k
  <1>5. call'[c] = [pc |-> pc, op |-> k.op, e |-> k.e, saw |-> k.saw, w |-> w, sums |-> s, after |-> a]
    BY <1>1, <1>4
  <1>6. UNCHANGED <<now, entry, summary, typed>> /\ crossed' = (crossed \/ Misleads(c, touched))
    BY DEF Write
  <1> QED BY <1>3, <1>5, <1>6 DEF k, s, a

(* A transaction writes rows and, over them, the sums it touches.           *)
LEMMA WriteKept ==
  ASSUME TInv, IInv', NEW c \in Calls, NEW pc \in {"settled", "written"}, NEW w, NEW touched,
         Write(c, pc, w, touched), touched \subseteq Projects, DOMAIN w \subseteq Entries,
         \A x \in DOMAIN w : w[x].st # "none" /\ RowOK(w[x], now),
         ~Misleads(c, touched) => \A x \in DOMAIN w : Within(entry[x], touched) /\ Within(w[x], touched)
  PROVE  Kept'
  <1> USE DEF TInv, Kept
  <1> DEFINE o == Overlay(entry, w)
  <1>1. /\ call'[c].pc = pc /\ call'[c].op = call[c].op /\ call'[c].e = call[c].e /\ call'[c].saw = call[c].saw
        /\ call'[c].w = w /\ call'[c].sums = [p \in touched |-> Seconds(o, p)]
        /\ call'[c].after = Summing(c, touched)
        /\ \A d \in Calls \ {c} : call'[d] = call[d]
        /\ UNCHANGED <<now, entry, summary, typed>> /\ crossed' = (crossed \/ Misleads(c, touched))
    BY WriteSums DEF IInv
  <1>2. \A x \in Entries : o[x] \in Rows /\ RowOK(o[x], now)
    <2>1. CallShape(call[c])' /\ \A x \in Entries : entry[x] \in Rows
      BY DEF IInv, Shape
    <2>2. \A x \in DOMAIN w : w[x] \in Rows
      BY <1>1, <2>1 DEF CallShape
    <2> QED BY <2>1, <2>2 DEF Overlay
  <1>3. \A p : Seconds(o, p) \in Nat
    <2> HIDE DEF o
    <2> QED BY <1>2, SecondsNat
  <1>4. DOMAIN call'[c].sums = touched /\ \A p \in touched : call'[c].sums[p] = Seconds(o, p)
    BY <1>1
  <1> HIDE DEF o
  <1>5. CallOK(c)'
    <2>1. Summing(c, touched) \subseteq Calls \ {c}
      BY DEF Summing
    <2>2. RowOK(call[c].saw, now)
      BY DEF CallOK
    <2> QED BY <1>1, <1>3, <1>4, <2>1, <2>2 DEF CallOK, Reads
  <1>6. \A d \in Calls : CallOK(d)'
    <2>1. ASSUME NEW d \in Calls \ {c} PROVE CallOK(d)'
      BY <1>1 DEF CallOK
    <2> QED BY <1>5, <2>1
  <1>7. ASSUME ~crossed' PROVE Totals'
    <2>1. ~crossed /\ ~Misleads(c, touched) /\ Totals
      BY <1>1, <1>7
    <2>2. SummaryIsTotal'
      BY <1>1, <2>1 DEF Totals, SummaryIsTotal
    <2>3. SumOK(c)'
      <3>1. Overlay(entry, call[c].w)' = o
        BY <1>1 DEF o, Overlay
      <3> QED BY <1>1, <1>4, <2>1, <3>1 DEF SumOK
    <2>4. ASSUME NEW d \in Calls \ {c} PROVE SumOK(d)' /\ DOMAIN call[d].sums \cap touched = {}
      <3>1. SumOK(d) /\ call'[d] = call[d] /\ entry' = entry
        BY <1>1, <2>1 DEF Totals
      <3>2. SumOK(d)'
        BY <3>1 DEF SumOK, Overlay
      <3> QED BY <2>1, <3>2 DEF Misleads, Summing
    <2> QED BY <1>1, <1>4, <2>1, <2>2, <2>3, <2>4 DEF Totals
  <1>8. crossed' \in BOOLEAN
    BY <1>1 DEF Misleads
  <1> QED BY <1>1, <1>6, <1>7, <1>8

(* A call moves on, no row with it.                                         *)
LEMMA CallKept ==
  ASSUME TInv, NEW c \in Calls, NEW k, call' = [call EXCEPT ![c] = k], UNCHANGED <<now, entry, summary, crossed>>,
         typed' \in 0 .. MaxTyped, k.pc \in {"idle", "saw", "ready", "locked"},
         DOMAIN k.w = {}, DOMAIN k.sums = {}, k.after = {}, RowOK(k.saw, now),
         Reads(k) => k.saw.st = "live" /\ entry[k.e].st # "none"
  PROVE  Kept'
  <1> USE DEF TInv, Kept
  <1>1. call'[c] = k /\ \A d \in Calls \ {c} : call'[d] = call[d]
    BY DEF IInv, Shape
  <1>2. ASSUME NEW d \in Calls PROVE CallOK(d)'
    BY <1>1 DEF CallOK
  <1>3. ASSUME Totals PROVE Totals'
    <2>1. SummaryIsTotal'
      BY <1>3 DEF Totals, SummaryIsTotal
    <2>2. SumOK(c)'
      BY <1>1 DEF SumOK
    <2>3. ASSUME NEW d \in Calls \ {c} PROVE SumOK(d)'
      <3>1. SumOK(d) /\ call'[d] = call[d] /\ entry' = entry
        BY <1>1, <1>3 DEF Totals
      <3> QED BY <3>1 DEF SumOK, Overlay
    <2> QED BY <1>1, <1>3, <2>1, <2>2, <2>3 DEF Totals
  <1> QED BY <1>2, <1>3

(* Who will write a row has read one.                                       *)
LEMMA ReadsEntry ==
  ASSUME IInv, NEW c \in Calls, Reads(call[c])
  PROVE  call[c].e \in Entries
  <1>1. Passing(c) /\ Acting(c) /\ call[c].e \in Entries \cup {NoEntry}
    BY DEF IInv, Shape, CallShape
  <1> QED BY <1>1 DEF Reads, Passing, Acting

(* A transaction commits: its rows and its sums are there together, and the *)
(* sums of the others are none the worse.                                   *)
LEMMA CommitKept ==
  ASSUME TInv, IInv', NEW c \in Calls, NEW next, CommitWrites(c, next), UNCHANGED <<now, typed, crossed>>,
         next.pc \in {"idle", "ready"}, next.pc = "ready" => next.op # "delete",
         DOMAIN next.w = {}, DOMAIN next.sums = {}, next.after = {}, RowOK(next.saw, now)
  PROVE  Kept'
  <1> USE DEF TInv, Kept
  <1> DEFINE w == call[c].w
             touched == DOMAIN call[c].sums
  <1>1. entry' = Overlay(entry, w)
    BY DEF CommitWrites
  <1>2. \A x \in Entries : entry'[x] = IF x \in DOMAIN w THEN w[x] ELSE entry[x]
    BY <1>1 DEF Overlay
  <1>3. summary' = [p \in Projects |-> IF p \in touched THEN call[c].sums[p] ELSE summary[p]]
    BY DEF CommitWrites
  <1>4. /\ call'[c] = next
        /\ \A d \in Calls \ {c} :
             /\ call'[d].pc = call[d].pc /\ call'[d].op = call[d].op /\ call'[d].e = call[d].e
             /\ call'[d].saw = call[d].saw /\ call'[d].w = call[d].w
             /\ call'[d].sums = call[d].sums /\ call'[d].after = call[d].after \ {c}
    <2>1. call' = [d \in Calls |-> IF d = c THEN next ELSE [call[d] EXCEPT !.after = @ \ {c}]]
      BY DEF CommitWrites
    <2>2. ASSUME NEW d \in Calls \ {c}
          PROVE  /\ call'[d].pc = call[d].pc /\ call'[d].op = call[d].op /\ call'[d].e = call[d].e
                 /\ call'[d].saw = call[d].saw /\ call'[d].w = call[d].w
                 /\ call'[d].sums = call[d].sums /\ call'[d].after = call[d].after \ {c}
      <3> DEFINE k == call[d]
      <3>1. CallShape(k)
        BY DEF IInv, Shape
      <3>2. call'[d] = [k EXCEPT !.after = k.after \ {c}]
        BY <2>1
      <3> HIDE DEF k
      <3>3. call'[d] = [pc |-> k.pc, op |-> k.op, e |-> k.e, saw |-> k.saw, w |-> k.w, sums |-> k.sums, after |-> k.after \ {c}]
        BY <3>1, <3>2 DEF CallShape
      <3> QED BY <3>3 DEF k
    <2> QED BY <2>1, <2>2
  <1> HIDE DEF w, touched
  <1>5. \A x \in DOMAIN w : w[x].st # "none" /\ RowOK(w[x], now) /\ w[x] \in Rows
    BY DEF w, CallOK, IInv, Shape, CallShape
  <1>6. \A x \in Entries : RowOK(entry'[x], now) /\ (entry[x].st # "none" => entry'[x].st # "none")
    BY <1>2, <1>5
  <1>7. touched \subseteq Projects /\ \A p \in touched : call[c].sums[p] \in Nat
    BY DEF touched, CallOK
  <1>8. ASSUME NEW d \in Calls PROVE CallOK(d)'
    <2>1. CASE d = c
      BY <1>4, <2>1 DEF CallOK, Reads
    <2>2. CASE d # c
      <3>1. Reads(call[d]) => entry'[call[d].e].st # "none"
        BY <1>6, ReadsEntry DEF CallOK
      <3> QED BY <1>4, <2>2, <3>1 DEF CallOK, Reads
    <2> QED BY <2>1, <2>2
  <1>9. summary' \in [Projects -> Nat]
    BY <1>3, <1>7
  <1>10. ASSUME ~crossed' PROVE Totals'
    <2>1. Totals
      BY <1>10
    <2>2. \A x \in DOMAIN w : Within(entry[x], touched) /\ Within(w[x], touched)
      BY <2>1 DEF Totals, SumOK, w, touched
    <2>3. \A x \in Entries : entry[x] \in Rows /\ entry'[x] \in Rows
      BY DEF IInv, Shape
    <2>4. ASSUME NEW p, p \notin touched
          PROVE  \A x \in DOMAIN w : ~Counts(entry[x], p) /\ ~Counts(w[x], p)
      BY <2>2, <2>4 DEF Within, Counts
    <2>5. ASSUME NEW p \in Projects PROVE summary'[p] = Seconds(entry', p)
      <3>1. CASE p \in touched
        <4>1. call[c].sums[p] = Seconds(Overlay(entry, w), p)
          BY <2>1, <3>1 DEF Totals, SumOK, w, touched
        <4> QED BY <1>1, <1>3, <3>1, <4>1
      <3>2. CASE p \notin touched
        <4>1. \A x \in Entries : entry'[x] = entry[x] \/ (~Counts(entry[x], p) /\ ~Counts(entry'[x], p))
          BY <1>2, <2>4, <3>2
        <4>2. Seconds(entry', p) = Seconds(entry, p)
          <5> DEFINE n == entry'
          <5>1. \A x \in Entries : /\ entry[x] \in Rows /\ n[x] \in Rows
                                   /\ n[x] = entry[x] \/ (~Counts(entry[x], p) /\ ~Counts(n[x], p))
            BY <2>3, <4>1
          <5> HIDE DEF n
          <5>2. Seconds(n, p) = Seconds(entry, p)
            BY <5>1, SecondsSame
          <5> QED BY <5>2 DEF n
        <4> QED BY <1>3, <2>1, <3>2, <4>2 DEF Totals, SummaryIsTotal
      <3> QED BY <3>1, <3>2
    <2>6. ASSUME NEW d \in Calls \ {c} PROVE SumOK(d)'
      <3>1. call'[d].w = call[d].w /\ call'[d].sums = call[d].sums
        BY <1>4
      <3>2. \A x \in DOMAIN call[d].w : x \in Entries /\ x \notin DOMAIN w /\ entry'[x] = entry[x] /\ call[d].w[x] \in Rows
        <4>1. DOMAIN call[c].w \cap DOMAIN call[d].w = {}
          BY DEF IInv, RowsApart
        <4> QED BY <1>2, <4>1 DEF IInv, Shape, CallShape, w
      <3>3. \A p \in DOMAIN call[d].sums : p \notin touched
        BY <2>1 DEF Totals, touched
      <3>4. ASSUME NEW p \in DOMAIN call[d].sums
            PROVE  call[d].sums[p] = Seconds(Overlay(entry', call[d].w), p)
        <4> DEFINE o == Overlay(entry, call[d].w)
                   n == Overlay(entry', call[d].w)
        <4>1. \A x \in Entries : /\ o[x] = IF x \in DOMAIN call[d].w THEN call[d].w[x] ELSE entry[x]
                                 /\ n[x] = IF x \in DOMAIN call[d].w THEN call[d].w[x] ELSE entry'[x]
          BY DEF Overlay
        <4>2. call[d].sums[p] = Seconds(o, p)
          BY <2>1 DEF Totals, SumOK
        <4> HIDE DEF o, n
        <4>3. \A x \in Entries : /\ o[x] \in Rows /\ n[x] \in Rows
                                 /\ n[x] = o[x] \/ (~Counts(o[x], p) /\ ~Counts(n[x], p))
          BY <1>2, <2>3, <2>4, <3>2, <3>3, <4>1
        <4>4. Seconds(n, p) = Seconds(o, p)
          BY <4>3, SecondsSame
        <4> QED BY <4>2, <4>4 DEF n
      <3>5. \A x \in DOMAIN call[d].w : Within(entry'[x], DOMAIN call[d].sums) /\ Within(call[d].w[x], DOMAIN call[d].sums)
        BY <2>1, <3>2 DEF Totals, SumOK
      <3> QED BY <3>1, <3>4, <3>5 DEF SumOK
    <2>7. SumOK(c)'
      BY <1>4 DEF SumOK
    <2> QED BY <1>4, <2>1, <2>5, <2>6, <2>7 DEF Totals, SummaryIsTotal
  <1> QED BY <1>6, <1>8, <1>9, <1>10

(* A call at rest, or about to act, has summed nothing.                     *)
LEMMA Blank ==
  ASSUME NEW pc, NEW op, NEW e, NEW saw
  PROVE  LET k == At(pc, op, e, saw)
         IN  /\ k.pc = pc /\ k.op = op /\ k.e = e /\ k.saw = saw
             /\ DOMAIN k.w = {} /\ DOMAIN k.sums = {} /\ k.after = {}
  <1>1. DOMAIN <<>> = {}
    OBVIOUS
  <1> QED BY <1>1 DEF At, Idle

(* So has one that is over, or has settled.                                 *)
LEMMA SettledBlank ==
  ASSUME NEW op, op # "delete", NEW k \in {Idle, Settled(op)}
  PROVE  /\ k.pc \in {"idle", "ready"} /\ (k.pc = "ready" => k.op # "delete") /\ ~Reads(k)
         /\ DOMAIN k.w = {} /\ DOMAIN k.sums = {} /\ k.after = {} /\ RowOK(k.saw, now)
  <1>1. DOMAIN <<>> = {} /\ Unborn.st = "none"
    BY DEF Unborn
  <1>2. CASE k = Idle
    BY <1>1, <1>2 DEF Idle, Reads, RowOK
  <1>3. CASE k = At("ready", op, NoEntry, Unborn)
    BY <1>1, <1>3, Blank DEF Reads, RowOK
  <1> QED BY <1>2, <1>3 DEF Settled

(* Time passes.                                                             *)
LEMMA TickKept ==
  ASSUME TInv, Tick
  PROVE  Kept'
  <1> USE DEF TInv, Kept
  <1>1. now' = now + 1 /\ now \in Nat /\ UNCHANGED <<entry, summary, call, typed, crossed>>
    BY TimerAssumption DEF Tick, IInv, Shape
  <1>2. \A x \in Entries : RowOK(entry[x], now)'
    BY <1>1, RowStays DEF IInv, Shape
  <1>3. ASSUME NEW c \in Calls PROVE CallOK(c)'
    <2>1. call[c].saw \in Rows /\ \A x \in DOMAIN call[c].w : call[c].w[x] \in Rows
      BY DEF IInv, Shape, CallShape
    <2>2. RowOK(call[c].saw, now + 1) /\ \A x \in DOMAIN call[c].w : RowOK(call[c].w[x], now + 1)
      BY <1>1, <2>1, RowStays DEF CallOK
    <2> QED BY <1>1, <2>2 DEF CallOK
  <1>4. ASSUME Totals PROVE Totals'
    BY <1>1, <1>4 DEF Totals, SummaryIsTotal, SumOK
  <1> QED BY <1>1, <1>2, <1>3, <1>4

(* A call begins.                                                           *)
LEMMA BeginKept ==
  ASSUME TInv, NEW c \in Calls, NEW op \in Settling, Begin(c, op)
  PROVE  Kept'
  <1>1. UNCHANGED <<now, entry, summary, crossed, typed>> /\ typed \in 0 .. MaxTyped /\ op # "delete"
    BY DEF Begin, TInv, Kept, Settling
  <1>2. CASE Overdue = {}
    <2> DEFINE k == Settled(op)
    <2>1. call' = [call EXCEPT ![c] = k]
      BY <1>2 DEF Begin
    <2>2. /\ k.pc \in {"idle", "ready"} /\ ~Reads(k)
          /\ DOMAIN k.w = {} /\ DOMAIN k.sums = {} /\ k.after = {} /\ RowOK(k.saw, now)
      BY <1>1, SettledBlank
    <2> HIDE DEF k
    <2> QED BY <1>1, <2>1, <2>2, CallKept
  <1>3. CASE Overdue # {}
    <2>1. PICK e \in Overdue : call' = [call EXCEPT ![c] = At("saw", op, e, entry[e])]
      BY <1>3 DEF Begin
    <2> DEFINE k == At("saw", op, e, entry[e])
    <2>2. e \in Entries /\ entry[e].st = "live" /\ RowOK(entry[e], now)
      BY DEF Overdue, Running, Live, TInv, Kept
    <2>3. /\ k.pc = "saw" /\ k.e = e /\ k.saw = entry[e]
          /\ DOMAIN k.w = {} /\ DOMAIN k.sums = {} /\ k.after = {}
      BY Blank
    <2>4. call' = [call EXCEPT ![c] = k]
      BY <2>1
    <2> HIDE DEF k
    <2> QED BY <1>1, <2>2, <2>3, <2>4, CallKept
  <1> QED BY <1>2, <1>3

(* A correction begins, with its row.                                       *)
LEMMA BeginOnKept ==
  ASSUME TInv, NEW c \in Calls, NEW op \in {"update", "delete"}, NEW e \in Entries, BeginOn(c, op, e)
  PROVE  Kept'
  <1> DEFINE k == At("ready", op, e, entry[e])
  <1>1. UNCHANGED <<now, entry, summary, crossed>> /\ call' = [call EXCEPT ![c] = k] /\ entry[e].st = "live"
    BY DEF BeginOn, Live
  <1>2. typed' \in 0 .. MaxTyped /\ RowOK(entry[e], now)
    BY TimerAssumption DEF BeginOn, TInv, Kept
  <1>3. /\ k.pc = "ready" /\ k.e = e /\ k.saw = entry[e]
        /\ DOMAIN k.w = {} /\ DOMAIN k.sums = {} /\ k.after = {}
    BY Blank
  <1> HIDE DEF k
  <1> QED BY <1>1, <1>2, <1>3, CallKept

(* A call ends, or a pass finds nothing to stop.                            *)
LEMMA EndKept ==
  ASSUME TInv, NEW c \in Calls, SettleMissed(c) \/ SettleRefused(c) \/ NothingToUndo(c) \/ NothingToDelete(c)
  PROVE  Kept'
  <1>1. UNCHANGED <<now, entry, summary, crossed, typed>> /\ typed \in 0 .. MaxTyped
    BY DEF SettleMissed, SettleRefused, NothingToUndo, NothingToDelete, Fail, TInv, Kept
  <1>2. PICK k : /\ \E op : op # "delete" /\ k \in {Idle, Settled(op)}
                 /\ call' = [call EXCEPT ![c] = k]
    <2>1. CASE SettleMissed(c)
      <3>1. call[c].op # "delete"
        BY <2>1 DEF SettleMissed, TInv, IInv, Passing, Settling
      <3> QED BY <2>1, <3>1 DEF SettleMissed
    <2>2. CASE ~SettleMissed(c)
      <3>1. call' = [call EXCEPT ![c] = Idle]
        BY <2>2 DEF SettleRefused, NothingToUndo, NothingToDelete, Fail
      <3>2. "look" # "delete"
        OBVIOUS
      <3> QED BY <3>1, <3>2
    <2> QED BY <2>1, <2>2
  <1>3. /\ k.pc \in {"idle", "ready"} /\ ~Reads(k)
        /\ DOMAIN k.w = {} /\ DOMAIN k.sums = {} /\ k.after = {} /\ RowOK(k.saw, now)
    BY <1>2, SettledBlank
  <1> QED BY <1>1, <1>2, <1>3, CallKept

(* An act takes the lock, or is refused there.                              *)
LEMMA LockMemberKept ==
  ASSUME TInv, NEW c \in Calls, NEW op \in Acts, NEW e \in Entries \cup {NoEntry}, LockMember(c, op, e)
  PROVE  Kept'
  <1>1. UNCHANGED <<now, entry, summary, crossed>> /\ typed' \in 0 .. MaxTyped
    BY TimerAssumption DEF LockMember, TInv, Kept
  <1>2. CASE Refused(op, e)
    <2>1. call' = [call EXCEPT ![c] = Idle]
      BY <1>2 DEF LockMember
    <2> DEFINE k == Idle
    <2>2. /\ k.pc \in {"idle", "ready"} /\ ~Reads(k)
          /\ DOMAIN k.w = {} /\ DOMAIN k.sums = {} /\ k.after = {} /\ RowOK(k.saw, now)
      BY SettledBlank, "look" # "delete"
    <2> QED BY <1>1, <2>1, <2>2, CallKept
  <1>3. CASE ~Refused(op, e)
    <2> DEFINE s == SeenUnderLock(c, op, e)
               k == At("locked", op, e, s)
    <2>1. call' = [call EXCEPT ![c] = k]
      BY <1>3 DEF LockMember
    <2>2. RowOK(s, now)
      BY DEF SeenUnderLock, TInv, Kept, CallOK, RowOK, Unborn
    <2>3. ASSUME op = "delete" PROVE s.st = "live" /\ entry[e].st # "none"
      <3>1. call[c].pc = "ready" /\ call[c].op = "delete" /\ e = call[c].e
        BY <2>3 DEF LockMember, Takes, ReadUnderLock
      <3>2. call[c].saw.st = "live" /\ entry[e].st # "none" /\ e \in Entries
        BY <3>1, ReadsEntry DEF TInv, Kept, CallOK, Reads
      <3> QED BY <2>3, <3>2, TimerAssumption DEF SeenUnderLock
    <2>4. /\ k.pc = "locked" /\ k.op = op /\ k.e = e /\ k.saw = s
          /\ DOMAIN k.w = {} /\ DOMAIN k.sums = {} /\ k.after = {}
      BY Blank
    <2> HIDE DEF s, k
    <2> QED BY <1>1, <2>1, <2>2, <2>3, <2>4, CallKept DEF Reads
  <1> QED BY <1>2, <1>3

(* A pass writes the stop of the entry it read, and sums its project.       *)
LEMMA SettleWriteKept ==
  ASSUME TInv, IInv', NEW c \in Calls, SettleWrite(c)
  PROVE  Kept'
  <1> DEFINE e == call[c].e
             saw == call[c].saw
             row == AutoStopped(entry[e])
             w == [x \in {e} |-> row]
  <1>1. call[c].pc = "saw" /\ StillRuns(e) /\ Write(c, "settled", w, {saw.p})
    BY DEF SettleWrite
  <1>2. e \in Entries /\ saw.st = "live"
    BY <1>1, ReadsEntry DEF TInv, Kept, CallOK, Reads
  <1>3. entry[e] \in Rows /\ RowOK(entry[e], now) /\ saw.p \in Projects
    BY <1>2 DEF TInv, IInv, Shape, Kept, CallOK, RowOK
  <1>4. /\ row.st = entry[e].st /\ row.p = entry[e].p /\ row.start = entry[e].start /\ row.stop = entry[e].start + Cap
        /\ entry[e].st \in {"live", "gone"} /\ entry[e].stop = NotStopped
    BY <1>1, <1>3 DEF AutoStopped, Bound, Rows, StillRuns
  <1>5. row.st # "none" /\ RowOK(row, now)
    BY <1>3, <1>4, TimerAssumption DEF RowOK, Rows
  <1>6. ~Misleads(c, {saw.p}) => entry[e].p = saw.p
    BY <1>2, TimerAssumption DEF Misleads
  <1>7. DOMAIN w = {e} /\ w[e] = row
    OBVIOUS
  <1>8. ~Misleads(c, {saw.p}) => \A x \in DOMAIN w : Within(entry[x], {saw.p}) /\ Within(w[x], {saw.p})
    <2> HIDE DEF w, row, e, saw
    <2> QED BY <1>4, <1>6, <1>7 DEF Within
  <1>9. {saw.p} \subseteq Projects /\ DOMAIN w \subseteq Entries /\ \A x \in DOMAIN w : w[x].st # "none" /\ RowOK(w[x], now)
    <2> HIDE DEF w, row, e, saw
    <2> QED BY <1>2, <1>3, <1>5, <1>7
  <1> HIDE DEF w, row
  <1> QED BY <1>1, <1>8, <1>9, WriteKept

(* What an act knows of its row: it is there, and so is its project.        *)
LEMMA HeldRow ==
  ASSUME TInv, NEW c \in Calls, NEW op, Holds(c, op), op # "create", call[c].e # NoEntry
  PROVE  LET e == call[c].e
         IN  /\ e \in Entries /\ entry[e] \in Rows /\ entry[e].st # "none" /\ RowOK(entry[e], now)
             /\ call[c].saw \in Rows /\ call[c].saw.st = "live" /\ RowOK(call[c].saw, now)
             /\ entry[e].p \in Projects /\ call[c].saw.p \in Projects
  <1> DEFINE e == call[c].e
  <1>1. call[c].pc = "locked" /\ call[c].op = op /\ e \in Entries
    BY DEF Holds, TInv, IInv, Shape, CallShape
  <1>2. call[c].saw.st = "live" /\ entry[e].st # "none"
    <2>1. CASE op = "delete"
      BY <1>1, <2>1 DEF TInv, Kept, CallOK, Reads
    <2>2. CASE op # "delete"
      BY <2>2, Held DEF TInv
    <2> QED BY <2>1, <2>2
  <1>3. entry[e] \in Rows /\ RowOK(entry[e], now) /\ call[c].saw \in Rows /\ RowOK(call[c].saw, now)
    BY <1>1 DEF TInv, IInv, Shape, CallShape, Kept, CallOK
  <1> QED BY <1>1, <1>2, <1>3 DEF RowOK

(* An act writes one row in place of the one it read: another end, another  *)
(* project, or its deletion.                                                *)
LEMMA RowKept ==
  ASSUME TInv, IInv', NEW c \in Calls, NEW op, Holds(c, op), op # "create", call[c].e # NoEntry,
         NEW row, NEW touched, touched \subseteq Projects,
         Write(c, "written", [x \in {call[c].e} |-> row], touched),
         row.st # "none", RowOK(row, now),
         ~Misleads(c, touched) => Within(entry[call[c].e], touched) /\ Within(row, touched)
  PROVE  Kept'
  <1> DEFINE e == call[c].e
             w == [x \in {e} |-> row]
  <1>1. e \in Entries
    BY HeldRow
  <1>2. DOMAIN w = {e} /\ w[e] = row /\ Write(c, "written", w, touched)
    OBVIOUS
  <1>3. \A x \in DOMAIN w : w[x].st # "none" /\ RowOK(w[x], now)
    <2> HIDE DEF w
    <2> QED BY <1>2
  <1>4. ~Misleads(c, touched) => \A x \in DOMAIN w : Within(entry[x], touched) /\ Within(w[x], touched)
    <2> HIDE DEF w
    <2> QED BY <1>2
  <1> HIDE DEF w
  <1> QED BY <1>1, <1>2, <1>3, <1>4, WriteKept

(* If nothing misleads the sum, the row is where it was read.               *)
LEMMA NotMisled ==
  ASSUME NEW c, NEW touched, call[c].e # NoEntry, ~Misleads(c, touched)
  PROVE  entry[call[c].e].p = call[c].saw.p
  BY DEF Misleads

(* An act has an entry, unless it starts or types one.                      *)
LEMMA HasEntry ==
  ASSUME TInv, NEW c \in Calls, NEW op \in {"stop", "undo", "update", "delete"}, Holds(c, op)
  PROVE  call[c].e # NoEntry
  BY DEF Holds, TInv, IInv, Acting

(* The timer is stopped.                                                    *)
LEMMA StopTimerKept ==
  ASSUME TInv, IInv', NEW c \in Calls, StopTimer(c)
  PROVE  Kept'
  <1> DEFINE e == call[c].e
             row == Stopped(entry[e], now)
  <1>1. Holds(c, "stop") /\ Write(c, "written", [x \in {e} |-> row], {entry[e].p})
    BY DEF StopTimer
  <1>2. e # NoEntry
    BY <1>1, HasEntry
  <1>3. entry[e] \in Rows /\ entry[e].st # "none" /\ RowOK(entry[e], now) /\ entry[e].p \in Projects
    BY <1>1, <1>2, HeldRow, "stop" # "create"
  <1>4. row.st = entry[e].st /\ row.p = entry[e].p /\ row.start = entry[e].start /\ row.stop = now
    BY <1>3 DEF Stopped, Rows
  <1>5. row.st # "none" /\ RowOK(row, now) /\ Within(entry[e], {entry[e].p}) /\ Within(row, {entry[e].p})
    BY <1>3, <1>4 DEF RowOK, Within
  <1> HIDE DEF row
  <1> QED BY <1>1, <1>2, <1>3, <1>5, RowKept, "stop" # "create"

(* An entry moves to another project.                                       *)
LEMMA MoveEntryKept ==
  ASSUME TInv, IInv', NEW c \in Calls, NEW p \in Projects, MoveEntry(c, p)
  PROVE  Kept'
  <1> DEFINE e == call[c].e
             saw == call[c].saw
             row == [saw EXCEPT !.p = p]
  <1>1. Holds(c, "update") /\ Write(c, "written", [x \in {e} |-> row], {saw.p, p})
    BY DEF MoveEntry
  <1>2. e # NoEntry
    BY <1>1, HasEntry
  <1>3. saw \in Rows /\ saw.st = "live" /\ RowOK(saw, now) /\ saw.p \in Projects
    BY <1>1, <1>2, HeldRow, "update" # "create"
  <1>4. row.st = saw.st /\ row.p = p /\ row.start = saw.start /\ row.stop = saw.stop
    BY <1>3 DEF Rows
  <1>5. row.st # "none" /\ RowOK(row, now) /\ Within(row, {saw.p, p})
    BY <1>3, <1>4 DEF RowOK, Within
  <1>6. ~Misleads(c, {saw.p, p}) => Within(entry[e], {saw.p, p})
    BY <1>2, NotMisled DEF Within
  <1> HIDE DEF row
  <1> QED BY <1>1, <1>2, <1>3, <1>5, <1>6, RowKept, "update" # "create"

(* An entry gets the interval a person answers for.                         *)
LEMMA RetimeKept ==
  ASSUME TInv, IInv', NEW c \in Calls, NEW from \in 0 .. MaxNow, NEW to \in 0 .. MaxNow \cup {NotStopped}, Retime(c, from, to)
  PROVE  Kept'
  <1> DEFINE e == call[c].e
             saw == call[c].saw
             row == [saw EXCEPT !.start = from, !.stop = to, !.review = FALSE, !.hand = TRUE]
  <1>1. /\ Holds(c, "update") /\ Write(c, "written", [x \in {e} |-> row], {saw.p})
        /\ IF to = NotStopped THEN from <= now ELSE from < to /\ to <= now
    BY DEF Retime
  <1>2. e # NoEntry
    BY <1>1, HasEntry
  <1>3. saw \in Rows /\ saw.st = "live" /\ RowOK(saw, now) /\ saw.p \in Projects
    BY <1>1, <1>2, HeldRow, "update" # "create"
  <1>4. row.st = saw.st /\ row.p = saw.p /\ row.start = from /\ row.stop = to
    BY <1>3 DEF Rows
  <1>5. now \in Nat /\ from \in Nat /\ (to # NotStopped => to \in Nat)
    BY TimerAssumption DEF TInv, IInv, Shape
  <1>6. from <= now /\ (to # NotStopped => from <= to)
    BY <1>1, <1>5
  <1>7. row.st # "none" /\ RowOK(row, now) /\ Within(row, {saw.p})
    BY <1>3, <1>4, <1>6 DEF RowOK, Within
  <1>8. ~Misleads(c, {saw.p}) => Within(entry[e], {saw.p})
    BY <1>2, NotMisled DEF Within
  <1> HIDE DEF row
  <1> QED BY <1>1, <1>2, <1>3, <1>7, <1>8, RowKept, "update" # "create"

(* An entry is deleted.                                                     *)
LEMMA DeleteEntryKept ==
  ASSUME TInv, IInv', NEW c \in Calls, DeleteEntry(c)
  PROVE  Kept'
  <1> DEFINE e == call[c].e
             saw == call[c].saw
             end == IF saw.stop = NotStopped THEN now ELSE entry[e].stop
             row == [entry[e] EXCEPT !.st = "gone", !.stop = end]
  <1>1. Holds(c, "delete") /\ Write(c, "written", [x \in {e} |-> row], {saw.p})
    BY DEF DeleteEntry
  <1>2. e # NoEntry
    BY <1>1, HasEntry
  <1>3. entry[e] \in Rows /\ entry[e].st # "none" /\ RowOK(entry[e], now) /\ saw.p \in Projects
    BY <1>1, <1>2, HeldRow, "delete" # "create"
  <1>4. row.st = "gone" /\ row.p = entry[e].p /\ row.start = entry[e].start /\ row.stop = end
    BY <1>3 DEF Rows
  <1>5. row.st # "none" /\ RowOK(row, now) /\ Within(row, {saw.p})
    BY <1>3, <1>4 DEF RowOK, Within
  <1>6. ~Misleads(c, {saw.p}) => Within(entry[e], {saw.p})
    BY <1>2, NotMisled DEF Within
  <1> HIDE DEF row
  <1> QED BY <1>1, <1>2, <1>3, <1>5, <1>6, RowKept, "delete" # "create"

(* A finished entry is typed.                                               *)
LEMMA CreateEntryKept ==
  ASSUME TInv, IInv', NEW c \in Calls, NEW new \in Entries, NEW p \in Projects,
         NEW from \in 0 .. MaxNow, NEW to \in 0 .. MaxNow, CreateEntry(c, new, p, from, to)
  PROVE  Kept'
  <1> DEFINE row == [st |-> "live", start |-> from, stop |-> to, p |-> p, review |-> FALSE, hand |-> TRUE]
             w == [x \in {new} |-> row]
  <1>1. entry[new] = Unborn /\ Write(c, "written", w, {p}) /\ from < to /\ to <= now
    BY DEF CreateEntry
  <1>2. now \in Nat /\ from \in Nat /\ to \in Nat
    BY TimerAssumption DEF TInv, IInv, Shape
  <1>3. row.st # "none" /\ RowOK(row, now) /\ Within(row, {p})
    BY <1>1, <1>2 DEF RowOK, Within
  <1>4. Within(entry[new], {p})
    BY <1>1 DEF Within, Unborn
  <1> HIDE DEF row
  <1>5. DOMAIN w = {new} /\ w[new] = row
    OBVIOUS
  <1> HIDE DEF w
  <1>6. \A x \in DOMAIN w : w[x].st # "none" /\ RowOK(w[x], now) /\ Within(entry[x], {p}) /\ Within(w[x], {p})
    BY <1>3, <1>4, <1>5
  <1> QED BY <1>1, <1>5, <1>6, WriteKept

(* A timer starts, and the one that ran is stopped and summed.              *)
LEMMA StartTimerKept ==
  ASSUME TInv, IInv', NEW c \in Calls, NEW new \in Entries, NEW p \in Projects, StartTimer(c, new, p)
  PROVE  Kept'
  <1> DEFINE e == call[c].e
             stopped == IF e = NoEntry THEN {} ELSE {e}
             w == [x \in {new} \cup stopped |-> IF x = new THEN Started(p) ELSE Stopped(entry[x], now)]
             touched == {entry[x].p : x \in stopped}
  <1>1. Holds(c, "start") /\ entry[new] = Unborn /\ Write(c, "written", w, touched)
    BY DEF StartTimer
  <1>2. ASSUME NEW x \in stopped
        PROVE  /\ x \in Entries /\ entry[x] \in Rows /\ entry[x].st # "none" /\ RowOK(entry[x], now) /\ entry[x].p \in Projects
               /\ x # new
    <2>1. x = e /\ e # NoEntry
      OBVIOUS
    <2>2. x \in Entries /\ entry[x] \in Rows /\ entry[x].st # "none" /\ RowOK(entry[x], now) /\ entry[x].p \in Projects
      BY <1>1, <2>1, HeldRow, "start" # "create"
    <2> QED BY <1>1, <2>2 DEF Unborn
  <1>3. /\ Started(p).st = "live" /\ Started(p).start = now /\ Started(p).p = p /\ Started(p).stop = NotStopped
        /\ now \in Nat
    BY TimerAssumption DEF Started, Unborn, TInv, IInv, Shape
  <1>4. ASSUME NEW x \in stopped
        PROVE  Stopped(entry[x], now).st # "none" /\ RowOK(Stopped(entry[x], now), now) /\ Stopped(entry[x], now).p = entry[x].p
    <2> DEFINE row == Stopped(entry[x], now)
    <2>1. row.st = entry[x].st /\ row.p = entry[x].p /\ row.start = entry[x].start /\ row.stop = now
      BY <1>2 DEF Stopped, Rows
    <2>2. entry[x].st # "none" /\ RowOK(entry[x], now)
      BY <1>2
    <2> HIDE DEF row, stopped
    <2>3. row.st # "none" /\ RowOK(row, now)
      BY <2>1, <2>2 DEF RowOK
    <2> QED BY <2>1, <2>3 DEF row
  <1>5. DOMAIN w = {new} \cup stopped /\ w[new] = Started(p) /\ \A x \in stopped : w[x] = Stopped(entry[x], now)
    BY <1>2
  <1>6. touched \subseteq Projects /\ \A x \in stopped : entry[x].p \in touched
    BY <1>2
  <1> HIDE DEF w, stopped, touched
  <1>7. w[new].st # "none" /\ RowOK(w[new], now) /\ Within(entry[new], touched) /\ Within(w[new], touched)
    BY <1>1, <1>3, <1>5 DEF RowOK, Within, Unborn
  <1>8. \A x \in stopped : w[x].st # "none" /\ RowOK(w[x], now) /\ Within(entry[x], touched) /\ Within(w[x], touched)
    BY <1>4, <1>5, <1>6 DEF Within
  <1>9. \A x \in DOMAIN w : w[x].st # "none" /\ RowOK(w[x], now) /\ Within(entry[x], touched) /\ Within(w[x], touched)
    BY <1>5, <1>7, <1>8
  <1>10. DOMAIN w \subseteq Entries
    BY <1>2, <1>5
  <1> QED BY <1>1, <1>6, <1>9, <1>10, WriteKept

(* A start is undone, and both projects are summed.                         *)
LEMMA UndoStartKept ==
  ASSUME TInv, IInv', NEW c \in Calls, NEW resume \in Entries, UndoStart(c, resume)
  PROVE  Kept'
  <1> DEFINE e == call[c].e
             gone == [entry[e] EXCEPT !.st = "erased"]
             again == [entry[resume] EXCEPT !.stop = NotStopped, !.hand = entry[resume].hand \/ entry[e].hand]
             w == [x \in {e, resume} |-> IF x = e THEN gone ELSE again]
             touched == {entry[e].p, entry[resume].p}
  <1>1. Holds(c, "undo") /\ Write(c, "written", w, touched) /\ resume # e /\ entry[resume].st = "live"
    <2>1. \A x \in {e, resume} : x # e => x = resume
      OBVIOUS
    <2> QED BY <2>1 DEF UndoStart, Undoable, Live
  <1>2. e # NoEntry
    BY <1>1, HasEntry
  <1>3. e \in Entries /\ entry[e] \in Rows /\ entry[e].st # "none" /\ RowOK(entry[e], now) /\ entry[e].p \in Projects
    BY <1>1, <1>2, HeldRow, "undo" # "create"
  <1>4. entry[resume] \in Rows /\ RowOK(entry[resume], now) /\ entry[resume].p \in Projects
    BY <1>1 DEF TInv, IInv, Shape, Kept, RowOK
  <1>5. gone.st = "erased" /\ gone.p = entry[e].p /\ gone.start = entry[e].start /\ gone.stop = entry[e].stop
    BY <1>3 DEF Rows
  <1>6. again.st = "live" /\ again.p = entry[resume].p /\ again.start = entry[resume].start /\ again.stop = NotStopped
    BY <1>1, <1>4 DEF Rows
  <1> HIDE DEF gone, again
  <1>7. DOMAIN w = {e, resume} /\ w[e] = gone /\ w[resume] = again
    BY <1>1
  <1>8. gone.st # "none" /\ RowOK(gone, now) /\ Within(gone, touched) /\ Within(entry[e], touched)
    BY <1>3, <1>5 DEF RowOK, Within
  <1>9. again.st # "none" /\ RowOK(again, now) /\ Within(again, touched) /\ Within(entry[resume], touched)
    BY <1>1, <1>4, <1>6 DEF RowOK, Within
  <1>10. touched \subseteq Projects
    BY <1>3, <1>4
  <1> HIDE DEF w, touched, e
  <1>11. DOMAIN w \subseteq Entries
    BY <1>3, <1>7
  <1>12. \A x \in DOMAIN w : w[x].st # "none" /\ RowOK(w[x], now) /\ Within(entry[x], touched) /\ Within(w[x], touched)
    BY <1>7, <1>8, <1>9
  <1> QED BY <1>1, <1>10, <1>11, <1>12, WriteKept

(* A pass or an act commits.                                                *)
LEMMA CommitsKept ==
  ASSUME TInv, IInv', NEW c \in Calls, SettleCommit(c) \/ Commit(c)
  PROVE  Kept'
  <1>1. PICK k : /\ \E op : op # "delete" /\ k \in {Idle, Settled(op)}
                 /\ CommitWrites(c, k) /\ UNCHANGED <<now, typed, crossed>>
    <2>1. CASE SettleCommit(c)
      <3>1. call[c].op # "delete"
        BY <2>1 DEF SettleCommit, TInv, IInv, Passing, Settling
      <3> QED BY <2>1, <3>1 DEF SettleCommit
    <2>2. CASE Commit(c)
      <3>1. "look" # "delete"
        OBVIOUS
      <3> QED BY <2>2, <3>1 DEF Commit
    <2> QED BY <2>1, <2>2
  <1>2. /\ k.pc \in {"idle", "ready"} /\ (k.pc = "ready" => k.op # "delete")
        /\ DOMAIN k.w = {} /\ DOMAIN k.sums = {} /\ k.after = {} /\ RowOK(k.saw, now)
    BY <1>1, SettledBlank
  <1> QED BY <1>1, <1>2, CommitKept

-----------------------------------------------------------------------------
(* At first there is nothing to sum.                                        *)
LEMMA InitKept ==
  ASSUME Init
  PROVE  Kept
  <1>1. /\ now = 0 /\ entry = [e \in Entries |-> Unborn] /\ summary = [p \in Projects |-> 0]
        /\ call = [c \in Calls |-> Idle] /\ typed = 0 /\ crossed = FALSE
    BY DEF Init
  <1>2. /\ Idle.pc = "idle" /\ ~Reads(Idle)
        /\ DOMAIN Idle.w = {} /\ DOMAIN Idle.sums = {} /\ Idle.after = {} /\ RowOK(Idle.saw, now)
    <2>1. "look" # "delete"
      OBVIOUS
    <2> DEFINE k == Idle
    <2>2. k \in {Idle, Settled("look")} /\ k.pc = "idle"
      BY IdleFacts
    <2> HIDE DEF k
    <2>3. ~Reads(k) /\ DOMAIN k.w = {} /\ DOMAIN k.sums = {} /\ k.after = {} /\ RowOK(k.saw, now)
      BY <2>1, <2>2, SettledBlank
    <2> QED BY <2>2, <2>3 DEF k
  <1>3. Unborn.st = "none" /\ Unborn \in Rows
    BY IdleFacts DEF Unborn, Idle, CallShape
  <1>4. \A c \in Calls : CallOK(c)
    BY <1>1, <1>2 DEF CallOK
  <1>5. ASSUME NEW p \in Projects PROVE Seconds(entry, p) = 0
    <2>1. \A e \in Entries : entry[e] \in Rows
      BY <1>1, <1>3
    <2>2. CountedIn(entry, p) = {}
      BY <1>1, <1>3 DEF CountedIn, Counts
    <2>3. Seconds(entry, p) = SumFunction([e \in CountedIn(entry, p) |-> entry[e].stop - entry[e].start])
      BY <2>1, SecondsIsSum
    <2> DEFINE g == [e \in CountedIn(entry, p) |-> entry[e].stop - entry[e].start]
    <2>4. DOMAIN g = {} /\ Seconds(entry, p) = SumFunction(g)
      BY <2>2, <2>3
    <2> HIDE DEF g
    <2> QED BY <2>4, SumOfNothing
  <1>6. Totals
    BY <1>1, <1>2, <1>5 DEF Totals, SumOK, SummaryIsTotal
  <1>7. \A x \in Entries : RowOK(entry[x], now)
    BY <1>1, <1>3 DEF RowOK
  <1>8. summary \in [Projects -> Nat] /\ typed \in 0 .. MaxTyped /\ crossed \in BOOLEAN
    <2>1. summary \in [Projects -> Nat]
      BY <1>1
    <2>2. MaxTyped \in Nat /\ typed = 0
      BY <1>1, TimerAssumption
    <2>3. crossed \in BOOLEAN
      BY <1>1
    <2> QED BY <2>1, <2>2, <2>3
  <1> QED BY <1>4, <1>6, <1>7, <1>8 DEF Kept

(* Every step keeps it.                                                     *)
LEMMA StepKept ==
  ASSUME TInv, [Next]_vars
  PROVE  TInv'
  <1>1. IInv'
    BY StepOK DEF TInv
  <1>2. CASE UNCHANGED vars
    <2>1. UNCHANGED <<now, entry, summary, lock, call, typed, crossed>>
      BY <1>2 DEF vars
    <2>2. \A c \in Calls : CallOK(c)'
      BY <2>1 DEF TInv, Kept, CallOK
    <2>3. Totals => Totals'
      BY <2>1 DEF Totals, SummaryIsTotal, SumOK
    <2> QED BY <1>1, <2>1, <2>2, <2>3 DEF TInv, Kept
  <1>3. CASE Tick
    BY <1>1, <1>3, TickKept DEF TInv
  <1>4. ASSUME NEW c \in Calls, Settle(c) PROVE Kept'
    BY <1>1, <1>4, SettleWriteKept, EndKept, CommitsKept DEF Settle
  <1>5. ASSUME NEW c \in Calls, Act(c) PROVE Kept'
    BY <1>1, <1>5, LockMemberKept, StopTimerKept, StartTimerKept, UndoStartKept, EndKept, CreateEntryKept,
       MoveEntryKept, RetimeKept, DeleteEntryKept, CommitsKept DEF Act
  <1>6. ASSUME NEW c \in Calls, NEW op \in Settling, Begin(c, op) PROVE Kept'
    BY <1>6, BeginKept
  <1>7. ASSUME NEW c \in Calls, NEW op \in {"update", "delete"}, NEW e \in Entries, BeginOn(c, op, e) PROVE Kept'
    BY <1>7, BeginOnKept
  <1> QED BY <1>1, <1>2, <1>3, <1>4, <1>5, <1>6, <1>7 DEF Next, TInv

(* It holds throughout.                                                     *)
LEMMA SumsKept == Spec => []TInv
  <1>1. Init => TInv
    BY InitOK, InitKept DEF TInv
  <1>2. TInv /\ [Next]_vars => TInv'
    BY StepKept
  <1> QED BY <1>1, <1>2, PTL DEF Spec

(* Every variable keeps its type: rows keep their columns, the lock is with *)
(* the call that is past it, a sum is never below nothing.                  *)
THEOREM Typed == Spec => []TypeOK
  <1>1. TInv => TypeOK
    <2> SUFFICES ASSUME TInv PROVE TypeOK
      OBVIOUS
    <2>1. now \in 0 .. MaxNow /\ entry \in [Entries -> Rows] /\ \A c \in Calls : CallShape(call[c])
      BY DEF TInv, IInv, Shape
    <2>2. summary \in [Projects -> Nat] /\ typed \in 0 .. MaxTyped /\ crossed \in BOOLEAN /\ \A c \in Calls : CallOK(c)
      BY DEF TInv, Kept
    <2>3. lock \in Calls \cup {NoCall} /\ (lock # NoCall <=> \E c \in Calls : call[c].pc \in {"locked", "written"})
      BY TimerAssumption DEF TInv, IInv, LockOK
    <2> QED BY <2>1, <2>2, <2>3 DEF TypeOK, CallShape, CallOK
  <1> QED BY <1>1, SumsKept, PTL

(* What a project is shown to have used is the sum of its finished entries  *)
(* (time.dbtest.ts: "project_time_summary == SUM(time_entry)"), as long as  *)
(* no two sums of it were under way at once and no entry changed project    *)
(* under a call that had read it (summary.ts: recomputeProjectMonth).       *)
THEOREM SumsStand == Spec => []SummaryIsTotalUnlessCrossed
  <1>1. TInv => SummaryIsTotalUnlessCrossed
    BY DEF TInv, Kept, Totals, SummaryIsTotalUnlessCrossed
  <1> QED BY <1>1, SumsKept, PTL
=============================================================================
