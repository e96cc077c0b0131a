----------------------------- MODULE FortnoxSend -----------------------------
(***************************************************************************)
(* The nightly send to Fortnox (src/src/modules/invoicing/fortnox-send.ts): *)
(* the bookkeeping entries of a connected workspace, each made a voucher in *)
(* the workspace's Fortnox company, in order and once, though an answer may *)
(* be lost, a run killed, the lease lapse or a person disconnect meanwhile. *)
(*                                                                         *)
(* One step is one transaction, one answer of Fortnox, one person's act or  *)
(* one tick of the clock.  An entry is named by its place in the line       *)
(* (file, then day and place): files are numbered in the order they are     *)
(* made.  One financial year and one voucher series, Fortleva's own, and    *)
(* one PDF to a voucher.  Times are relative: `age' is the time since a     *)
(* voucher was asked for, `lease' what is left of the connection's lease,   *)
(* `left' of a run's deadline and `late' of the time in which Fortnox may   *)
(* still act on a request.  DayPasses is a night without a run.             *)
(***************************************************************************)
EXTENDS Naturals, Sequences, FiniteSets

CONSTANTS
  LastEntry,    \* bound: the entries of the books
  LastConn,     \* bound: connections, one after the other
  Runs,         \* the calls of sendToFortnox that may overlap
  NoRun,
  Lease,        \* LEASE_MINUTES, in ticks
  Budget,       \* FORTNOX_BUDGET_MS: what a run has when it begins
  Softs,        \* what may be left of the budget at a run's softUntil
  VoucherLeft,  \* VOUCHER_MIN_LEFT_MS
  PdfLeft,      \* PDF_MIN_LEFT_MS
  FileLeft,     \* FILE_MIN_LEFT_MS
  Unsure,       \* UNSURE_AFTER_MS
  Landing,      \* the longest Fortnox takes to act on a request
  Scan,         \* RECONCILE_SCAN
  MaxOthers,    \* bound: vouchers others make in the series
  MaxAttempts,  \* bound: times a connection is connected or reconnected
  MaxSlow,      \* bound: ticks that pass while a run is under way
  MaxFaults     \* bound: crashes, and answers of Fortnox other than the good one

Entries == 1 .. LastEntry
Conns   == 1 .. LastConn
Other   == 0
NoEntry == 0
NoConn  == 0

(* A request Fortnox acts on at all, it acts on before the voucher is       *)
(* looked for; others, and connections cut off, make fewer vouchers than a  *)
(* reconcile looks at.                                                      *)
ASSUME FortnoxAssumption ==
  /\ {LastEntry, LastConn, VoucherLeft, PdfLeft, FileLeft, MaxOthers, MaxAttempts,
      MaxSlow, MaxFaults} \subseteq Nat
  /\ {Lease, Budget, Landing, Unsure, Scan} \subseteq Nat \ {0}
  /\ Softs \subseteq Nat
  /\ NoRun \notin Runs
  /\ Budget + Landing <= Unsure
  /\ MaxOthers + LastConn <= Scan

VARIABLES
  dv,      \* invoice_export_delivery, by entry
  conn,    \* integration_connection
  run,     \* what each run holds in memory
  series,  \* the vouchers of Fortnox's series, in the order of their numbers
  late,    \* requests Fortnox may still act on, by entry
  due,     \* how many entries the books have
  faults, slow

vars == <<dv, conn, run, series, late, due, faults, slow>>

States  == {"NEW", "QUEUED", "SENDING", "BOOKED", "DONE", "BY_HAND", "DOWNLOADED"}
Owed    == {"QUEUED", "SENDING"}
History == {"DONE", "BY_HAND", "DOWNLOADED"}

Delivery ==
  [state: States, conn: Conns \cup {NoConn}, file: Nat, number: Nat, next: Nat,
   age: 0 .. Unsure, old: BOOLEAN, kept: BOOLEAN, denied: BOOLEAN]

NoDelivery ==
  [state |-> "NEW", conn |-> NoConn, file |-> 0, number |-> 0, next |-> 0,
   age |-> 0, old |-> FALSE, kept |-> FALSE, denied |-> FALSE]

(* A stop's reason: one only a person's reconnect mends, or one every run   *)
(* tries again; and the entry it names.                                     *)
Stop   == [kind: {"none", "stop", "terminal"}, entry: Entries \cup {NoEntry}]
NoStop == [kind |-> "none", entry |-> NoEntry]
At(k, e) == [kind |-> k, entry |-> e]

Connection ==
  [status: {"NONE", "ACTIVE", "BROKEN", "DISCONNECTED"}, stop: Stop, attempt: Nat,
   night: BOOLEAN, reached: BOOLEAN, lease: 0 .. Lease, holder: Runs \cup {NoRun}, cut: Nat]

(* `night': the night is closed; `reached': Fortnox was reached within a    *)
(* day; `cut', history: its vouchers in Fortnox when it was disconnected.   *)
NoConnection ==
  [status |-> "NONE", stop |-> NoStop, attempt |-> 0, night |-> TRUE,
   reached |-> TRUE, lease |-> 0, holder |-> NoRun, cut |-> 0]

(* Where a run stands: each name but "idle" is the step it takes next.      *)
Steps ==
  {"idle", "claim", "hello", "line", "book", "reconcile", "requeue", "send", "intent",
   "ask", "asked", "booked", "pdf", "keep", "connect", "done", "found", "owed", "next", "night",
   "file", "close", "settle", "state", "release"}

Run ==
  [pc: Steps, conn: Conns \cup {NoConn}, attempt: Nat, was: {"ACTIVE", "BROKEN"},
   night: BOOLEAN, fresh: BOOLEAN, left: 0 .. Budget, soft: Nat,
   seen: [Entries -> Delivery], owed: BOOLEAN, tried: SUBSET Entries, at: Nat,
   then: {"none", "send", "rate", "stop", "terminal"}, stop: Stop, overdue: Stop,
   quiet: BOOLEAN, reach: BOOLEAN, out: BOOLEAN, clear: BOOLEAN, booked: BOOLEAN,
   attached: BOOLEAN, restore: BOOLEAN]

Nothing == [e \in Entries |-> NoDelivery]

NewRun ==
  [pc |-> "idle", conn |-> NoConn, attempt |-> 0, was |-> "ACTIVE", night |-> TRUE,
   fresh |-> TRUE, left |-> 0, soft |-> 0, seen |-> Nothing, owed |-> FALSE, tried |-> {},
   at |-> 0, then |-> "none", stop |-> NoStop, overdue |-> NoStop, quiet |-> FALSE,
   reach |-> FALSE, out |-> FALSE, clear |-> FALSE, booked |-> FALSE, attached |-> FALSE,
   restore |-> FALSE]

Init ==
  /\ dv = Nothing
  /\ conn = [c \in Conns |-> NoConnection]
  /\ run = [r \in Runs |-> NewRun]
  /\ series = <<>>
  /\ late = [e \in Entries |-> 0]
  /\ due = 0 /\ faults = 0 /\ slow = 0

-----------------------------------------------------------------------------
(* The line, the connection and Fortnox *)

First(S) == CHOOSE e \in S : \A f \in S : e <= f

(* What a run still has before it, and the entry it is at.                  *)
Todo(x) == {e \in Entries : x.seen[e].state # "NEW"}
Cur(x)  == First(Todo(x))

(* readOwed: the connection's deliveries in such states.                    *)
Read(c, S) == [e \in Entries |-> IF dv[e].conn = c /\ dv[e].state \in S THEN dv[e] ELSE NoDelivery]

OwedTo(c) == {e \in Entries : dv[e].conn = c /\ dv[e].state \in Owed}

Live(c) == conn[c].status \in {"ACTIVE", "BROKEN"}

(* Mutant of Holds: any run writes while the lease is live.                 *)
HoldsUnfenced(r) ==
  LET c == conn[run[r].conn] IN c.lease > 0 /\ c.status # "DISCONNECTED"

(* Mutant of Holds: a disconnect is not asked for.                          *)
HoldsCut(r) == LET c == conn[run[r].conn] IN c.holder = r /\ c.lease > 0

(* The guards of the delivery and of the file: the sender writes under its  *)
(* own live lease, to a connection not disconnected.                        *)
Holds(r) ==
  LET c == conn[run[r].conn] IN c.holder = r /\ c.lease > 0 /\ c.status # "DISCONNECTED"

(* Where the series has an entry's voucher, from a number on.               *)
Made(e, n) == {i \in DOMAIN series : i >= n /\ series[i] = e}

Vouchers(c) == {i \in DOMAIN series : series[i] # Other /\ dv[series[i]].conn = c}

(* Mutant of Found: the kept number itself is not looked at.                *)
FoundPast(o, e) == {i \in Made(e, o.next + 1) : i < o.next + Scan}

(* What a reconcile finds: it looks at Scan numbers from the kept one.      *)
Found(o, e) == {i \in Made(e, o.next) : i < o.next + Scan}

Fault == faults < MaxFaults /\ faults' = faults + 1

(* A call is made only before the deadline (live.ts); an answer lost to it  *)
(* is no fault.                                                             *)
Asks(r) == run[r].left > 0
Unanswered(r) == IF Asks(r) THEN Fault ELSE UNCHANGED faults

(* mayBegin *)
Begins(r, need) == run[r].left > run[r].soft /\ run[r].left >= need

-----------------------------------------------------------------------------
(* What a step makes of a run *)

Halted(x) == [x EXCEPT !.pc = "owed", !.clear = FALSE, !.seen = Nothing, !.at = 0, !.then = "none"]

(* Mutant of StopAt: the line goes on past an entry that cannot go.         *)
StopSkips(x, k) == [x EXCEPT !.pc = "book", !.seen[Cur(x)] = NoDelivery, !.then = "none", !.at = 0]

(* deliverLine ends: with a reason, quietly, for a refused write, or for    *)
(* want of time.  The run goes on to the PDFs.                              *)
StopAt(x, k)   == [Halted(x) EXCEPT !.stop = IF @.kind = "none" THEN At(k, Cur(x)) ELSE @]
Quieted(x)     == [Halted(x) EXCEPT !.quiet = TRUE]
OutOfTime(x)   == [Halted(x) EXCEPT !.out = TRUE]

(* A refused write of the PDFs or of the night ends the run: to its state.  *)
Ended(x)   == [x EXCEPT !.pc = "settle", !.seen = Nothing]
Cut(x)     == [Ended(x) EXCEPT !.quiet = TRUE]

(* attach is through with the entry: on to the next one.                    *)
PastPdf(x) ==
  [x EXCEPT !.seen[Cur(x)] = NoDelivery, !.tried = @ \cup {Cur(x)},
            !.pc = IF x.owed THEN "next" ELSE "book"]

(* A PDF not attached, reported once its voucher is a day old.              *)
Missing(x) ==
  [PastPdf(x) EXCEPT
     !.overdue = IF @.kind = "none" /\ x.seen[Cur(x)].old THEN At("stop", Cur(x)) ELSE @]

Set(r, x) == run' = [run EXCEPT ![r] = x]

(* A write that fails of itself, or whose commit is not heard: to the run it *)
(* is refused, whether it was made or not.                                  *)
Lost(r, x, written) == Fault /\ Set(r, x) /\ dv' \in {dv, written}

(* A call before the line, or of it, that does not bring the good answer:   *)
(* Fortnox refuses it, takes the consent for gone, or is not heard.         *)
LineFails(r) ==
  \/ Asks(r) /\ Fault /\ \E k \in {"stop", "terminal"} : Set(r, StopAt(run[r], k))
  \/ Unanswered(r) /\ Set(r, Quieted(run[r]))

-----------------------------------------------------------------------------
(* A run: the lease, and the company asked again *)

Start(r) ==
  /\ run[r].pc = "idle"
  /\ \E c \in Conns, s \in Softs :
       /\ Live(c) /\ conn[c].stop.kind # "terminal"
       /\ Set(r, [NewRun EXCEPT
            !.pc = "claim", !.conn = c, !.attempt = conn[c].attempt, !.was = conn[c].status,
            !.night = conn[c].night, !.fresh = conn[c].reached, !.left = Budget, !.soft = s])
  /\ UNCHANGED <<dv, conn, series, late, due, faults, slow>>

(* Mutant of Claimable: only a lease that was given back.                   *)
ClaimableReleased(c) == Live(c) /\ conn[c].holder = NoRun

(* The conditional UPDATE: none when the lease is live, or the connection gone. *)
Claimable(c) == Live(c) /\ conn[c].lease = 0

Claim(r) ==
  /\ run[r].pc = "claim"
  /\ LET c == run[r].conn IN
     \/ /\ Claimable(c)
        /\ conn' = [conn EXCEPT ![c].lease = Lease, ![c].holder = r]
        /\ Set(r, [run[r] EXCEPT !.pc = "hello"])
     \/ /\ ~Claimable(c)
        /\ Set(r, NewRun)
        /\ UNCHANGED conn
  /\ UNCHANGED <<dv, series, late, due, faults, slow>>

Hello(r) ==
  /\ run[r].pc = "hello"
  /\ \/ Asks(r) /\ Set(r, [run[r] EXCEPT !.pc = "line", !.reach = TRUE]) /\ UNCHANGED faults
     \/ /\ Asks(r) /\ Fault
        /\ \E k \in {"stop", "terminal"} : Set(r, [Ended(run[r]) EXCEPT !.stop = At(k, NoEntry)])
     \/ Unanswered(r) /\ Set(r, [Ended(run[r]) EXCEPT !.quiet = TRUE])
  /\ UNCHANGED <<dv, conn, series, late, due, slow>>

-----------------------------------------------------------------------------
(* A run: the voucher line *)

ReadLine(r) ==
  /\ run[r].pc = "line"
  /\ Set(r, [run[r] EXCEPT !.pc = "book", !.owed = FALSE, !.seen = Read(run[r].conn, Owed)])
  /\ UNCHANGED <<dv, conn, series, late, due, faults, slow>>

(* The first entry left, as it was read: one whose answer may be under way  *)
(* stops the line, one asked long ago is looked for, any other is sent.     *)
Book(r) ==
  /\ run[r].pc = "book"
  /\ LET x == run[r]
         o == x.seen[Cur(x)]
     IN \/ Todo(x) = {} /\ Set(r, [x EXCEPT !.pc = "owed", !.clear = TRUE])
        \/ /\ Todo(x) # {} /\ o.state = "QUEUED"
           /\ Set(r, [x EXCEPT !.pc = "send"])
        \/ /\ Todo(x) # {} /\ o.state = "SENDING" /\ o.age < Unsure
           /\ Set(r, Quieted(x))
        \/ /\ Todo(x) # {} /\ o.state = "SENDING" /\ o.age >= Unsure
           /\ Set(r, IF Begins(r, VoucherLeft) THEN [x EXCEPT !.pc = "reconcile"] ELSE OutOfTime(x))
  /\ UNCHANGED <<dv, conn, series, late, due, faults, slow>>

Reconcile(r) ==
  /\ run[r].pc = "reconcile"
  /\ LET x == run[r]
         n == Found(x.seen[Cur(x)], Cur(x))
     IN \/ /\ Asks(r) /\ n # {}
           /\ Set(r, [x EXCEPT !.pc = "booked", !.at = First(n)])
           /\ UNCHANGED faults
        \/ /\ Asks(r) /\ n = {}
           /\ Set(r, [x EXCEPT !.pc = "requeue", !.then = "send"])
           /\ UNCHANGED faults
        \/ LineFails(r)
  /\ UNCHANGED <<dv, conn, series, late, due, slow>>

(* SENDING -> QUEUED: found nowhere, or refused for certain.                *)
Requeue(r) ==
  /\ run[r].pc = "requeue"
  /\ LET x == run[r]
         e == Cur(x)
         may == Holds(r) /\ dv[e].state = "SENDING"
         written == [dv EXCEPT ![e].state = "QUEUED", ![e].next = 0, ![e].age = 0]
     IN \/ /\ may
           /\ dv' = written
           /\ Set(r, CASE x.then = "send" -> [x EXCEPT !.pc = "send", !.then = "none"]
                       [] x.then = "rate" -> Quieted(x)
                       [] OTHER -> StopAt(x, x.then))
           /\ UNCHANGED faults
        \/ may /\ Lost(r, Quieted(x), written)
        \/ ~may /\ Set(r, Quieted(x)) /\ UNCHANGED <<dv, faults>>
  /\ UNCHANGED <<conn, series, late, due, slow>>

(* Mutant of NextNumber: the last number given is kept, not the next one.    *)
LastNumber == Len(series)

(* fetchSeriesNext: the number Fortnox would give a voucher made now.       *)
NextNumber == Len(series) + 1

(* The year and the series asked: where it stands is kept for a reconcile.  *)
Send(r) ==
  /\ run[r].pc = "send"
  /\ LET x == run[r] IN
     \/ ~Begins(r, VoucherLeft) /\ Set(r, OutOfTime(x)) /\ UNCHANGED faults
     \/ /\ Begins(r, VoucherLeft) /\ Asks(r)
        /\ Set(r, [x EXCEPT !.pc = "intent", !.at = NextNumber])
        /\ UNCHANGED faults
     \/ Begins(r, VoucherLeft) /\ LineFails(r)
  /\ UNCHANGED <<dv, conn, series, late, due, slow>>

(* QUEUED -> SENDING, committed before Fortnox is asked.                    *)
Intent(r) ==
  /\ run[r].pc = "intent"
  /\ LET x == run[r]
         e == Cur(x)
         may == Holds(r) /\ dv[e].state = "QUEUED"
         written == [dv EXCEPT ![e].state = "SENDING", ![e].next = x.at, ![e].age = 0]
     IN \/ ~Begins(r, VoucherLeft) /\ Set(r, OutOfTime(x)) /\ UNCHANGED <<dv, faults>>
        \/ /\ Begins(r, VoucherLeft) /\ may
           /\ dv' = written
           /\ Set(r, [x EXCEPT !.pc = "ask"]) /\ UNCHANGED faults
        \/ Begins(r, VoucherLeft) /\ may /\ Lost(r, Quieted(x), written)
        \/ Begins(r, VoucherLeft) /\ ~may /\ Set(r, Quieted(x)) /\ UNCHANGED <<dv, faults>>
  /\ UNCHANGED <<conn, series, late, due, slow>>

(* createVoucher leaves for Fortnox - or is not made, the deadline gone.    *)
Ask(r) ==
  /\ run[r].pc = "ask"
  /\ LET x == run[r] IN
     \/ /\ Asks(r)
        /\ late' = [late EXCEPT ![Cur(x)] = Landing]
        /\ Set(r, [x EXCEPT !.pc = "asked"])
     \/ ~Asks(r) /\ Set(r, Quieted(x)) /\ UNCHANGED late
  /\ UNCHANGED <<dv, conn, series, due, faults, slow>>

(* Its answer: the voucher's number; refused for certain; or none.          *)
Answer(r) ==
  /\ run[r].pc = "asked"
  /\ LET x == run[r]
         e == Cur(x)
         n == Made(e, x.at)
     IN \/ /\ n # {}
           /\ Set(r, [x EXCEPT !.pc = "booked", !.at = First(n)])
           /\ UNCHANGED <<late, faults>>
        \/ /\ n = {} /\ late[e] > 0 /\ Fault
           /\ late' = [late EXCEPT ![e] = 0]
           /\ \E k \in {"rate", "stop", "terminal"} : Set(r, [x EXCEPT !.pc = "requeue", !.then = k])
        \/ /\ IF n = {} /\ late[e] = 0 THEN UNCHANGED faults ELSE Unanswered(r)
           /\ Set(r, Quieted(x))
           /\ UNCHANGED late
  /\ UNCHANGED <<dv, conn, series, due, slow>>

(* SENDING -> BOOKED with Fortnox's number, then on to its PDF.             *)
WriteBooked(r) ==
  /\ run[r].pc = "booked"
  /\ LET x == run[r]
         e == Cur(x)
         may == Holds(r) /\ dv[e].state = "SENDING"
         written == [dv EXCEPT ![e].state = "BOOKED", ![e].number = x.at, ![e].next = 0, ![e].age = 0]
     IN \/ /\ may
           /\ dv' = written
           /\ Set(r, [x EXCEPT !.pc = "pdf", !.booked = TRUE, !.at = 0,
                               !.seen[e] = [@ EXCEPT !.state = "BOOKED", !.next = 0, !.age = 0]])
           /\ UNCHANGED faults
        \/ may /\ Lost(r, Quieted(x), written)
        \/ ~may /\ Set(r, Quieted(x)) /\ UNCHANGED <<dv, faults>>
  /\ UNCHANGED <<conn, series, late, due, slow>>

-----------------------------------------------------------------------------
(* A run: the PDFs *)

(* attachOwed: the vouchers booked before, whose PDFs are still owed.       *)
ReadOwed(r) ==
  /\ run[r].pc = "owed"
  /\ Set(r, [run[r] EXCEPT
       !.pc = "next", !.owed = TRUE,
       !.seen = [e \in Entries |-> IF e \in run[r].tried THEN NoDelivery
                                                         ELSE Read(run[r].conn, {"BOOKED"})[e]]])
  /\ UNCHANGED <<dv, conn, series, late, due, faults, slow>>

NextOwed(r) ==
  /\ run[r].pc = "next"
  /\ LET x == run[r] IN
     Set(r, CASE Todo(x) = {} -> [x EXCEPT !.pc = "night"]
              [] Todo(x) # {} /\ Begins(r, PdfLeft) -> [x EXCEPT !.pc = "pdf"]
              [] OTHER -> [x EXCEPT !.pc = "night", !.out = TRUE, !.seen = Nothing])
  /\ UNCHANGED <<dv, conn, series, late, due, faults, slow>>

(* A call for a PDF that does not bring the good answer: the consent gone   *)
(* ends the run, any other failure is this PDF's.                           *)
PdfFails(r) ==
  \/ Asks(r) /\ Fault /\ Set(r, [Ended(run[r]) EXCEPT
       !.stop = IF @.kind = "none" THEN At("terminal", NoEntry) ELSE @])
  \/ Unanswered(r) /\ Set(r, Missing(run[r]))

(* attach: uploaded, or - uploaded before - asked whether it is connected;  *)
(* a PDF not made yet is as one not uploaded.                               *)
AttachPdf(r) ==
  /\ run[r].pc = "pdf"
  /\ LET x == run[r]
         o == x.seen[Cur(x)]
     IN \/ /\ ~Begins(r, PdfLeft)
           /\ Set(r, [PastPdf(x) EXCEPT !.out = TRUE]) /\ UNCHANGED faults
        \/ /\ Begins(r, PdfLeft) /\ Asks(r)
           /\ \E p \in IF o.kept THEN {"connect", "found"} ELSE {"keep"} : Set(r, [x EXCEPT !.pc = p])
           /\ UNCHANGED faults
        \/ Begins(r, PdfLeft) /\ PdfFails(r)
  /\ UNCHANGED <<dv, conn, series, late, due, slow>>

(* writeFiles: the upload's mark, kept before it is connected.              *)
KeepMark(r) ==
  /\ run[r].pc = "keep"
  /\ LET x == run[r]
         e == Cur(x)
         may == Holds(r) /\ dv[e].state = "BOOKED"
         written == [dv EXCEPT ![e].kept = TRUE]
     IN \/ /\ may
           /\ dv' = written
           /\ Set(r, [x EXCEPT !.pc = "connect"]) /\ UNCHANGED faults
        \/ may /\ Lost(r, Cut(x), written)
        \/ ~may /\ Set(r, Cut(x)) /\ UNCHANGED <<dv, faults>>
  /\ UNCHANGED <<conn, series, late, due, slow>>

ConnectFile(r) ==
  /\ run[r].pc = "connect"
  /\ \/ Asks(r) /\ Set(r, [run[r] EXCEPT !.pc = "done"]) /\ UNCHANGED faults
     \/ PdfFails(r)
  /\ UNCHANGED <<dv, conn, series, late, due, slow>>

(* BOOKED -> DONE, its PDF connected - now, or found connected before.      *)
WriteDone(r) ==
  /\ run[r].pc \in {"done", "found"}
  /\ LET x == run[r]
         e == Cur(x)
         may == Holds(r) /\ dv[e].state = "BOOKED"
         written == [dv EXCEPT ![e].state = "DONE", ![e].kept = TRUE, ![e].old = FALSE]
     IN \/ /\ may
           /\ dv' = written
           /\ Set(r, [PastPdf(x) EXCEPT !.attached = @ \/ x.pc = "done"]) /\ UNCHANGED faults
        \/ may /\ Lost(r, Cut(x), written)
        \/ ~may /\ Set(r, Cut(x)) /\ UNCHANGED <<dv, faults>>
  /\ UNCHANGED <<conn, series, late, due, slow>>

-----------------------------------------------------------------------------
(* A run: the night's file and the connection's state *)

(* The files made so far: numbered from 1, and never without an entry.       *)
Files == {dv[e].file : e \in Entries} \ {0}
Unfiled  == {e \in 1 .. due : dv[e].state = "NEW"}

(* makeFile: the next entries of the books, QUEUED for the connection.      *)
Filed(c, S) ==
  [e \in Entries |-> IF e \in S THEN [NoDelivery EXCEPT !.state = "QUEUED", !.conn = c, !.file = Cardinality(Files) + 1]
                                ELSE dv[e]]

Night(r) ==
  /\ run[r].pc = "night"
  /\ LET x == run[r]
         over == ~x.clear \/ x.stop.kind # "none" \/ x.quiet \/ x.out \/ x.night
     IN Set(r, IF over THEN Ended(x)
               ELSE IF Begins(r, FileLeft) THEN [x EXCEPT !.pc = "file"]
               ELSE [Ended(x) EXCEPT !.out = TRUE])
  /\ UNCHANGED <<dv, conn, series, late, due, faults, slow>>

(* Made, none to make, refused with the connection lost, or the lock held.  *)
NightFile(r) ==
  /\ run[r].pc = "file"
  /\ LET x == run[r]
         may == Holds(r) /\ conn[x.conn].stop.kind # "terminal"
     IN \/ /\ Unfiled # {} /\ may
           /\ dv' = Filed(x.conn, Unfiled)
           /\ Set(r, [x EXCEPT !.pc = "line"]) /\ UNCHANGED faults
        \/ /\ Unfiled = {}
           /\ Set(r, [x EXCEPT !.pc = "close"]) /\ UNCHANGED <<dv, faults>>
        \/ /\ Unfiled # {} /\ ~may
           /\ Set(r, Cut(x)) /\ UNCHANGED <<dv, faults>>
        \/ Fault /\ Set(r, Cut(x)) /\ UNCHANGED dv
  /\ UNCHANGED <<conn, series, late, due, slow>>

CloseNight(r) ==
  /\ run[r].pc = "close"
  /\ \/ /\ conn' = IF Live(run[r].conn) THEN [conn EXCEPT ![run[r].conn].night = TRUE] ELSE conn
        /\ Set(r, Ended(run[r])) /\ UNCHANGED faults
     \/ Fault /\ Set(r, Cut(run[r])) /\ UNCHANGED conn
  /\ UNCHANGED <<dv, series, late, due, slow>>

(* Mutant of Restores: nothing owed is no reason to restore.                *)
RestoresBooked(x) ==
  /\ ~x.quiet /\ x.reach /\ x.was = "BROKEN" /\ x.booked
  /\ \A e \in Entries : ~(dv[e].conn = x.conn /\ dv[e].state = "BOOKED" /\ dv[e].old)

(* Whether a run without a reason to stop brings a broken connection back.  *)
Restores(x) ==
  /\ ~x.quiet /\ x.reach /\ x.was = "BROKEN"
  /\ x.booked \/ OwedTo(x.conn) = {}
  /\ \A e \in Entries : ~(dv[e].conn = x.conn /\ dv[e].state = "BOOKED" /\ dv[e].old)

(* settle, before its transaction: what the run says of the connection.     *)
Settle(r) ==
  /\ run[r].pc = "settle"
  /\ LET x == run[r]
         reason == IF x.stop.kind # "none" THEN x.stop ELSE x.overdue
         silent == reason.kind = "none" /\ (x.quiet \/ ~x.reach) /\ ~x.booked /\ ~x.attached
     IN Set(r, CASE silent /\ (x.was = "BROKEN" \/ x.fresh) -> [x EXCEPT !.pc = "release"]
                 [] silent /\ x.was = "ACTIVE" /\ ~x.fresh ->
                      [x EXCEPT !.pc = "state", !.stop = At("stop", NoEntry)]
                 [] OTHER -> [x EXCEPT !.pc = "state", !.stop = reason, !.restore = reason.kind = "none" /\ Restores(x)])
  /\ UNCHANGED <<dv, conn, series, late, due, faults, slow>>

(* Mutant of Settled: a reconnect made meanwhile is not looked for.         *)
SettledOver(x) ==
  LET c == conn[x.conn] IN
  IF c.status = "DISCONNECTED" \/ (c.status = "BROKEN" /\ c.stop.kind = "terminal") THEN c
  ELSE IF x.stop.kind # "none" THEN [c EXCEPT !.status = "BROKEN", !.stop = x.stop]
  ELSE IF x.restore /\ c.status = "BROKEN"
    THEN [c EXCEPT !.status = "ACTIVE", !.stop = NoStop, !.reached = TRUE]
  ELSE [c EXCEPT !.reached = TRUE]

(* settle's transaction: never over a disconnect, a reconnect made          *)
(* meanwhile, or a stop only a person mends.                                *)
Settled(x) ==
  LET c == conn[x.conn] IN
  IF \/ c.status = "DISCONNECTED" \/ c.attempt # x.attempt
     \/ c.status = "BROKEN" /\ c.stop.kind = "terminal"
    THEN c
  ELSE IF x.stop.kind # "none" THEN [c EXCEPT !.status = "BROKEN", !.stop = x.stop]
  ELSE IF x.restore /\ c.status = "BROKEN"
    THEN [c EXCEPT !.status = "ACTIVE", !.stop = NoStop, !.reached = TRUE]
  ELSE [c EXCEPT !.reached = TRUE]

WriteState(r) ==
  /\ run[r].pc = "state"
  /\ \/ conn' = [conn EXCEPT ![run[r].conn] = Settled(run[r])] /\ UNCHANGED faults
     \/ Fault /\ UNCHANGED conn
  /\ Set(r, [run[r] EXCEPT !.pc = "release"])
  /\ UNCHANGED <<dv, series, late, due, slow>>

Release(r) ==
  /\ run[r].pc = "release"
  /\ LET c == run[r].conn IN
     conn' = IF conn[c].holder = r /\ Live(c)
               THEN [conn EXCEPT ![c].lease = 0, ![c].holder = NoRun] ELSE conn
  /\ Set(r, NewRun)
  /\ UNCHANGED <<dv, series, late, due, faults, slow>>

(* A read that fails is nobody's to catch: the run gives its lease back.    *)
Throw(r) ==
  /\ run[r].pc \in {"line", "owed", "pdf", "file", "settle"} /\ Fault
  /\ Set(r, [Ended(run[r]) EXCEPT !.pc = "release"])
  /\ UNCHANGED <<dv, conn, series, late, due, slow>>

(* The function ends at any point; what it asked may still reach Fortnox.   *)
Crash(r) ==
  /\ run[r].pc # "idle" /\ Fault
  /\ Set(r, NewRun)
  /\ UNCHANGED <<dv, conn, series, late, due, slow>>

-----------------------------------------------------------------------------
(* People *)

(* completeFortnoxConnect: a first connection, a new one after a disconnect *)
(* - or the broken one to the same company back.                            *)
Connect(c) ==
  /\ conn[c].status = "NONE"
  /\ \A b \in Conns : b < c => conn[b].status = "DISCONNECTED"
  /\ conn' = [conn EXCEPT ![c].status = "ACTIVE", ![c].attempt = 1]
  /\ UNCHANGED <<dv, run, series, late, due, faults, slow>>

Reconnect(c) ==
  /\ conn[c].status = "BROKEN" /\ conn[c].attempt < MaxAttempts
  /\ conn' = [conn EXCEPT ![c].status = "ACTIVE", ![c].stop = NoStop, ![c].attempt = @ + 1,
                          ![c].night = TRUE, ![c].reached = TRUE]
  /\ UNCHANGED <<dv, run, series, late, due, faults, slow>>

(* The kill switch: never refused, whatever run is under way.               *)
Disconnect(c) ==
  /\ Live(c)
  /\ conn' = [conn EXCEPT ![c].status = "DISCONNECTED", ![c].cut = Cardinality(Vouchers(c))]
  /\ UNCHANGED <<dv, run, series, late, due, faults, slow>>

(* A year end is booked by a person, to the live connection.                *)
BookYearEnd(c) ==
  /\ Live(c) /\ Unfiled # {}
  /\ dv' = Filed(c, Unfiled)
  /\ UNCHANGED <<conn, run, series, late, due, faults, slow>>

(* What a person may decide, actsFor and the guard: of a live connection    *)
(* without a run only the entry the line stopped at, or a PDF overdue.      *)
Decidable(e) ==
  LET c == conn[dv[e].conn] IN
  \/ c.status = "DISCONNECTED" /\ dv[e].state \in {"QUEUED", "SENDING", "BOOKED"}
  \/ /\ c.lease = 0
     /\ \/ dv[e].state = "QUEUED" /\ c.status = "BROKEN" /\ c.stop.entry = e
        \/ dv[e].state = "BOOKED" /\ dv[e].old

BookByHand(e) ==
  /\ dv[e].state # "NEW" /\ Decidable(e)
  /\ dv' = [dv EXCEPT ![e].state = "BY_HAND", ![e].next = 0, ![e].age = 0, ![e].old = FALSE]
  /\ UNCHANGED <<conn, run, series, late, due, faults, slow>>

(* Mutant of NotInFortnox: the act's name is written as the state.          *)
NotInFortnoxNamed(e) ==
  /\ dv[e].state = "SENDING" /\ conn[dv[e].conn].status = "DISCONNECTED"
  /\ Made(e, 1) = {}
  /\ dv' = [dv EXCEPT ![e].state = "NOT_IN_FORTNOX", ![e].next = 0, ![e].age = 0, ![e].denied = TRUE]
  /\ UNCHANGED <<conn, run, series, late, due, faults, slow>>

(* "Not in Fortnox": the person has looked, and it is not there.            *)
NotInFortnox(e) ==
  /\ dv[e].state = "SENDING" /\ conn[dv[e].conn].status = "DISCONNECTED"
  /\ Made(e, 1) = {}
  /\ dv' = [dv EXCEPT ![e].state = "QUEUED", ![e].next = 0, ![e].age = 0, ![e].denied = TRUE]
  /\ UNCHANGED <<conn, run, series, late, due, faults, slow>>

(* handOverUnsent: the file's entries never sent, downloaded by a person;    *)
(* each delivery's own guard looks at its connection once more.             *)
HandOver(n) ==
  LET file == {e \in Entries : dv[e].file = n /\ dv[e].state = "QUEUED"}
      c    == dv[First(file)].conn
  IN /\ file # {} /\ \A e \in file : conn[dv[e].conn].status = "DISCONNECTED"
     /\ \A e \in Entries : dv[e].file = n => dv[e].state # "SENDING"
     /\ \A e \in OwedTo(c) : dv[e].file >= n
     /\ dv' = [e \in Entries |-> IF e \in file THEN [dv[e] EXCEPT !.state = "DOWNLOADED"] ELSE dv[e]]
     /\ UNCHANGED <<conn, run, series, late, due, faults, slow>>

-----------------------------------------------------------------------------
(* Fortnox, the books and time *)

(* Fortnox acts on a request under way, whoever still waits for it.         *)
Land(e) ==
  /\ late[e] > 0
  /\ series' = Append(series, e)
  /\ late' = [late EXCEPT ![e] = 0]
  /\ UNCHANGED <<dv, conn, run, due, faults, slow>>

OtherVoucher ==
  /\ Cardinality(Made(Other, 1)) < MaxOthers
  /\ series' = Append(series, Other)
  /\ UNCHANGED <<dv, conn, run, late, due, faults, slow>>

NewEntry ==
  /\ due < LastEntry
  /\ due' = due + 1
  /\ UNCHANGED <<dv, conn, run, series, late, faults, slow>>

Under == {r \in Runs : run[r].pc # "idle"}
Less(n) == IF n = 0 THEN 0 ELSE n - 1

(* Time passes: freely between runs, and MaxSlow times during them.         *)
Tick ==
  /\ \/ \E e \in Entries : late[e] > 0 \/ (dv[e].state = "SENDING" /\ dv[e].age < Unsure)
     \/ \E c \in Conns : conn[c].lease > 0
     \/ \E r \in Under : run[r].left > 0
  /\ IF Under = {} THEN UNCHANGED slow ELSE slow < MaxSlow /\ slow' = slow + 1
  /\ late' = [e \in Entries |-> Less(late[e])]
  /\ dv' = [e \in Entries |->
       IF dv[e].state = "SENDING" /\ dv[e].age < Unsure THEN [dv[e] EXCEPT !.age = @ + 1] ELSE dv[e]]
  /\ conn' = [c \in Conns |-> [conn[c] EXCEPT !.lease = Less(@)]]
  /\ run' = [r \in Runs |-> [run[r] EXCEPT !.left = Less(@)]]
  /\ UNCHANGED <<series, due, faults>>

(* A day passes without a run: every lease and request is over, the night   *)
(* is open, and neither an answer nor a booking is younger than a day.      *)
DayPasses ==
  /\ Under = {} /\ \A e \in Entries : late[e] = 0
  /\ dv' = [e \in Entries |->
       CASE dv[e].state = "SENDING" -> [dv[e] EXCEPT !.age = Unsure]
         [] dv[e].state = "BOOKED"  -> [dv[e] EXCEPT !.old = TRUE]
         [] OTHER -> dv[e]]
  /\ conn' = [c \in Conns |->
       IF Live(c) THEN [conn[c] EXCEPT !.lease = 0, !.night = FALSE, !.reached = FALSE] ELSE conn[c]]
  /\ UNCHANGED <<run, series, late, due, faults, slow>>

-----------------------------------------------------------------------------
Advance(r) ==
  \/ Claim(r) \/ Hello(r) \/ ReadLine(r) \/ Book(r) \/ Reconcile(r) \/ Requeue(r)
  \/ Send(r) \/ Intent(r) \/ Ask(r) \/ Answer(r) \/ WriteBooked(r)
  \/ ReadOwed(r) \/ NextOwed(r) \/ AttachPdf(r) \/ KeepMark(r) \/ ConnectFile(r) \/ WriteDone(r)
  \/ Night(r) \/ NightFile(r) \/ CloseNight(r) \/ Settle(r) \/ WriteState(r) \/ Release(r)

Person(c) == Connect(c) \/ Reconnect(c) \/ Disconnect(c) \/ BookYearEnd(c)

Next ==
  \/ \E r \in Runs : Start(r) \/ Advance(r) \/ Throw(r) \/ Crash(r)
  \/ \E c \in Conns : Person(c)
  \/ \E e \in Entries : BookByHand(e) \/ NotInFortnox(e) \/ HandOver(dv[e].file) \/ Land(e)
  \/ OtherVoucher \/ NewEntry \/ Tick \/ DayPasses

Spec == Init /\ [][Next]_vars

(* Cron calls the sender, a run goes on, Fortnox acts on what it was asked, *)
(* and time passes; nothing is asked of a person.                           *)
Fairness ==
  /\ \A r \in Runs : WF_vars(Advance(r))
  /\ WF_vars(\E r \in Runs : Start(r))
  /\ \A e \in Entries : WF_vars(Land(e))
  /\ SF_vars(Tick) /\ SF_vars(DayPasses)

FairSpec == Spec /\ Fairness

-----------------------------------------------------------------------------
(* Properties *)

TypeOK ==
  /\ dv \in [Entries -> Delivery]
  /\ conn \in [Conns -> Connection]
  /\ run \in [Runs -> Run]
  /\ series \in Seq(Entries \cup {Other})
  /\ late \in [Entries -> 0 .. Landing]
  /\ due \in 0 .. LastEntry
  /\ faults \in 0 .. MaxFaults /\ slow \in 0 .. MaxSlow

(* A voucher is made once, never twice, whatever answers were lost, runs    *)
(* killed, leases lapsed or decisions made by people.                       *)
OneVoucher == \A i, j \in DOMAIN series : series[i] = series[j] /\ series[i] # Other => i = j

(* The numbers a reconcile looks at: a voucher of an entry being sent       *)
(* stands among the Scan numbers from the one kept before it was asked for. *)
WithinScan ==
  \A e \in Entries : dv[e].state = "SENDING" /\ conn[dv[e].conn].status # "DISCONNECTED" =>
    \A i \in Made(e, 1) : dv[e].next <= i /\ i < dv[e].next + Scan

(* The books of the sender: a delivery booked or done names its own         *)
(* voucher, and a voucher in Fortnox is one the sender knows of or will     *)
(* look for - unless a person said it is not there, and it came later.      *)
VouchersAccounted ==
  /\ \A e \in Entries : dv[e].state \in {"BOOKED", "DONE"} =>
       dv[e].number \in DOMAIN series /\ series[dv[e].number] = e
  /\ \A i \in DOMAIN series : series[i] # Other =>
       \/ dv[series[i]].state \in {"SENDING", "BOOKED", "DONE", "BY_HAND"}
       \/ dv[series[i]].denied

(* What the nightly send promises, see VoucherBook: vouchers reach Fortnox  *)
(* in the line's order, a reversal never before what it reverses.           *)
Promise == INSTANCE VoucherBook WITH
  Owners  <- Conns,
  NoOwner <- NoConn,
  owner   <- [e \in Entries |-> dv[e].conn],
  word    <- [e \in Entries |-> dv[e].denied \/ dv[e].state \in {"BY_HAND", "DOWNLOADED"}]

ImplementsVoucherBook == Promise!Spec

(* The kill switch: whatever run is under way, of a disconnected            *)
(* connection at most the one voucher already asked for still comes.        *)
CutOff ==
  \A c \in Conns : conn[c].status = "DISCONNECTED" => Cardinality(Vouchers(c)) <= conn[c].cut + 1

(* What is handed over in a file is not in Fortnox.                         *)
HandedOverIsNotInFortnox == \A e \in Entries : dv[e].state = "DOWNLOADED" => Made(e, 1) = {}

(* A stop only a person mends is lifted by a reconnect or a disconnect, and *)
(* no run of before a reconnect stops or restores the connection after it.  *)
PersonsStopStands ==
  [][\A c \in Conns :
       conn'[c].status # conn[c].status \/ conn'[c].stop # conn[c].stop =>
         \/ conn'[c].status = "DISCONNECTED"
         \/ conn'[c].attempt # conn[c].attempt
         \/ /\ conn[c].stop.kind # "terminal"
            /\ \E r \in Runs : /\ run[r].conn = c /\ run'[r] # run[r]
                               /\ run[r].attempt = conn[c].attempt]_vars

Healthy(c) == Live(c) /\ conn[c].stop.kind # "terminal"

(* Every entry of the books gets its voucher and its PDF, or a person's     *)
(* word, as long as a connection lives that needs no person.                *)
EveryEntryIsBooked ==
  \A e \in Entries : (e <= due) ~>
    (dv[e].state \in History \/ \A c \in Conns : ~Healthy(c) \/ (dv[e].conn \notin {NoConn, c}))

(* A stop that passes is lifted once everything has gone through.           *)
EveryStopIsLifted ==
  \A c \in Conns : conn[c].status = "BROKEN" ~> (conn[c].status # "BROKEN" \/ conn[c].stop.kind = "terminal")
=============================================================================
