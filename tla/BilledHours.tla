----------------------------- MODULE BilledHours -----------------------------
(***************************************************************************)
(* Tracked hours on invoices (src/src/modules/invoicing/hours.ts,          *)
(* hours-record.ts and their callers in drafts.ts, issue.ts and credit.ts; *)
(* splitEntry and deleteEntry of src/src/modules/time/entries.ts; the      *)
(* guards of the migration 20261010180000_hours_onto_invoices).            *)
(*                                                                         *)
(* Two things tell what was billed.  The mark of an hour is the line it is *)
(* on now; the record of a line is what it billed, a snapshot of the hour  *)
(* when it was put there.  A request is one transaction: it locks the      *)
(* invoice, then the hours one by one in the order of their ids, and under *)
(* these locks it looks again, writes and commits.  What it writes is      *)
(* locked by it, so the last look, the writes and the commit are one step. *)
(* Hours are of one member and one client.  An hour is a set of units of   *)
(* time, so that the two halves of a split can be told apart; SENT and     *)
(* PAID invoices are ISSUED.                                               *)
(***************************************************************************)
EXTENDS Integers, FiniteSets, Functions

CONSTANTS
  Units,     \* units of tracked time
  LastHour,  \* bound: ids of time_entry, in the order they are locked
  FirstUnits,\* the hours tracked before anything is billed
  Lines,     \* bound: lines of invoices
  Invoices,  \* bound: invoices
  Requests,  \* requests that may overlap
  MaxAside,  \* bound: hours off the list at a time
  MaxGone,   \* bound: hours deleted
  NoLine,
  Off,       \* "Billed elsewhere" or "Won't invoice"
  NoInvoice

Hours == 1 .. LastHour

ASSUME BilledAssumption ==
  /\ {LastHour, MaxAside, MaxGone} \subseteq Nat
  /\ FirstUnits \in [Hours -> SUBSET Units]
  /\ \A g, h \in Hours : g # h => FirstUnits[g] \cap FirstUnits[h] = {}
  /\ {NoLine, Off} \cap Lines = {} /\ NoLine # Off
  /\ {NoLine, Off, NoInvoice} \cap Invoices = {}

VARIABLES
  units,     \* the time of an hour; {} before it is written
  mark,      \* time_entry.invoice_line_id, billed_externally_at, written_off_at
  gone,      \* time_entry.deleted_at
  on,        \* the invoice of a line
  rec,       \* invoice_line_time_entry: what a line billed of an hour
  status,    \* of an invoice
  partly,    \* an issued invoice has an issued credit note, short of it all
  returned,  \* history: time of a live invoice returned by hand
  req        \* the transactions under way

hours == <<units, mark, gone>>
vars  == <<units, mark, gone, on, rec, status, partly, returned, req>>

Idle == [pc |-> "idle", op |-> "list", inv |-> NoInvoice, seen |-> NoLine, lines |-> {}, todo |-> {}, held |-> {}]

(* "list" bills or sets aside hours of the ready list; "credit" issues a     *)
(* credit note: of a part, of what is left, or in full with a copy.          *)
Ops == {"list", "add", "clear", "return", "split", "remove", "discard", "credit"}

TypeOK ==
  /\ units \in [Hours -> SUBSET Units]
  /\ \A g, h \in Hours : g # h => units[g] \cap units[h] = {}
  /\ mark \in [Hours -> Lines \cup {NoLine, Off}]
  /\ gone \in [Hours -> BOOLEAN]
  /\ on \in [Lines -> Invoices \cup {NoInvoice}]
  /\ rec \in [Lines -> [Hours -> SUBSET Units]]
  /\ status \in [Invoices -> {"none", "DRAFT", "ISSUED", "CREDITED"}]
  /\ partly \in [Invoices -> BOOLEAN]
  /\ returned \in [Invoices -> SUBSET Units]
  /\ req \in [Requests -> [pc : {"idle", "invoice", "hours"}, op : Ops, inv : Invoices \cup {NoInvoice},
                           seen : Lines \cup {NoLine, Off}, lines : SUBSET Lines, todo : SUBSET Hours, held : SUBSET Hours]]
  /\ \A r, q \in Requests : r # q => req[r].held \cap req[q].held = {}

NothingBilled == [h \in Hours |-> {}]

Init ==
  /\ units = FirstUnits
  /\ mark = [h \in Hours |-> NoLine]
  /\ gone = [h \in Hours |-> FALSE]
  /\ on = [l \in Lines |-> NoInvoice]
  /\ rec = [l \in Lines |-> NothingBilled]
  /\ status = [i \in Invoices |-> "none"]
  /\ partly = [i \in Invoices |-> FALSE]
  /\ returned = [i \in Invoices |-> {}]
  /\ req = [r \in Requests |-> Idle]

-----------------------------------------------------------------------------
Unwritten  == {l \in Lines : on[l] = NoInvoice}
LinesOf(i) == {l \in Lines : on[l] = i}
MarkedOn(ls)  == {h \in Hours : mark[h] \in ls}
InvoiceOf(m)  == IF m \in Lines THEN on[m] ELSE NoInvoice
StillReady(h) == units[h] # {} /\ ~gone[h] /\ mark[h] = NoLine
UnderWay   == {r \in Requests : req[r].pc # "idle"}
Splitting  == \E r \in UnderWay : req[r].op = "split"

(* The invoices locked FOR UPDATE, and FOR SHARE by the one split under way.*)
Holds(r, i)       == req[r].pc = "hours" /\ req[r].inv = i
InvoiceFree(r, i) == \A q \in Requests \ {r} : ~Holds(q, i)

(* Mutant of HourFree: the hours are read without FOR UPDATE.               *)
HourFreeUnlocked(r, h) == TRUE
HourFree(r, h) == \A q \in Requests \ {r} : h \notin req[q].held

(* FOR UPDATE ... ORDER BY id: the next hour to lock.                       *)
(* Mutant of NextHours: in whatever order the rows come.                    *)
NextHoursAny(r) == req[r].todo
NextHours(r) == {h \in req[r].todo : \A g \in req[r].todo : h <= g}

-----------------------------------------------------------------------------
(* A request begins by locking its invoice, if it has one; until then it    *)
(* holds nothing and has read nothing it relies on.  The hours to lock are  *)
(* those a person chose from a list, or those on the line or the invoice.   *)
Starts(r, op, i, ls, hs) ==
  /\ req[r].pc = "idle"
  /\ i # NoInvoice => InvoiceFree(r, i)
  /\ req' = [req EXCEPT ![r] = [Idle EXCEPT !.pc = "hours", !.op = op, !.inv = i, !.lines = ls, !.todo = hs]]
  /\ UNCHANGED <<hours, on, rec, status, partly, returned>>

Some(S) == (SUBSET S) \ {{}}

(* openDraft: INVOICE_NOT_DRAFT otherwise.                                  *)
OpenDraft(i) == status[i] = "DRAFT"

Ask(r) ==
  \/ \E hs \in Some({h \in Hours : StillReady(h)}) :
       \/ Starts(r, "list", NoInvoice, {}, hs)
       \/ \E i \in Invoices : OpenDraft(i) /\ Starts(r, "add", i, {}, hs)
  \/ \E hs \in Some(MarkedOn({Off})) : Starts(r, "clear", NoInvoice, {}, hs)

AskOfDraft(r) ==
  \E i \in Invoices :
    /\ OpenDraft(i)
    /\ \/ \E l \in LinesOf(i) : Starts(r, "remove", i, {l}, MarkedOn({l}))
       \/ Starts(r, "discard", i, LinesOf(i), MarkedOn(LinesOf(i)))

(* returnHours is for an invoice with an issued credit note.                *)
AskOfIssued(r) ==
  \E i \in Invoices :
    /\ status[i] = "ISSUED"
    /\ \/ Starts(r, "credit", i, LinesOf(i), MarkedOn(LinesOf(i)))
       \/ partly[i] /\ \E hs \in Some(MarkedOn(LinesOf(i))) : Starts(r, "return", i, {}, hs)

(* splitEntry: the member's lock, the mark as it is then, and the invoice.  *)
AskToSplit(r) ==
  /\ req[r].pc = "idle" /\ ~Splitting
  /\ \E h \in Hours :
       /\ units[h] # {} /\ ~gone[h]
       /\ req' = [req EXCEPT ![r] = [Idle EXCEPT !.pc = "invoice", !.op = "split", !.inv = InvoiceOf(mark[h]),
                                                 !.seen = mark[h], !.todo = {h}]]
  /\ UNCHANGED <<hours, on, rec, status, partly, returned>>

HoldInvoice(r) ==
  /\ req[r].pc = "invoice"
  /\ InvoiceFree(r, req[r].inv) \/ req[r].inv = NoInvoice
  /\ req' = [req EXCEPT ![r].pc = "hours"]
  /\ UNCHANGED <<hours, on, rec, status, partly, returned>>

LockHour(r) ==
  /\ req[r].pc = "hours"
  /\ \E h \in NextHours(r) :
       /\ HourFree(r, h)
       /\ req' = [req EXCEPT ![r].todo = @ \ {h}, ![r].held = @ \cup {h}]
  /\ UNCHANGED <<hours, on, rec, status, partly, returned>>

(* The transaction ends, and its locks with it.                             *)
End(r) == req' = [req EXCEPT ![r] = Idle]

Ready(r, op) == req[r].pc = "hours" /\ req[r].op = op /\ req[r].todo = {}

(* Refused, a lock waited for too long, a failure: nothing is written.      *)
GiveUp(r) ==
  /\ req[r].pc # "idle"
  /\ End(r)
  /\ UNCHANGED <<hours, on, rec, status, partly, returned>>

-----------------------------------------------------------------------------
(* The ready list's rule, re-read under the locks (HOURS_CHANGED).          *)
(* Mutant of LookAgain: the list as the page showed it.                     *)
LookAgainNot(r) == req[r].held # {}
LookAgain(r) == \A h \in req[r].held : StillReady(h)

(* putHoursOnDraft: the hours by lines (whatever the grouping), less those  *)
(* whose line would bill nothing; each with its record and its mark.        *)
PutOn(r, i) ==
  LET hs == req[r].held IN
    /\ LookAgain(r)
    /\ \E put \in Some(hs) : \E g \in [put -> Unwritten] :
         /\ on' = [l \in Lines |-> IF l \in Range(g) THEN i ELSE on[l]]
         /\ rec' = [l \in Lines |-> [h \in Hours |-> IF h \in put /\ g[h] = l THEN units[h] ELSE rec[l][h]]]
         /\ mark' = [h \in Hours |-> IF h \in put THEN g[h] ELSE mark[h]]
    /\ UNCHANGED <<units, gone, partly, returned>>

CreateInvoiceFromHours(r) ==
  /\ Ready(r, "list")
  /\ \E i \in Invoices : /\ status[i] = "none"
                         /\ status' = [status EXCEPT ![i] = "DRAFT"]
                         /\ PutOn(r, i)
  /\ End(r)

AddHoursToDraft(r) ==
  /\ Ready(r, "add")
  /\ PutOn(r, req[r].inv)
  /\ UNCHANGED status
  /\ End(r)

(* Hours leave their lines.                                                 *)
Freed(hs) == mark' = [h \in Hours |-> IF h \in hs THEN NoLine ELSE mark[h]]
Dropped(ls) ==
  /\ on' = [l \in Lines |-> IF l \in ls THEN NoInvoice ELSE on[l]]
  /\ rec' = [l \in Lines |-> IF l \in ls THEN NothingBilled ELSE rec[l]]

(* releaseDraftHours, then the line; its record goes with it.               *)
RemoveLine(r) ==
  /\ Ready(r, "remove")
  /\ Freed(req[r].held)
  /\ Dropped(req[r].lines)
  /\ End(r)
  /\ UNCHANGED <<units, gone, status, partly, returned>>

DeleteDraft(r) ==
  /\ Ready(r, "discard")
  /\ Freed(req[r].held)
  /\ Dropped(req[r].lines)
  /\ status' = [status EXCEPT ![req[r].inv] = "none"]
  /\ End(r)
  /\ UNCHANGED <<units, gone, partly, returned>>

(* Every hour the invoice's record names is marked on that very line, or    *)
(* the invoice is not issued (INVOICE_HOURS_MISMATCH).                      *)
Matches(i) == \A l \in LinesOf(i), h \in Hours : rec[l][h] # {} => mark[h] = l

(* One lock, one step.                                                      *)
IssueInvoice ==
  /\ \E i \in Invoices :
       /\ OpenDraft(i)
       /\ \A r \in Requests : ~Holds(r, i)
       /\ Matches(i)
       /\ status' = [status EXCEPT ![i] = "ISSUED"]
  /\ UNCHANGED <<hours, on, rec, partly, returned, req>>

(* A credit note of a part: the hours stay where they are.                  *)
CreditPart(r) ==
  /\ Ready(r, "credit")
  /\ partly' = [partly EXCEPT ![req[r].inv] = TRUE]
  /\ End(r)
  /\ UNCHANGED <<hours, on, rec, status, returned>>

(* freeInvoiceHours: by the marks as they are.                              *)
(* Mutant of FreedByCredit: by the record, which no second half has.        *)
FreedByRecord(i) == {h \in Hours : \E l \in LinesOf(i) : mark[h] = l /\ rec[l][h] # {}}
FreedByCredit(i) == MarkedOn(LinesOf(i))

(* A credit note that leaves nothing: its invoice is CREDITED, its hours    *)
(* are free; its record stands.                                             *)
CreditWhole(r) ==
  LET i == req[r].inv IN
    /\ Ready(r, "credit")
    /\ status' = [status EXCEPT ![i] = "CREDITED"]
    /\ Freed(FreedByCredit(i))
    /\ partly' = [partly EXCEPT ![i] = FALSE]
    /\ returned' = [returned EXCEPT ![i] = {}]
    /\ End(r)
    /\ UNCHANGED <<units, gone, on, rec>>

(* creditInFull with a corrected copy, refused once a part was credited     *)
(* (INVOICE_PARTLY_CREDITED); moveHoursToCopy: every marked hour moves to   *)
(* the copy's line in the same place, its record with it.                   *)
Copyable(i) == ~partly[i]

CreditAndCopy(r) ==
  LET i == req[r].inv IN
    /\ Ready(r, "credit")
    /\ Copyable(i)
    /\ \E j \in Invoices : \E to \in Injection(LinesOf(i), Unwritten) :
         LET From(l) == CHOOSE k \in LinesOf(i) : to[k] = l IN
         /\ status[j] = "none"
         /\ status' = [status EXCEPT ![i] = "CREDITED", ![j] = "DRAFT"]
         /\ on' = [l \in Lines |-> IF l \in Range(to) THEN j ELSE on[l]]
         /\ rec' = [l \in Lines |-> IF l \in Range(to)
                      THEN [h \in Hours |-> IF mark[h] = From(l) THEN rec[From(l)][h] ELSE {}]
                      ELSE rec[l]]
         /\ mark' = [h \in Hours |-> IF mark[h] \in LinesOf(i) THEN to[mark[h]] ELSE mark[h]]
    /\ End(r)
    /\ UNCHANGED <<units, gone, partly, returned>>

(* After a part credit a person says which hours it covered.                *)
ReturnHours(r) ==
  LET i == req[r].inv IN
    /\ Ready(r, "return")
    /\ req[r].held \subseteq MarkedOn(LinesOf(i))
    /\ Freed(req[r].held)
    /\ returned' = [returned EXCEPT ![i] = @ \cup UNION {units[h] : h \in req[r].held}]
    /\ End(r)
    /\ UNCHANGED <<units, gone, on, rec, status, partly>>

MarkHours(r) ==
  /\ Ready(r, "list")
  /\ Cardinality(MarkedOn({Off}) \cup req[r].held) <= MaxAside
  /\ LookAgain(r)
  /\ mark' = [h \in Hours |-> IF h \in req[r].held THEN Off ELSE mark[h]]
  /\ End(r)
  /\ UNCHANGED <<units, gone, on, rec, status, partly, returned>>

ClearHourMarks(r) ==
  /\ Ready(r, "clear")
  /\ \A h \in req[r].held : mark[h] = Off
  /\ Freed(req[r].held)
  /\ End(r)
  /\ UNCHANGED <<units, gone, on, rec, status, partly, returned>>

-----------------------------------------------------------------------------
(* Under the locks the hour is read again: the mark that was seen, and not  *)
(* of a draft (ENTRY_INVOICED) nor of an invoice credited meanwhile.        *)
Unchanged(r, h)  == ~gone[h] /\ mark[h] = req[r].seen
Splittable(h) == mark[h] \in Lines => status[on[mark[h]]] = "ISSUED"

(* The second half carries the mark of the first, and no record.            *)
(* Mutant of SecondMark: a new hour like any other.                         *)
SecondUnmarked(r, h) == NoLine
SecondMark(r, h) == mark[h]

SplitEntry(r) ==
  /\ Ready(r, "split")
  /\ \E h \in req[r].held, second \in Hours :
       /\ Unchanged(r, h)
       /\ Splittable(h)
       /\ units[second] = {}
       /\ \E part \in Some(units[h]) :
            /\ part # units[h]
            /\ units' = [units EXCEPT ![h] = @ \ part, ![second] = part]
       /\ mark' = [mark EXCEPT ![second] = SecondMark(r, h)]
  /\ End(r)
  /\ UNCHANGED <<gone, on, rec, status, partly, returned>>

(* deleteEntry: billed hours are not locked, and their mark stays.          *)
DeleteEntry ==
  /\ ~Splitting
  /\ Cardinality({h \in Hours : gone[h]}) < MaxGone
  /\ \E h \in Hours :
       /\ units[h] # {} /\ ~gone[h]
       /\ \A r \in Requests : h \notin req[r].held
       /\ gone' = [gone EXCEPT ![h] = TRUE]
  /\ UNCHANGED <<units, mark, on, rec, status, partly, returned, req>>

-----------------------------------------------------------------------------
Next ==
  \/ \E r \in Requests :
       \/ Ask(r) \/ AskOfDraft(r) \/ AskOfIssued(r) \/ AskToSplit(r)
       \/ HoldInvoice(r) \/ LockHour(r) \/ GiveUp(r)
       \/ CreateInvoiceFromHours(r) \/ AddHoursToDraft(r) \/ RemoveLine(r) \/ DeleteDraft(r)
       \/ CreditPart(r) \/ CreditWhole(r) \/ CreditAndCopy(r)
       \/ ReturnHours(r) \/ MarkHours(r) \/ ClearHourMarks(r) \/ SplitEntry(r)
  \/ IssueInvoice \/ DeleteEntry

Spec == Init /\ [][Next]_vars

-----------------------------------------------------------------------------
Live(i)   == status[i] \in {"DRAFT", "ISSUED"}
(* What an invoice bills: its record, less what was returned by hand.       *)
Billed(i) == (UNION {rec[l][h] : l \in LinesOf(i), h \in Hours}) \ returned[i]

(* The two accounts of what was billed agree, whatever was split, credited, *)
(* copied, returned or deleted meanwhile: the time of the hours marked on a *)
(* live invoice is what its lines recorded (hours-record.ts:19-25).  So no  *)
(* time is billed on two invoices, billed time is on no list of hours to    *)
(* bill, and none of an invoice's time is lost.  No hour stays on an        *)
(* invoice credited in full, the second half of a split included.           *)
HoursAccounted ==
  /\ \A i \in Invoices : Live(i) => Billed(i) = UNION {units[h] : h \in MarkedOn(LinesOf(i))}
  /\ \A h \in Hours : mark[h] \in Lines => on[mark[h]] # NoInvoice /\ Live(on[mark[h]])

(* The refusal INVOICE_HOURS_MISMATCH is a last resort that no issue meets: *)
(* the hours a draft's lines record are on these lines.                     *)
IssueNeverMismatched == \A i \in Invoices : status[i] = "DRAFT" => Matches(i)

(* The invoice first, then the hours by id (the migration's lock order):    *)
(* the requests under way never wait on each other in a circle, so one of   *)
(* them can always go on.                                                   *)
CanGoOn(r) ==
  \/ req[r].pc = "invoice" /\ (InvoiceFree(r, req[r].inv) \/ req[r].inv = NoInvoice)
  \/ req[r].pc = "hours" /\ (req[r].todo # {} => \E h \in NextHours(r) : HourFree(r, h))
NoDeadlock == UnderWay # {} => \E r \in UnderWay : CanGoOn(r)

-----------------------------------------------------------------------------
(* Where an hour is, and with it each unit of its time.                     *)
Where(h) == IF mark[h] \in Lines THEN on[mark[h]] ELSE mark[h]
Place(u) == IF \E h \in Hours : u \in units[h] THEN Where(CHOOSE h \in Hours : u \in units[h]) ELSE NoLine
Book(i)  == IF status[i] = "ISSUED" /\ partly[i] THEN "PARTLY" ELSE status[i]

places == [u \in Units |-> Place(u)]
books  == [i \in Invoices |-> Book(i)]

HB == INSTANCE HourBook WITH Free <- NoLine, place <- places, book <- books

(* The marks implement the book of hours: each step moves time as the book  *)
(* allows, so an issued invoice keeps its time until a credit covers it,    *)
(* and time joins a draft from the free list only (hours.ts, C75 and C80).  *)
ImplementsHourBook == HB!Spec
=============================================================================
