-------------------------- MODULE BilledHoursProofs --------------------------
(***************************************************************************)
(* Proofs about BilledHours, for any hours, units, lines, invoices and     *)
(* requests: what was recorded on an invoice and what is marked on it stay *)
(* the same time, whatever is put, split, returned, credited or copied.    *)
(***************************************************************************)
EXTENDS BilledHours, TLAPS, WellFoundedInduction

(* The requests that rely on the invoice they hold.                         *)
OnDraft   == {"add", "remove", "discard"}
OnIssued  == {"credit", "return"}
Leaving   == {"remove", "discard"}

(* What a request may rely on from its invoice's lock to its end.           *)
Relies(r) ==
  LET q == req[r] IN
  /\ q.pc = "invoice" => q.op = "split"
  /\ q.pc = "hours" /\ q.op \in OnDraft => q.inv \in Invoices /\ status[q.inv] = "DRAFT"
  /\ q.pc = "hours" /\ q.op \in OnIssued => q.inv \in Invoices /\ status[q.inv] = "ISSUED"
  /\ q.pc = "hours" /\ q.op = "return" => partly[q.inv]
  /\ q.pc = "hours" /\ q.op \in Leaving =>
       /\ \A l \in q.lines : l \in Lines /\ on[l] = q.inv
       /\ \A h \in Hours : h \in q.todo \cup q.held <=> mark[h] \in q.lines
  /\ q.pc = "hours" /\ q.op = "discard" => \A l \in Lines : on[l] = q.inv => l \in q.lines

(* No two requests hold one invoice.                                        *)
Alone ==
  \A r, q \in Requests :
    r # q /\ req[r].pc = "hours" /\ req[r].inv \in Invoices /\ req[q].pc = "hours" => req[q].inv # req[r].inv

Covers(l, u)  == \E h \in Hours : u \in rec[l][h]
Carried(l, u) == \E h \in Hours : mark[h] = l /\ u \in units[h]

(* The two accounts of one line: on a live invoice the time it recorded,    *)
(* less what was returned, is the time of the hours marked on it; until a   *)
(* part is credited, each hour recorded is marked on the line.              *)
LineOK(l) ==
  /\ on[l] = NoInvoice => \A h \in Hours : rec[l][h] = {} /\ mark[h] # l
  /\ on[l] # NoInvoice => status[on[l]] # "none"
  /\ on[l] # NoInvoice /\ status[on[l]] = "CREDITED" => \A h \in Hours : mark[h] # l
  /\ on[l] # NoInvoice /\ status[on[l]] # "CREDITED" /\ ~partly[on[l]] =>
       \A h \in Hours : rec[l][h] # {} => mark[h] = l
  /\ on[l] # NoInvoice /\ status[on[l]] # "CREDITED" =>
       \A u \in Units : Covers(l, u) /\ u \notin returned[on[l]] <=> Carried(l, u)
  /\ \A h \in Hours : rec[l][h] # {} \/ mark[h] = l => units[h] # {}

(* Time is returned only from issued invoices a part of which is credited.  *)
NotReturned ==
  \A i \in Invoices : (status[i] # "ISSUED" => ~partly[i]) /\ (~partly[i] => returned[i] = {})

IInv ==
  /\ TypeOK
  /\ \A r \in Requests : Relies(r)
  /\ Alone
  /\ \A l \in Lines : LineOK(l)
  /\ NotReturned

-----------------------------------------------------------------------------
(* What a step must leave alone for the requests that hold an invoice.      *)
Untouched(i) ==
  /\ status'[i] = status[i] /\ partly'[i] = partly[i]
  /\ \A l \in Lines : on'[l] = i <=> on[l] = i
  /\ status[i] = "DRAFT" => \A l \in Lines : on[l] = i => \A h \in Hours : mark'[h] = l <=> mark[h] = l

(* A request whose invoice is left alone relies on it as before.            *)
LEMMA StillRelies ==
  ASSUME TypeOK, NEW q \in Requests, Relies(q), req'[q] = req[q],
         req[q].pc = "hours" /\ req[q].op \in OnDraft \cup OnIssued => Untouched(req[q].inv)
  PROVE  Relies(q)'
  <1>1. CASE req[q].pc = "hours" /\ req[q].op \in Leaving
    <2>1. Untouched(req[q].inv) /\ status[req[q].inv] = "DRAFT"
      BY <1>1 DEF Relies, OnDraft, OnIssued, Leaving
    <2>2. \A h \in Hours : mark'[h] \in req[q].lines <=> mark[h] \in req[q].lines
      BY <1>1, <2>1 DEF Relies, Untouched
    <2> QED BY <1>1, <2>1, <2>2 DEF Relies, Untouched, OnDraft, OnIssued, Leaving
  <1>2. CASE ~(req[q].pc = "hours" /\ req[q].op \in Leaving)
    BY <1>2 DEF Relies, Untouched, OnDraft, OnIssued, Leaving
  <1> QED BY <1>1, <1>2

(* A request that ends relies on nothing.                                   *)
LEMMA EndRelies ==
  ASSUME TypeOK, NEW r \in Requests, End(r), \A q \in Requests : Relies(q), Alone,
         \A q \in Requests \ {r} :
           req[q].pc = "hours" /\ req[q].op \in OnDraft \cup OnIssued => Untouched(req[q].inv)
  PROVE  (\A q \in Requests : Relies(q))' /\ Alone'
  <1>1. /\ req'[r] = Idle /\ Idle.pc = "idle"
        /\ \A q \in Requests \ {r} : req'[q] = req[q]
    BY DEF End, TypeOK, Idle
  <1>2. Relies(r)'
    BY <1>1 DEF Relies
  <1>3. ASSUME NEW q \in Requests \ {r} PROVE Relies(q)'
    BY <1>1, StillRelies
  <1>4. Alone'
    BY <1>1 DEF Alone
  <1> QED BY <1>2, <1>3, <1>4

(* Another's invoice is not the one a request holds.                        *)
LEMMA Apart ==
  ASSUME Alone, NEW r \in Requests, NEW q \in Requests \ {r}, req[r].pc = "hours", req[r].inv \in Invoices,
         req[q].pc = "hours"
  PROVE  req[q].inv # req[r].inv
  BY DEF Alone

-----------------------------------------------------------------------------
(* Every step keeps the invariant. *)

(* The rows are as they were.                                               *)
SameRows == UNCHANGED <<hours, on, rec, status, partly, returned>>

(* A step that leaves the rows alone keeps what is said of them.            *)
LEMMA SameRowsOK ==
  ASSUME IInv, SameRows
  PROVE  (\A l \in Lines : LineOK(l))' /\ NotReturned'
  BY DEF IInv, SameRows, hours, LineOK, Covers, Carried, NotReturned

(* A request of any kind, as it begins.                                     *)
LEMMA StartsOK ==
  ASSUME IInv, NEW r \in Requests, NEW op \in Ops, NEW i \in Invoices \cup {NoInvoice}, NEW ls \in SUBSET Lines,
         NEW hs \in SUBSET Hours, Starts(r, op, i, ls, hs),
         op \in OnDraft => i \in Invoices /\ status[i] = "DRAFT",
         op \in OnIssued => i \in Invoices /\ status[i] = "ISSUED",
         op = "return" => partly[i],
         op \in Leaving => ls \subseteq LinesOf(i) /\ hs = MarkedOn(ls),
         op = "discard" => ls = LinesOf(i)
  PROVE  IInv'
  <1> USE DEF IInv
  <1>1. SameRows
    BY DEF Starts, SameRows
  <1>2. /\ req' = [req EXCEPT ![r] = [Idle EXCEPT !.pc = "hours", !.op = op, !.inv = i, !.lines = ls, !.todo = hs]]
        /\ i # NoInvoice => InvoiceFree(r, i)
    BY DEF Starts
  <1>3. /\ req'[r].pc = "hours" /\ req'[r].op = op /\ req'[r].inv = i /\ req'[r].lines = ls
        /\ req'[r].todo = hs /\ req'[r].held = {} /\ req'[r].seen = NoLine
        /\ \A q \in Requests \ {r} : req'[q] = req[q]
    BY <1>2 DEF TypeOK, Idle
  <1>4. TypeOK'
    <2>1. req'[r] \in [pc : {"idle", "invoice", "hours"}, op : Ops, inv : Invoices \cup {NoInvoice},
                       seen : Lines \cup {NoLine, Off}, lines : SUBSET Lines, todo : SUBSET Hours, held : SUBSET Hours]
      BY <1>2, Zenon DEF TypeOK, Idle, Ops
    <2>2. req' \in [Requests -> [pc : {"idle", "invoice", "hours"}, op : Ops, inv : Invoices \cup {NoInvoice},
                       seen : Lines \cup {NoLine, Off}, lines : SUBSET Lines, todo : SUBSET Hours, held : SUBSET Hours]]
      BY <1>2, <2>1 DEF TypeOK
    <2> QED BY <1>1, <1>3, <2>2 DEF TypeOK, SameRows, hours
  <1>5. Relies(r)'
    BY <1>1, <1>3 DEF Relies, SameRows, hours, LinesOf, MarkedOn, OnDraft, OnIssued, Leaving
  <1>6. ASSUME NEW q \in Requests \ {r} PROVE Relies(q)'
    BY <1>1, <1>3, StillRelies DEF Untouched, SameRows, hours
  <1>7. Alone'
    BY <1>2, <1>3, BilledAssumption DEF Alone, InvoiceFree, Holds
  <1> QED BY <1>1, <1>4, <1>5, <1>6, <1>7, SameRowsOK

(* A person's asks: what they rely on was read under the invoice's lock.    *)
LEMMA AskOK ==
  ASSUME IInv, NEW r \in Requests, Ask(r) \/ AskOfDraft(r) \/ AskOfIssued(r)
  PROVE  IInv'
  <1> USE DEF OnDraft, OnIssued, Leaving, Ops, Some, OpenDraft
  <1>1. CASE Ask(r)
    <2>1. PICK hs \in SUBSET Hours, op \in {"list", "add", "clear"}, i \in Invoices \cup {NoInvoice} :
            Starts(r, op, i, {}, hs) /\ (op = "add" => i \in Invoices /\ status[i] = "DRAFT")
      BY <1>1 DEF Ask, MarkedOn
    <2> QED BY <2>1, StartsOK
  <1>2. CASE AskOfDraft(r)
    <2>1. PICK i \in Invoices : /\ status[i] = "DRAFT"
                                 /\ \/ \E l \in LinesOf(i) : Starts(r, "remove", i, {l}, MarkedOn({l}))
                                    \/ Starts(r, "discard", i, LinesOf(i), MarkedOn(LinesOf(i)))
      BY <1>2 DEF AskOfDraft
    <2>2. \A ls : MarkedOn(ls) \in SUBSET Hours
      BY DEF MarkedOn
    <2>3. LinesOf(i) \in SUBSET Lines
      BY DEF LinesOf
    <2> QED BY <2>1, <2>2, <2>3, StartsOK
  <1>3. CASE AskOfIssued(r)
    <2>1. PICK i \in Invoices, hs \in SUBSET Hours, op \in {"credit", "return"}, ls \in SUBSET Lines :
            status[i] = "ISSUED" /\ (op = "return" => partly[i]) /\ Starts(r, op, i, ls, hs)
      BY <1>3 DEF AskOfIssued, MarkedOn, LinesOf
    <2> QED BY <2>1, StartsOK
  <1> QED BY <1>1, <1>2, <1>3

(* The record of a request, and the one that takes its place.               *)
Request == [pc : {"idle", "invoice", "hours"}, op : Ops, inv : Invoices \cup {NoInvoice},
            seen : Lines \cup {NoLine, Off}, lines : SUBSET Lines, todo : SUBSET Hours, held : SUBSET Hours]

(* A request goes on to x and the rows are left alone.                      *)
LEMMA GoesOnOK ==
  ASSUME IInv, SameRows, NEW r \in Requests, NEW x \in Request, req' = [req EXCEPT ![r] = x],
         x.held # {} => \A q \in Requests \ {r} : x.held \cap req[q].held = {},
         x.pc = "invoice" => x.op = "split",
         x.pc = "hours" => x.op = "split" \/ (req[r].pc = "hours" /\ x.op = req[r].op /\ x.lines = req[r].lines
                                               /\ x.todo \cup x.held = req[r].todo \cup req[r].held),
         x.pc = "hours" => x.inv = req[r].inv /\ (req[r].pc = "hours" \/ x.inv = NoInvoice \/ InvoiceFree(r, x.inv))
  PROVE  IInv'
  <1> USE DEF IInv
  <1>1. /\ req'[r] = x
        /\ \A q \in Requests \ {r} : req'[q] = req[q]
    BY DEF TypeOK
  <1>2. TypeOK'
    <2>1. req' \in [Requests -> Request]
      BY DEF TypeOK, Request
    <2>2. \A p, q \in Requests : p # q => req'[p].held \cap req'[q].held = {}
      BY <1>1 DEF TypeOK
    <2> QED BY <2>1, <2>2 DEF TypeOK, SameRows, hours, Request
  <1>3. Relies(r)'
    <2>1. CASE x.pc = "hours" /\ x.op # "split"
      BY <1>1, <2>1 DEF Relies, SameRows, hours, OnDraft, OnIssued, Leaving
    <2>2. CASE x.pc # "hours" \/ x.op = "split"
      BY <1>1, <2>2 DEF Relies, OnDraft, OnIssued, Leaving
    <2> QED BY <2>1, <2>2
  <1>4. ASSUME NEW q \in Requests \ {r} PROVE Relies(q)'
    BY <1>1, StillRelies DEF Untouched, SameRows, hours
  <1>5. Alone'
    BY <1>1, BilledAssumption DEF Alone, InvoiceFree, Holds
  <1> QED BY <1>2, <1>3, <1>4, <1>5, SameRowsOK

(* A split waits for its invoice.                                           *)
LEMMA AskToSplitOK ==
  ASSUME IInv, NEW r \in Requests, AskToSplit(r)
  PROVE  IInv'
  <1>1. PICK h \in Hours : req' = [req EXCEPT ![r] = [Idle EXCEPT !.pc = "invoice", !.op = "split", !.inv = InvoiceOf(mark[h]),
                                                 !.seen = mark[h], !.todo = {h}]]
    BY DEF AskToSplit
  <1> DEFINE x == [Idle EXCEPT !.pc = "invoice", !.op = "split", !.inv = InvoiceOf(mark[h]), !.seen = mark[h], !.todo = {h}]
  <1>2. mark[h] \in Lines \cup {NoLine, Off} /\ InvoiceOf(mark[h]) \in Invoices \cup {NoInvoice}
    BY DEF IInv, TypeOK, InvoiceOf
  <1>3. x \in Request
    BY <1>2, Zenon DEF Request, Idle, Ops
  <1>4. x.pc = "invoice" /\ x.op = "split" /\ x.held = {}
    BY DEF Idle
  <1>5. SameRows
    BY DEF AskToSplit, SameRows
  <1> QED
    <2> HIDE DEF x
    <2> QED BY <1>1, <1>3, <1>4, <1>5, GoesOnOK DEF x

(* A split holds its invoice, and relies on nothing of it.                  *)
LEMMA HoldInvoiceOK ==
  ASSUME IInv, NEW r \in Requests, HoldInvoice(r)
  PROVE  IInv'
  <1> DEFINE x == [req[r] EXCEPT !.pc = "hours"]
  <1>1. req[r] \in Request /\ req[r].pc = "invoice" /\ req[r].op = "split"
    BY DEF IInv, TypeOK, Request, HoldInvoice, Relies
  <1>2. x \in Request
    BY <1>1 DEF Request
  <1>3. /\ x.pc = "hours" /\ x.op = "split" /\ x.inv = req[r].inv /\ x.held = req[r].held
    BY <1>1 DEF Request
  <1>4. SameRows /\ req' = [req EXCEPT ![r] = x] /\ (x.inv = NoInvoice \/ InvoiceFree(r, x.inv))
    BY <1>1, <1>3 DEF HoldInvoice, SameRows, Request
  <1>5. \A q \in Requests \ {r} : x.held \cap req[q].held = {}
    BY <1>3 DEF IInv, TypeOK
  <1> QED
    <2> HIDE DEF x
    <2> QED BY <1>2, <1>3, <1>4, <1>5, GoesOnOK

(* The next hour is locked: it is no other request's.                       *)
LEMMA LockHourOK ==
  ASSUME IInv, NEW r \in Requests, LockHour(r)
  PROVE  IInv'
  <1>1. PICK h \in NextHours(r) :
          HourFree(r, h) /\ req' = [req EXCEPT ![r].todo = @ \ {h}, ![r].held = @ \cup {h}]
    BY DEF LockHour
  <1> DEFINE x == [req[r] EXCEPT !.todo = @ \ {h}, !.held = @ \cup {h}]
  <1>2. req[r] \in Request /\ req[r].pc = "hours" /\ h \in req[r].todo
    BY <1>1 DEF IInv, TypeOK, Request, LockHour, NextHours
  <1>3. x \in Request
    BY <1>2 DEF Request
  <1>4. /\ x.pc = "hours" /\ x.op = req[r].op /\ x.inv = req[r].inv /\ x.lines = req[r].lines
        /\ x.todo = req[r].todo \ {h} /\ x.held = req[r].held \cup {h}
    BY <1>2 DEF Request
  <1>5. SameRows /\ req' = [req EXCEPT ![r] = x]
    BY <1>1, <1>2 DEF LockHour, SameRows, IInv, TypeOK
  <1>6. \A q \in Requests \ {r} : x.held \cap req[q].held = {}
    BY <1>1, <1>4 DEF IInv, TypeOK, HourFree
  <1> QED
    <2> HIDE DEF x
    <2> QED BY <1>2, <1>3, <1>4, <1>5, <1>6, GoesOnOK

(* A transaction that fails leaves all as it was.                           *)
LEMMA GiveUpOK ==
  ASSUME IInv, NEW r \in Requests, GiveUp(r)
  PROVE  IInv'
  <1>1. Idle \in Request /\ Idle.pc = "idle" /\ Idle.held = {}
    BY Zenon DEF Idle, Request, Ops
  <1> QED BY <1>1, GoesOnOK DEF GiveUp, End, SameRows

(* The requests are well formed when one has ended.                         *)
LEMMA EndTyped ==
  ASSUME TypeOK, NEW r \in Requests, End(r)
  PROVE  /\ req' \in [Requests -> Request]
         /\ \A p, q \in Requests : p # q => req'[p].held \cap req'[q].held = {}
  <1>1. Idle \in Request /\ Idle.held = {}
    BY Zenon DEF Idle, Request, Ops
  <1> QED BY <1>1 DEF End, TypeOK, Request

(* Hours on a draft: they were free, so no line lost or shared them.        *)
LEMMA PutOK ==
  ASSUME IInv, NEW r \in Requests, NEW i \in Invoices, req[r].pc = "hours", PutOn(r, i), End(r),
         status' = [status EXCEPT ![i] = "DRAFT"],
         status[i] = "none" \/ (status[i] = "DRAFT" /\ req[r].inv = i)
  PROVE  IInv'
  <1> USE DEF IInv
  <1>0. PICK put \in SUBSET req[r].held : \E g \in [put -> Unwritten] :
          /\ on' = [l \in Lines |-> IF l \in Range(g) THEN i ELSE on[l]]
          /\ rec' = [l \in Lines |-> [h \in Hours |-> IF h \in put /\ g[h] = l THEN units[h] ELSE rec[l][h]]]
          /\ mark' = [h \in Hours |-> IF h \in put THEN g[h] ELSE mark[h]]
    BY DEF PutOn, Some
  <1>1. PICK g \in [put -> Unwritten] :
          /\ on' = [l \in Lines |-> IF l \in Range(g) THEN i ELSE on[l]]
          /\ rec' = [l \in Lines |-> [h \in Hours |-> IF h \in put /\ g[h] = l THEN units[h] ELSE rec[l][h]]]
          /\ mark' = [h \in Hours |-> IF h \in put THEN g[h] ELSE mark[h]]
    BY <1>0
  <1>2. UNCHANGED <<units, gone, partly, returned>> /\ put \subseteq Hours
    BY DEF PutOn, TypeOK
  <1>3. \A h \in put : units[h] # {} /\ mark[h] = NoLine /\ g[h] \in Lines /\ on[g[h]] = NoInvoice
    BY DEF PutOn, LookAgain, StillReady, Unwritten
  <1>4. \A l \in Lines : l \in Range(g) <=> \E h \in put : g[h] = l
    BY DEF Range
  <1>5. \A l \in Lines : l \in Range(g) => on[l] = NoInvoice
    BY <1>3, <1>4
  <1>6. TypeOK'
    <2>1. on' \in [Lines -> Invoices \cup {NoInvoice}] /\ status' \in [Invoices -> {"none", "DRAFT", "ISSUED", "CREDITED"}]
      BY <1>1 DEF TypeOK
    <2>2. rec' \in [Lines -> [Hours -> SUBSET Units]]
      BY <1>1 DEF TypeOK
    <2>3. mark' \in [Hours -> Lines \cup {NoLine, Off}]
      BY <1>1, <1>3 DEF TypeOK
    <2> QED BY <1>2, <2>1, <2>2, <2>3, EndTyped DEF TypeOK, Request
  <1>7. ASSUME NEW q \in Requests \ {r}, req[q].pc = "hours" /\ req[q].op \in OnDraft \cup OnIssued
        PROVE  Untouched(req[q].inv)
    <2>1. req[q].inv \in Invoices /\ req[q].inv # i
      BY <1>7, Apart DEF Relies, OnDraft, OnIssued
    <2>2. status'[req[q].inv] = status[req[q].inv]
      BY <2>1 DEF TypeOK
    <2>3. ASSUME NEW l \in Lines PROVE on'[l] = req[q].inv <=> on[l] = req[q].inv
      BY <1>1, <1>5, <2>1, BilledAssumption
    <2>4. ASSUME NEW l \in Lines, on[l] = req[q].inv, NEW h \in Hours PROVE mark'[h] = l <=> mark[h] = l
      BY <1>1, <1>3, <2>1, <2>4, BilledAssumption
    <2> QED BY <1>2, <2>2, <2>3, <2>4 DEF Untouched
  <1>8. (\A q \in Requests : Relies(q))' /\ Alone'
    BY <1>7, EndRelies
  <1>9. NotReturned'
    BY <1>2 DEF NotReturned, TypeOK
  <1>10. ASSUME NEW l \in Lines PROVE LineOK(l)'
    <2>1. LineOK(l)
      OBVIOUS
    <2>2. CASE l \in Range(g)
      <3>1. on'[l] = i /\ on[l] = NoInvoice /\ status'[i] = "DRAFT" /\ i # NoInvoice
        BY <1>1, <1>5, <2>2, BilledAssumption DEF TypeOK
      <3>2. \A h \in Hours : rec[l][h] = {} /\ mark[h] # l
        BY <2>1, <3>1 DEF LineOK
      <3>3. \A h \in Hours : /\ rec'[l][h] = IF h \in put /\ g[h] = l THEN units[h] ELSE {}
                             /\ mark'[h] = l <=> h \in put /\ g[h] = l
        BY <1>1, <3>2
      <3>4. returned'[i] = {}
        BY <1>2 DEF NotReturned
      <3>5. \A u \in Units : Covers(l, u)' <=> Carried(l, u)'
        BY <1>2, <3>3 DEF Covers, Carried
      <3>6. \A h \in Hours : rec'[l][h] # {} => units'[h] # {} /\ mark'[h] = l
        BY <1>2, <1>3, <3>3
      <3>7. \A h \in Hours : mark'[h] = l => units'[h] # {}
        BY <1>2, <1>3, <3>3
      <3> QED BY <3>1, <3>4, <3>5, <3>6, <3>7 DEF LineOK
    <2>3. CASE l \notin Range(g)
      <3>1. on'[l] = on[l] /\ \A h \in Hours : rec'[l][h] = rec[l][h]
        BY <1>1, <1>4, <2>3
      <3>2. \A h \in Hours : mark'[h] = l <=> mark[h] = l
        BY <1>1, <1>3, <1>4, <2>3, BilledAssumption
      <3>3. on[l] # NoInvoice => on[l] \in Invoices /\ status'[on[l]] = status[on[l]]
        BY <2>1 DEF LineOK, TypeOK
      <3>4. \A u : (Covers(l, u)' <=> Covers(l, u)) /\ (Carried(l, u)' <=> Carried(l, u))
        BY <1>2, <3>1, <3>2 DEF Covers, Carried
      <3> QED BY <1>2, <2>1, <3>1, <3>2, <3>3, <3>4 DEF LineOK
    <2> QED BY <2>2, <2>3
  <1> QED BY <1>6, <1>8, <1>9, <1>10

(* A line of a draft, or the draft, goes: every hour marked on it was       *)
(* locked and is freed, and no other hour is.                               *)
LEMMA LeaveOK ==
  ASSUME IInv, NEW r \in Requests, req[r].pc = "hours", req[r].op \in Leaving, req[r].todo = {},
         Freed(req[r].held), Dropped(req[r].lines), End(r), UNCHANGED <<units, gone, partly, returned>>,
         \/ status' = status
         \/ req[r].op = "discard" /\ status' = [status EXCEPT ![req[r].inv] = "none"]
  PROVE  IInv'
  <1> USE DEF IInv
  <1> DEFINE i  == req[r].inv
             ls == req[r].lines
  <1>1. /\ i \in Invoices /\ i # NoInvoice /\ status[i] = "DRAFT"
        /\ \A l \in ls : l \in Lines /\ on[l] = i
        /\ \A h \in Hours : h \in req[r].held <=> mark[h] \in ls
        /\ status' # status => \A l \in Lines : on[l] = i => l \in ls
    BY BilledAssumption DEF Relies, OnDraft, Leaving
  <1>2. /\ \A l \in Lines : on'[l] = IF l \in ls THEN NoInvoice ELSE on[l]
        /\ \A l \in Lines : rec'[l] = IF l \in ls THEN NothingBilled ELSE rec[l]
        /\ \A h \in Hours : mark'[h] = IF mark[h] \in ls THEN NoLine ELSE mark[h]
    BY <1>1 DEF Dropped, Freed
  <1>3. \A j \in Invoices : j # i \/ status' = status => status'[j] = status[j]
    BY DEF TypeOK
  <1>4. TypeOK'
    <2>1. on' \in [Lines -> Invoices \cup {NoInvoice}] /\ status' \in [Invoices -> {"none", "DRAFT", "ISSUED", "CREDITED"}]
      BY DEF TypeOK, Dropped
    <2>2. NothingBilled \in [Hours -> SUBSET Units]
      BY DEF NothingBilled
    <2>3. rec' \in [Lines -> [Hours -> SUBSET Units]]
      BY <2>2 DEF TypeOK, Dropped
    <2>4. mark' \in [Hours -> Lines \cup {NoLine, Off}]
      BY DEF TypeOK, Freed
    <2> QED BY <2>1, <2>3, <2>4, EndTyped DEF TypeOK, Request
  <1>5. ASSUME NEW q \in Requests \ {r}, req[q].pc = "hours" /\ req[q].op \in OnDraft \cup OnIssued
        PROVE  Untouched(req[q].inv)
    <2>1. req[q].inv \in Invoices /\ req[q].inv # i
      BY <1>1, <1>5, Apart DEF Relies, OnDraft, OnIssued
    <2>2. ASSUME NEW l \in Lines PROVE on'[l] = req[q].inv <=> on[l] = req[q].inv
      BY <1>1, <1>2, <2>1, BilledAssumption
    <2>3. ASSUME NEW l \in Lines, on[l] = req[q].inv, NEW h \in Hours PROVE mark'[h] = l <=> mark[h] = l
      BY <1>1, <1>2, <2>1, <2>3, BilledAssumption
    <2> QED BY <1>3, <2>1, <2>2, <2>3 DEF Untouched
  <1>6. (\A q \in Requests : Relies(q))' /\ Alone'
    BY <1>5, EndRelies
  <1>7. NotReturned'
    BY <1>1, <1>3 DEF NotReturned, TypeOK
  <1>8. ASSUME NEW l \in Lines PROVE LineOK(l)'
    <2>1. LineOK(l)
      OBVIOUS
    <2>2. CASE l \in ls
      <3>1. on'[l] = NoInvoice /\ \A h \in Hours : rec'[l][h] = {} /\ mark'[h] # l
        BY <1>1, <1>2, <2>2, BilledAssumption DEF NothingBilled
      <3> QED BY <3>1 DEF LineOK
    <2>3. CASE l \notin ls
      <3>1. on'[l] = on[l] /\ \A h \in Hours : rec'[l][h] = rec[l][h] /\ (mark'[h] = l <=> mark[h] = l)
        BY <1>2, <2>3, BilledAssumption
      <3>2. on[l] # NoInvoice => on[l] \in Invoices /\ status'[on[l]] = status[on[l]]
        BY <1>1, <1>3, <2>3 DEF TypeOK
      <3>3. \A u : (Covers(l, u)' <=> Covers(l, u)) /\ (Carried(l, u)' <=> Carried(l, u))
        BY <3>1 DEF Covers, Carried
      <3> QED BY <2>1, <3>1, <3>2, <3>3 DEF LineOK
    <2> QED BY <2>2, <2>3
  <1> QED BY <1>4, <1>6, <1>7, <1>8

(* A line nothing was done to.                                              *)
LEMMA KeepsLine ==
  ASSUME TypeOK, NEW l \in Lines, LineOK(l), on'[l] = on[l],
         \A h \in Hours : rec'[l][h] = rec[l][h] /\ (mark'[h] = l <=> mark[h] = l),
         \A h \in Hours : mark[h] = l \/ rec[l][h] # {} => units'[h] = units[h],
         on[l] # NoInvoice => /\ status'[on[l]] = status[on[l]]
                              /\ partly'[on[l]] = partly[on[l]]
                              /\ returned'[on[l]] = returned[on[l]]
  PROVE  LineOK(l)'
  <1>1. \A u : (Covers(l, u)' <=> Covers(l, u)) /\ (Carried(l, u)' <=> Carried(l, u))
    BY DEF Covers, Carried
  <1> QED BY <1>1 DEF LineOK

(* The draft is issued: its lines bill what is marked on them.              *)
LEMMA IssueOK ==
  ASSUME IInv, IssueInvoice
  PROVE  IInv'
  <1> USE DEF IInv
  <1>1. PICK i \in Invoices : /\ status[i] = "DRAFT" /\ status' = [status EXCEPT ![i] = "ISSUED"]
                               /\ \A r \in Requests : ~Holds(r, i)
    BY DEF IssueInvoice, OpenDraft
  <1>2. UNCHANGED <<hours, on, rec, partly, returned, req>>
    BY DEF IssueInvoice
  <1>3. TypeOK'
    BY <1>1, <1>2 DEF TypeOK, hours
  <1>4. ASSUME NEW q \in Requests PROVE Relies(q)'
    <2>1. req[q].pc = "hours" /\ req[q].op \in OnDraft \cup OnIssued => Untouched(req[q].inv)
      BY <1>1, <1>2 DEF Holds, Relies, Untouched, hours, TypeOK
    <2> QED BY <1>2, <2>1, StillRelies
  <1>5. Alone'
    BY <1>2 DEF Alone
  <1>6. NotReturned'
    BY <1>1, <1>2 DEF NotReturned, TypeOK
  <1>7. ASSUME NEW l \in Lines PROVE LineOK(l)'
    <2>1. CASE on[l] = i
      <3>1. status'[i] = "ISSUED" /\ status[i] = "DRAFT" /\ LineOK(l)
        BY <1>1 DEF TypeOK
      <3>2. \A u : (Covers(l, u)' <=> Covers(l, u)) /\ (Carried(l, u)' <=> Carried(l, u))
        BY <1>2 DEF Covers, Carried, hours
      <3> QED BY <1>2, <2>1, <3>1, <3>2 DEF LineOK, hours
    <2>2. CASE on[l] # i
      <3>1. on[l] # NoInvoice => status'[on[l]] = status[on[l]]
        BY <1>1, <2>2 DEF TypeOK
      <3> QED BY <1>2, <3>1, KeepsLine DEF hours
    <2> QED BY <2>1, <2>2
  <1> QED BY <1>3, <1>4, <1>5, <1>6, <1>7

(* The invoice a credit note or a return is of, and nothing but it.         *)
LEMMA CreditPartOK ==
  ASSUME IInv, NEW r \in Requests, CreditPart(r)
  PROVE  IInv'
  <1> USE DEF IInv
  <1> DEFINE i == req[r].inv
  <1>1. req[r].pc = "hours" /\ i \in Invoices /\ status[i] = "ISSUED"
    BY DEF CreditPart, Ready, Relies, OnIssued
  <1>2. partly' = [partly EXCEPT ![i] = TRUE] /\ End(r) /\ UNCHANGED <<units, mark, gone, on, rec, status, returned>>
    BY DEF CreditPart, hours
  <1>3. TypeOK'
    <2>1. partly' \in [Invoices -> BOOLEAN]
      BY <1>2 DEF TypeOK
    <2> QED BY <1>2, <2>1, EndTyped DEF TypeOK, Request
  <1>4. (\A q \in Requests : Relies(q))' /\ Alone'
    <2>1. ASSUME NEW q \in Requests \ {r}, req[q].pc = "hours" /\ req[q].op \in OnDraft \cup OnIssued
          PROVE  Untouched(req[q].inv)
      <3>1. req[q].inv \in Invoices /\ req[q].inv # i
        BY <1>1, <2>1, Apart DEF Relies, OnDraft, OnIssued
      <3> QED BY <1>2, <3>1 DEF Untouched, TypeOK
    <2> QED BY <1>2, <2>1, EndRelies
  <1>5. NotReturned'
    BY <1>1, <1>2 DEF NotReturned, TypeOK
  <1>6. ASSUME NEW l \in Lines PROVE LineOK(l)'
    <2>1. CASE on[l] = i
      <3>1. partly'[i] /\ status[i] = "ISSUED" /\ LineOK(l)
        BY <1>1, <1>2 DEF TypeOK
      <3>2. \A u : (Covers(l, u)' <=> Covers(l, u)) /\ (Carried(l, u)' <=> Carried(l, u))
        BY <1>2 DEF Covers, Carried
      <3> QED BY <1>2, <2>1, <3>1, <3>2 DEF LineOK
    <2>2. CASE on[l] # i
      <3>1. on[l] # NoInvoice => partly'[on[l]] = partly[on[l]]
        BY <1>2, <2>2 DEF TypeOK
      <3> QED BY <1>2, <3>1, KeepsLine
    <2> QED BY <2>1, <2>2
  <1> QED BY <1>3, <1>4, <1>5, <1>6

(* What is left is credited: every hour marked on the invoice is freed.     *)
LEMMA CreditWholeOK ==
  ASSUME IInv, NEW r \in Requests, CreditWhole(r)
  PROVE  IInv'
  <1> USE DEF IInv
  <1> DEFINE i == req[r].inv
  <1>1. req[r].pc = "hours" /\ i \in Invoices /\ status[i] = "ISSUED"
    BY DEF CreditWhole, Ready, Relies, OnIssued
  <1>2. /\ status' = [status EXCEPT ![i] = "CREDITED"] /\ partly' = [partly EXCEPT ![i] = FALSE]
        /\ returned' = [returned EXCEPT ![i] = {}] /\ Freed(FreedByCredit(i))
        /\ End(r) /\ UNCHANGED <<units, gone, on, rec>>
    BY DEF CreditWhole
  <1>3. \A h \in Hours : mark'[h] = IF mark[h] \in Lines /\ on[mark[h]] = i THEN NoLine ELSE mark[h]
    BY <1>2 DEF Freed, FreedByCredit, MarkedOn, LinesOf
  <1>4. TypeOK'
    <2>1. /\ status' \in [Invoices -> {"none", "DRAFT", "ISSUED", "CREDITED"}]
          /\ partly' \in [Invoices -> BOOLEAN] /\ returned' \in [Invoices -> SUBSET Units]
          /\ mark' \in [Hours -> Lines \cup {NoLine, Off}]
      BY <1>2 DEF TypeOK, Freed
    <2> QED BY <1>2, <2>1, EndTyped DEF TypeOK, Request
  <1>5. ASSUME NEW l \in Lines, on[l] # i, NEW h \in Hours PROVE mark'[h] = l <=> mark[h] = l
    BY <1>3, <1>5, BilledAssumption
  <1>6. (\A q \in Requests : Relies(q))' /\ Alone'
    <2>1. ASSUME NEW q \in Requests \ {r}, req[q].pc = "hours" /\ req[q].op \in OnDraft \cup OnIssued
          PROVE  Untouched(req[q].inv)
      <3>1. req[q].inv \in Invoices /\ req[q].inv # i
        BY <1>1, <2>1, Apart DEF Relies, OnDraft, OnIssued
      <3> QED BY <1>2, <1>5, <3>1 DEF Untouched, TypeOK
    <2> QED BY <1>2, <2>1, EndRelies
  <1>7. NotReturned'
    BY <1>1, <1>2 DEF NotReturned, TypeOK
  <1>8. ASSUME NEW l \in Lines PROVE LineOK(l)'
    <2>1. CASE on[l] = i
      <3>1. status'[i] = "CREDITED" /\ i # NoInvoice /\ on'[l] = i /\ LineOK(l)
        BY <1>1, <1>2, <2>1, BilledAssumption DEF TypeOK
      <3>2. \A h \in Hours : mark'[h] # l
        BY <1>3, <2>1, BilledAssumption
      <3> QED BY <1>2, <3>1, <3>2 DEF LineOK
    <2>2. CASE on[l] # i
      <3>1. on[l] # NoInvoice => /\ status'[on[l]] = status[on[l]] /\ partly'[on[l]] = partly[on[l]]
                                 /\ returned'[on[l]] = returned[on[l]]
        BY <1>2, <2>2 DEF TypeOK
      <3> QED BY <1>2, <1>5, <2>2, <3>1, KeepsLine
    <2> QED BY <2>1, <2>2
  <1> QED BY <1>4, <1>6, <1>7, <1>8

(* Hours returned by hand: their time leaves the marks and what is billed,  *)
(* and no other hour's does, for no two hours share time.                   *)
LEMMA ReturnOK ==
  ASSUME IInv, NEW r \in Requests, ReturnHours(r)
  PROVE  IInv'
  <1> USE DEF IInv
  <1> DEFINE i == req[r].inv
             hs == req[r].held
  <1>1. req[r].pc = "hours" /\ i \in Invoices /\ status[i] = "ISSUED" /\ partly[i] /\ hs \subseteq Hours
    BY DEF ReturnHours, Ready, Relies, OnIssued, TypeOK
  <1>2. /\ returned' = [returned EXCEPT ![i] = @ \cup UNION {units[h] : h \in hs}]
        /\ Freed(hs) /\ End(r) /\ UNCHANGED <<units, gone, on, rec, status, partly>>
    BY DEF ReturnHours
  <1>3. \A h \in hs : mark[h] \in Lines /\ on[mark[h]] = i
    BY DEF ReturnHours, MarkedOn, LinesOf
  <1>4. \A h \in Hours : mark'[h] = IF h \in hs THEN NoLine ELSE mark[h]
    BY <1>2 DEF Freed
  <1>5. TypeOK'
    <2>1. /\ returned' \in [Invoices -> SUBSET Units] /\ mark' \in [Hours -> Lines \cup {NoLine, Off}]
      BY <1>1, <1>2 DEF TypeOK, Freed
    <2> QED BY <1>2, <2>1, EndTyped DEF TypeOK, Request
  <1>6. ASSUME NEW l \in Lines, on[l] # i, NEW h \in Hours PROVE mark'[h] = l <=> mark[h] = l
    BY <1>3, <1>4, <1>6, BilledAssumption
  <1>7. (\A q \in Requests : Relies(q))' /\ Alone'
    <2>1. ASSUME NEW q \in Requests \ {r}, req[q].pc = "hours" /\ req[q].op \in OnDraft \cup OnIssued
          PROVE  Untouched(req[q].inv)
      <3>1. req[q].inv \in Invoices /\ req[q].inv # i
        BY <1>1, <2>1, Apart DEF Relies, OnDraft, OnIssued
      <3> QED BY <1>2, <1>6, <3>1 DEF Untouched, TypeOK
    <2> QED BY <1>2, <2>1, EndRelies
  <1>8. NotReturned'
    BY <1>1, <1>2 DEF NotReturned, TypeOK
  <1>9. ASSUME NEW l \in Lines PROVE LineOK(l)'
    <2>1. CASE on[l] = i
      <3>1. status[i] = "ISSUED" /\ i # NoInvoice /\ on'[l] = i /\ LineOK(l) /\ partly'[i] /\ status'[i] = "ISSUED"
        BY <1>1, <1>2, <2>1, BilledAssumption DEF TypeOK
      <3>2. ASSUME NEW u \in Units PROVE Covers(l, u)' /\ u \notin returned'[i] <=> Carried(l, u)'
        <4>1. u \in returned'[i] <=> u \in returned[i] \/ \E h \in hs : u \in units[h]
          BY <1>1, <1>2 DEF TypeOK
        <4>2. Covers(l, u)' <=> Covers(l, u)
          BY <1>2 DEF Covers
        <4>3. Carried(l, u)' <=> \E h \in Hours \ hs : mark[h] = l /\ u \in units[h]
          BY <1>2, <1>4, BilledAssumption DEF Carried
        <4>4. Covers(l, u) /\ u \notin returned[i] <=> \E h \in Hours : mark[h] = l /\ u \in units[h]
          BY <2>1, <3>1 DEF LineOK, Carried
        <4>5. \A g, h \in Hours : u \in units[g] /\ u \in units[h] => g = h
          BY DEF TypeOK
        <4> QED BY <1>1, <4>1, <4>2, <4>3, <4>4, <4>5
      <3>3. \A h \in Hours : mark'[h] = l => mark[h] = l
        BY <1>4, BilledAssumption
      <3> QED BY <1>2, <2>1, <3>1, <3>2, <3>3 DEF LineOK
    <2>2. CASE on[l] # i
      <3>1. on[l] # NoInvoice => returned'[on[l]] = returned[on[l]]
        BY <1>2, <2>2 DEF TypeOK
      <3> QED BY <1>2, <1>6, <2>2, <3>1, KeepsLine
    <2> QED BY <2>1, <2>2
  <1> QED BY <1>5, <1>7, <1>8, <1>9

(* Hours go off the list or back: they are on no line.                      *)
LEMMA SetAsideOK ==
  ASSUME IInv, NEW r \in Requests, MarkHours(r) \/ ClearHourMarks(r)
  PROVE  IInv'
  <1> USE DEF IInv
  <1>1. End(r) /\ UNCHANGED <<units, gone, on, rec, status, partly, returned>>
    BY DEF MarkHours, ClearHourMarks
  <1>2. mark' \in [Hours -> Lines \cup {NoLine, Off}] /\ \A l \in Lines, h \in Hours : mark'[h] = l <=> mark[h] = l
    <2>1. CASE MarkHours(r)
      BY <2>1, BilledAssumption DEF MarkHours, LookAgain, StillReady, TypeOK
    <2>2. CASE ClearHourMarks(r)
      BY <2>2, BilledAssumption DEF ClearHourMarks, Freed, TypeOK
    <2> QED BY <2>1, <2>2
  <1>3. TypeOK'
    BY <1>1, <1>2, EndTyped DEF TypeOK, Request
  <1>4. (\A q \in Requests : Relies(q))' /\ Alone'
    <2>1. \A i : Untouched(i)
      BY <1>1, <1>2 DEF Untouched
    <2> QED BY <1>1, <2>1, EndRelies
  <1>5. NotReturned'
    BY <1>1 DEF NotReturned
  <1>6. ASSUME NEW l \in Lines PROVE LineOK(l)'
    BY <1>1, <1>2, KeepsLine
  <1> QED BY <1>3, <1>4, <1>5, <1>6

(* The two halves of a split have the time and the mark of the one.         *)
LEMMA SplitOK ==
  ASSUME IInv, NEW r \in Requests, SplitEntry(r)
  PROVE  IInv'
  <1> USE DEF IInv
  <1>0. PICK h \in Hours, second \in Hours :
          /\ Splittable(h) /\ units[second] = {}
          /\ \E part \in Some(units[h]) : part # units[h] /\ units' = [units EXCEPT ![h] = @ \ part, ![second] = part]
          /\ mark' = [mark EXCEPT ![second] = mark[h]]
    <2>1. req[r].held \subseteq Hours
      BY DEF TypeOK
    <2> QED BY <2>1 DEF SplitEntry, SecondMark
  <1>1. PICK part \in Some(units[h]) : part # units[h] /\ units' = [units EXCEPT ![h] = @ \ part, ![second] = part]
    BY <1>0
  <1>2. End(r) /\ UNCHANGED <<gone, on, rec, status, partly, returned>>
    BY DEF SplitEntry
  <1>3. /\ h # second /\ units'[h] = units[h] \ part /\ units'[second] = part /\ units'[h] # {}
        /\ \A g \in Hours \ {h, second} : units'[g] = units[g]
        /\ \A g \in Hours : mark'[g] = IF g = second THEN mark[h] ELSE mark[g]
        /\ part # {} /\ part \subseteq units[h]
    <2>1. part # {} /\ part \subseteq units[h]
      BY <1>1 DEF Some
    <2>2. h # second
      BY <1>0, <2>1
    <2>3. /\ units'[h] = units[h] \ part /\ units'[second] = part
          /\ \A g \in Hours \ {h, second} : units'[g] = units[g]
      BY <1>0, <1>1, <2>2 DEF TypeOK
    <2>4. units[h] \ part # {}
      BY <1>1, <2>1
    <2>5. \A g \in Hours : mark'[g] = IF g = second THEN mark[h] ELSE mark[g]
      BY <1>0 DEF TypeOK
    <2> QED BY <2>1, <2>2, <2>3, <2>4, <2>5
  <1>4. TypeOK'
    <2>1. units' \in [Hours -> SUBSET Units] /\ mark' \in [Hours -> Lines \cup {NoLine, Off}]
      BY <1>0, <1>1, <1>3 DEF TypeOK
    <2>2. \A g, k \in Hours : g # k => units'[g] \cap units'[k] = {}
      BY <1>0, <1>3 DEF TypeOK
    <2> QED BY <1>2, <2>1, <2>2, EndTyped DEF TypeOK, Request
  <1>5. \A l \in Lines : mark[second] # l /\ rec[l][second] = {}
    BY <1>0 DEF LineOK
  <1>6. ASSUME NEW l \in Lines, l # mark[h], NEW g \in Hours PROVE mark'[g] = l <=> mark[g] = l
    BY <1>3, <1>5, <1>6
  <1>7. mark[h] \in Lines => status[on[mark[h]]] = "ISSUED"
    BY <1>0 DEF Splittable
  <1>8. (\A q \in Requests : Relies(q))' /\ Alone'
    <2>1. ASSUME NEW q \in Requests \ {r}, req[q].pc = "hours" /\ req[q].op \in OnDraft \cup OnIssued
          PROVE  Untouched(req[q].inv)
      BY <1>2, <1>6, <1>7 DEF Untouched
    <2> QED BY <1>2, <2>1, EndRelies
  <1>9. NotReturned'
    BY <1>2 DEF NotReturned
  <1>10. ASSUME NEW l \in Lines PROVE LineOK(l)'
    <2>1. CASE l = mark[h]
      <3>1. \A u : Covers(l, u)' <=> Covers(l, u)
        BY <1>2 DEF Covers
      <3>2. \A u : Carried(l, u)' <=> Carried(l, u)
        <4>1. ASSUME NEW u, Carried(l, u) PROVE Carried(l, u)'
          <5>1. PICK g \in Hours : mark[g] = l /\ u \in units[g]
            BY <4>1 DEF Carried
          <5>2. CASE g = h /\ u \in part
            BY <1>3, <2>1, <5>2 DEF Carried
          <5>3. CASE ~(g = h /\ u \in part)
            <6>1. g # second
              BY <1>5, <5>1
            <6>2. mark'[g] = l /\ u \in units'[g]
              BY <1>3, <5>1, <5>3, <6>1
            <6> QED BY <6>2 DEF Carried
          <5> QED BY <5>2, <5>3
        <4>2. ASSUME NEW u, Carried(l, u)' PROVE Carried(l, u)
          <5>1. PICK g \in Hours : mark'[g] = l /\ u \in units'[g]
            BY <4>2 DEF Carried
          <5>2. CASE g \in {h, second}
            BY <1>3, <2>1, <5>1, <5>2 DEF Carried
          <5>3. CASE g \notin {h, second}
            BY <1>3, <5>1, <5>3 DEF Carried
          <5> QED BY <5>2, <5>3
        <4> QED BY <4>1, <4>2
      <3>3. \A g \in Hours : units[g] # {} => units'[g] # {}
        BY <1>0, <1>3
      <3>4. \A g \in Hours : mark'[g] = l => units'[g] # {}
        <4>1. LineOK(l)
          OBVIOUS
        <4> QED BY <1>3, <3>3, <4>1 DEF LineOK
      <3>5. \A g \in Hours : mark[g] = l => mark'[g] = l
        BY <1>3, <1>5
      <3>6. LineOK(l) /\ mark[h] = l
        BY <2>1
      <3> QED BY <1>2, <3>1, <3>2, <3>3, <3>4, <3>5, <3>6, <1>7 DEF LineOK
    <2>2. CASE l # mark[h]
      <3>1. \A g \in Hours : mark[g] = l => units'[g] = units[g]
        BY <1>3, <1>5, <2>2
      <3>2. \A u : (Covers(l, u)' <=> Covers(l, u)) /\ (Carried(l, u)' <=> Carried(l, u))
        BY <1>2, <1>6, <2>2, <3>1 DEF Covers, Carried
      <3>3. \A g \in Hours : units[g] # {} => units'[g] # {}
        BY <1>0, <1>3
      <3>4. LineOK(l) /\ \A g \in Hours : mark'[g] = l <=> mark[g] = l
        BY <1>6, <2>2
      <3> QED BY <1>2, <3>2, <3>3, <3>4 DEF LineOK
    <2> QED BY <2>1, <2>2
  <1> QED BY <1>4, <1>8, <1>9, <1>10

(* A deleted hour keeps its mark.                                           *)
LEMMA DeleteEntryOK ==
  ASSUME IInv, DeleteEntry
  PROVE  IInv'
  <1> USE DEF IInv
  <1>1. UNCHANGED <<units, mark, on, rec, status, partly, returned, req>> /\ gone' \in [Hours -> BOOLEAN]
    BY DEF DeleteEntry, TypeOK
  <1>2. \A q \in Requests : Relies(q)'
    BY <1>1 DEF Relies
  <1>3. \A l \in Lines : LineOK(l)'
    BY <1>1, KeepsLine
  <1> QED BY <1>1, <1>2, <1>3 DEF TypeOK, Alone, NotReturned

(* The hours of an invoice credited in full move to its copy, each with the *)
(* record of the line it was on: nothing of it was credited before, so      *)
(* every hour recorded is still marked there.                               *)
LEMMA CopyOK ==
  ASSUME IInv, NEW r \in Requests, CreditAndCopy(r)
  PROVE  IInv'
  <1> USE DEF IInv
  <1> DEFINE i == req[r].inv
  <1>1. /\ req[r].pc = "hours" /\ i \in Invoices /\ i # NoInvoice
        /\ status[i] = "ISSUED" /\ ~partly[i] /\ returned[i] = {}
    BY BilledAssumption DEF CreditAndCopy, Copyable, Ready, Relies, OnIssued, NotReturned
  <1>0. PICK j \in Invoices : \E t \in Injection(LinesOf(i), Unwritten) :
          LET From(l) == CHOOSE k \in LinesOf(i) : t[k] = l IN
            /\ status[j] = "none"
            /\ status' = [status EXCEPT ![i] = "CREDITED", ![j] = "DRAFT"]
            /\ on' = [l \in Lines |-> IF l \in Range(t) THEN j ELSE on[l]]
            /\ rec' = [l \in Lines |-> IF l \in Range(t)
                         THEN [h \in Hours |-> IF mark[h] = From(l) THEN rec[From(l)][h] ELSE {}]
                         ELSE rec[l]]
            /\ mark' = [h \in Hours |-> IF mark[h] \in LinesOf(i) THEN t[mark[h]] ELSE mark[h]]
    BY DEF CreditAndCopy
  <1>2. PICK to \in Injection(LinesOf(i), Unwritten) :
          LET From(l) == CHOOSE k \in LinesOf(i) : to[k] = l IN
            /\ status[j] = "none"
            /\ status' = [status EXCEPT ![i] = "CREDITED", ![j] = "DRAFT"]
            /\ on' = [l \in Lines |-> IF l \in Range(to) THEN j ELSE on[l]]
            /\ rec' = [l \in Lines |-> IF l \in Range(to)
                         THEN [h \in Hours |-> IF mark[h] = From(l) THEN rec[From(l)][h] ELSE {}]
                         ELSE rec[l]]
            /\ mark' = [h \in Hours |-> IF mark[h] \in LinesOf(i) THEN to[mark[h]] ELSE mark[h]]
    BY <1>0
  <1> DEFINE From(l) == CHOOSE k \in LinesOf(i) : to[k] = l
  <1>3. End(r) /\ UNCHANGED <<units, gone, partly, returned>>
    BY DEF CreditAndCopy
  <1>4. /\ \A k \in Lines : on[k] = i => to[k] \in Lines /\ on[to[k]] = NoInvoice
        /\ \A l \in Lines : l \in Range(to) <=> \E k \in Lines : on[k] = i /\ to[k] = l
        /\ \A k, m \in Lines : on[k] = i /\ on[m] = i /\ to[k] = to[m] => k = m
    BY DEF Injection, IsInjective, Range, LinesOf, Unwritten
  <1>5. \A k \in Lines : on[k] = i => From(to[k]) = k
    BY <1>4 DEF LinesOf
  <1>6. /\ i # j /\ status[j] = "none" /\ ~partly[j] /\ returned[j] = {} /\ j # NoInvoice
        /\ status'[i] = "CREDITED" /\ status'[j] = "DRAFT"
        /\ \A k \in Invoices \ {i, j} : status'[k] = status[k]
        /\ \A l \in Lines : on[l] # j
    BY <1>1, <1>2, BilledAssumption DEF TypeOK, NotReturned, LineOK
  <1>7. \A l \in Lines : on'[l] = IF l \in Range(to) THEN j ELSE on[l]
    BY <1>2
  <1>8. \A h \in Hours : mark'[h] = IF mark[h] \in Lines /\ on[mark[h]] = i THEN to[mark[h]] ELSE mark[h]
    BY <1>2 DEF LinesOf
  <1>9. ASSUME NEW k \in Lines, on[k] = i, NEW h \in Hours
        PROVE  rec'[to[k]][h] = IF mark[h] = k THEN rec[k][h] ELSE {}
    <2>1. to[k] \in Lines /\ to[k] \in Range(to) /\ From(to[k]) = k
      BY <1>4, <1>5, <1>9
    <2>2. \A l \in Lines : l \in Range(to) => rec'[l] = [g \in Hours |-> IF mark[g] = From(l) THEN rec[From(l)][g] ELSE {}]
      BY <1>2
    <2>3. rec'[to[k]] = [g \in Hours |-> IF mark[g] = k THEN rec[k][g] ELSE {}]
      <3> HIDE DEF From
      <3> QED BY <2>1, <2>2
    <2> QED BY <2>3
  <1>10. ASSUME NEW l \in Lines, l \notin Range(to) PROVE rec'[l] = rec[l]
    BY <1>2, <1>10
  <1>11. ASSUME NEW l \in Lines, l \in Range(to) PROVE on[l] = NoInvoice
    BY <1>4, <1>11
  <1> HIDE DEF From
  <1>12. TypeOK'
    <2>1. /\ on' \in [Lines -> Invoices \cup {NoInvoice}] /\ status' \in [Invoices -> {"none", "DRAFT", "ISSUED", "CREDITED"}]
      BY <1>2 DEF TypeOK
    <2>2. rec' \in [Lines -> [Hours -> SUBSET Units]]
      <3>1. ASSUME NEW l \in Lines PROVE rec'[l] \in [Hours -> SUBSET Units]
        <4>1. CASE l \notin Range(to)
          BY <1>10, <4>1 DEF TypeOK
        <4>2. CASE l \in Range(to)
          <5>1. From(l) \in Lines
            BY <1>4, <1>5, <4>2
          <5>2. rec'[l] = [h \in Hours |-> IF mark[h] = From(l) THEN rec[From(l)][h] ELSE {}]
            BY <1>2, <4>2 DEF From
          <5> QED BY <5>1, <5>2 DEF TypeOK
        <4> QED BY <4>1, <4>2
      <3>2. rec' = [l \in Lines |-> rec'[l]]
        BY <1>2
      <3> QED BY <3>1, <3>2
    <2>3. mark' \in [Hours -> Lines \cup {NoLine, Off}]
      BY <1>2, <1>4 DEF TypeOK, LinesOf
    <2> QED BY <1>3, <2>1, <2>2, <2>3, EndTyped DEF TypeOK, Request
  <1>13. ASSUME NEW q \in Requests \ {r}, req[q].pc = "hours" /\ req[q].op \in OnDraft \cup OnIssued
         PROVE  Untouched(req[q].inv)
    <2>1. req[q].inv \in Invoices \ {i, j}
      BY <1>1, <1>6, <1>13, Apart DEF Relies, OnDraft, OnIssued
    <2>2. ASSUME NEW l \in Lines PROVE on'[l] = req[q].inv <=> on[l] = req[q].inv
      BY <1>7, <1>11, <2>1, BilledAssumption
    <2>3. ASSUME NEW l \in Lines, on[l] = req[q].inv, NEW h \in Hours PROVE mark'[h] = l <=> mark[h] = l
      BY <1>4, <1>8, <2>1, <2>3, BilledAssumption
    <2> QED BY <1>3, <1>6, <2>1, <2>2, <2>3 DEF Untouched
  <1>14. (\A q \in Requests : Relies(q))' /\ Alone'
    BY <1>3, <1>13, EndRelies
  <1>15. NotReturned'
    BY <1>1, <1>3, <1>6 DEF NotReturned
  <1>16. ASSUME NEW l \in Lines PROVE LineOK(l)'
    <2>1. LineOK(l)
      OBVIOUS
    <2>2. CASE l \in Range(to)
      <3>1. PICK k \in Lines : on[k] = i /\ to[k] = l
        BY <1>4, <2>2
      <3>2. LineOK(k)
        OBVIOUS
      <3>3. \A h \in Hours : mark'[h] = l <=> mark[h] = k
        BY <1>4, <1>8, <1>11, <2>1, <2>2, <3>1, BilledAssumption DEF LineOK
      <3>4. \A h \in Hours : rec'[l][h] = rec[k][h]
        BY <1>1, <1>9, <3>1, <3>2 DEF LineOK
      <3>5. \A u : (Covers(l, u)' <=> Covers(k, u)) /\ (Carried(l, u)' <=> Carried(k, u))
        BY <1>3, <3>3, <3>4 DEF Covers, Carried
      <3>6. on'[l] = j /\ status'[j] = "DRAFT" /\ returned'[j] = {}
        BY <1>3, <1>6, <1>7, <2>2
      <3> QED BY <1>1, <1>3, <1>6, <3>1, <3>2, <3>3, <3>4, <3>5, <3>6 DEF LineOK
    <2>3. CASE on[l] = i
      <3>1. l \notin Range(to)
        BY <1>1, <1>11, <2>3
      <3>2. on'[l] = i /\ \A h \in Hours : rec'[l][h] = rec[l][h] /\ mark'[h] # l
        BY <1>1, <1>4, <1>7, <1>8, <1>10, <2>3, <3>1
      <3> QED BY <1>1, <1>3, <1>6, <2>1, <2>3, <3>2 DEF LineOK
    <2>4. CASE l \notin Range(to) /\ on[l] # i
      <3>1. on'[l] = on[l] /\ \A h \in Hours : rec'[l][h] = rec[l][h] /\ (mark'[h] = l <=> mark[h] = l)
        BY <1>4, <1>7, <1>8, <1>10, <2>4
      <3>2. on[l] # NoInvoice => on[l] \in Invoices \ {i, j}
        BY <1>6, <2>4 DEF TypeOK
      <3> QED BY <1>3, <1>6, <3>1, <3>2, KeepsLine
    <2> QED BY <2>2, <2>3, <2>4
  <1> QED BY <1>12, <1>14, <1>15, <1>16

(* Before anything is billed.                                               *)
LEMMA InitOK == Init => IInv
  <1> SUFFICES ASSUME Init PROVE IInv
    OBVIOUS
  <1> USE BilledAssumption DEF Init
  <1>1. Idle \in Request /\ Idle.pc = "idle" /\ Idle.held = {}
    BY Zenon DEF Idle, Request, Ops
  <1>2. TypeOK
    BY <1>1 DEF TypeOK, Request, NothingBilled
  <1>3. (\A r \in Requests : Relies(r)) /\ Alone
    BY <1>1 DEF Relies, Alone
  <1>4. ASSUME NEW l \in Lines PROVE LineOK(l)
    BY DEF LineOK, NothingBilled
  <1>5. NotReturned
    BY DEF NotReturned
  <1> QED BY <1>2, <1>3, <1>4, <1>5 DEF IInv

(* One step per action.                                                     *)
LEMMA StepOK == IInv /\ [Next]_vars => IInv'
  <1> SUFFICES ASSUME IInv, [Next]_vars PROVE IInv'
    OBVIOUS
  <1>1. ASSUME NEW r \in Requests, Ask(r) \/ AskOfDraft(r) \/ AskOfIssued(r) PROVE IInv'
    BY <1>1, AskOK
  <1>2. ASSUME NEW r \in Requests, AskToSplit(r) PROVE IInv'
    BY <1>2, AskToSplitOK
  <1>3. ASSUME NEW r \in Requests, HoldInvoice(r) PROVE IInv'
    BY <1>3, HoldInvoiceOK
  <1>4. ASSUME NEW r \in Requests, LockHour(r) PROVE IInv'
    BY <1>4, LockHourOK
  <1>5. ASSUME NEW r \in Requests, GiveUp(r) PROVE IInv'
    BY <1>5, GiveUpOK
  <1>6. ASSUME NEW r \in Requests, CreateInvoiceFromHours(r) PROVE IInv'
    <2>1. PICK i \in Invoices : status[i] = "none" /\ status' = [status EXCEPT ![i] = "DRAFT"] /\ PutOn(r, i)
      BY <1>6 DEF CreateInvoiceFromHours
    <2> QED BY <1>6, <2>1, PutOK DEF CreateInvoiceFromHours, Ready
  <1>7. ASSUME NEW r \in Requests, AddHoursToDraft(r) PROVE IInv'
    <2>1. req[r].pc = "hours" /\ req[r].inv \in Invoices /\ status[req[r].inv] = "DRAFT"
      BY <1>7 DEF AddHoursToDraft, Ready, IInv, Relies, OnDraft
    <2>2. status' = [status EXCEPT ![req[r].inv] = "DRAFT"]
      BY <1>7, <2>1 DEF AddHoursToDraft, IInv, TypeOK
    <2> QED BY <1>7, <2>1, <2>2, PutOK DEF AddHoursToDraft
  <1>8. ASSUME NEW r \in Requests, RemoveLine(r) PROVE IInv'
    BY <1>8, LeaveOK DEF RemoveLine, Ready, Leaving
  <1>9. ASSUME NEW r \in Requests, DeleteDraft(r) PROVE IInv'
    BY <1>9, LeaveOK DEF DeleteDraft, Ready, Leaving
  <1>10. ASSUME NEW r \in Requests, CreditPart(r) PROVE IInv'
    BY <1>10, CreditPartOK
  <1>11. ASSUME NEW r \in Requests, CreditWhole(r) PROVE IInv'
    BY <1>11, CreditWholeOK
  <1>12. ASSUME NEW r \in Requests, CreditAndCopy(r) PROVE IInv'
    BY <1>12, CopyOK
  <1>13. ASSUME NEW r \in Requests, ReturnHours(r) PROVE IInv'
    BY <1>13, ReturnOK
  <1>14. ASSUME NEW r \in Requests, MarkHours(r) \/ ClearHourMarks(r) PROVE IInv'
    BY <1>14, SetAsideOK
  <1>15. ASSUME NEW r \in Requests, SplitEntry(r) PROVE IInv'
    BY <1>15, SplitOK
  <1>16. CASE IssueInvoice
    BY <1>16, IssueOK
  <1>17. CASE DeleteEntry
    BY <1>17, DeleteEntryOK
  <1>18. CASE UNCHANGED vars
    BY <1>18 DEF vars, IInv, TypeOK, Relies, Alone, LineOK, Covers, Carried, NotReturned
  <1> QED BY <1>1, <1>2, <1>3, <1>4, <1>5, <1>6, <1>7, <1>8, <1>9, <1>10, <1>11, <1>12, <1>13, <1>14, <1>15,
             <1>16, <1>17, <1>18 DEF Next

(* The invariant holds throughout.                                          *)
LEMMA Invariance == Spec => []IInv
  BY InitOK, StepOK, PTL DEF Spec

-----------------------------------------------------------------------------
(* Every variable has its type, no two hours share time, and no hour is     *)
(* locked by two requests (SELECT ... FOR UPDATE in lockHours).             *)
THEOREM Typed == Spec => []TypeOK
  <1>1. IInv => TypeOK
    BY DEF IInv
  <1> QED BY <1>1, Invariance, PTL

(* The time of the hours marked on a live invoice is what its lines         *)
(* recorded and was not returned, and no hour stays on an invoice credited  *)
(* in full: whatever the writers of hours.ts, credit.ts and splitEntry do.  *)
THEOREM Accounted == Spec => []HoursAccounted
  <1>1. ASSUME IInv PROVE HoursAccounted
    <2> USE <1>1 DEF IInv
    <2>1. ASSUME NEW i \in Invoices, Live(i) PROVE Billed(i) = UNION {units[h] : h \in MarkedOn(LinesOf(i))}
      <3>1. status[i] # "CREDITED" /\ i # NoInvoice
        BY <2>1, BilledAssumption DEF Live
      <3>2. \A l \in Lines : on[l] = i => \A u \in Units : Covers(l, u) /\ u \notin returned[i] <=> Carried(l, u)
        BY <3>1 DEF LineOK
      <3>3. \A u : u \in Billed(i) <=> u \in Units /\ u \notin returned[i] /\ \E l \in Lines : on[l] = i /\ Covers(l, u)
        BY DEF Billed, LinesOf, Covers, TypeOK
      <3>4. \A u : u \in UNION {units[h] : h \in MarkedOn(LinesOf(i))}
                     <=> u \in Units /\ \E l \in Lines : on[l] = i /\ Carried(l, u)
        BY DEF MarkedOn, LinesOf, Carried, TypeOK
      <3> QED BY <3>2, <3>3, <3>4
    <2>2. ASSUME NEW h \in Hours, mark[h] \in Lines PROVE on[mark[h]] # NoInvoice /\ Live(on[mark[h]])
      <3>1. LineOK(mark[h])
        BY <2>2
      <3>2. on[mark[h]] # NoInvoice /\ on[mark[h]] \in Invoices
        BY <2>2, <3>1 DEF LineOK, TypeOK
      <3>3. status[on[mark[h]]] \notin {"none", "CREDITED"}
        BY <2>2, <3>1, <3>2 DEF LineOK
      <3> QED BY <3>2, <3>3 DEF Live, TypeOK
    <2> QED BY <2>1, <2>2 DEF HoursAccounted
  <1> QED BY <1>1, Invariance, PTL

(* No draft is ever refused at issue with INVOICE_HOURS_MISMATCH: every     *)
(* hour its lines recorded is marked on that line.                          *)
THEOREM NeverMismatched == Spec => []IssueNeverMismatched
  <1>1. IInv => IssueNeverMismatched
    <2> SUFFICES ASSUME IInv, NEW i \in Invoices, status[i] = "DRAFT", NEW l \in LinesOf(i), NEW h \in Hours,
                        rec[l][h] # {}
                 PROVE  mark[h] = l
      BY DEF IssueNeverMismatched, Matches
    <2> QED BY BilledAssumption DEF IInv, LinesOf, LineOK, NotReturned
  <1> QED BY <1>1, Invariance, PTL

-----------------------------------------------------------------------------
(* The locks are taken in an order. *)

(* A request holds hours only once its invoice is locked, and each before   *)
(* any it has still to lock.                                                *)
Ordered ==
  \A r \in Requests : /\ req[r].held # {} => req[r].pc = "hours"
                      /\ \A g \in req[r].held, h \in req[r].todo : g < h

(* Every step keeps the order.                                              *)
LEMMA OrderKept ==
  ASSUME TypeOK, Ordered, [Next]_vars
  PROVE  Ordered'
  <1>1. ASSUME NEW r \in Requests, NEW x, x.held = {}, req' = [req EXCEPT ![r] = x] PROVE Ordered'
    BY <1>1 DEF TypeOK, Ordered
  <1>2. Idle.held = {}
    BY DEF Idle
  <1>3. ASSUME NEW r \in Requests, End(r) PROVE Ordered'
    BY <1>1, <1>2, <1>3 DEF End
  <1>4. ASSUME NEW r \in Requests, NEW op, NEW i, NEW ls, NEW hs, Starts(r, op, i, ls, hs) PROVE Ordered'
    <2> DEFINE x == [Idle EXCEPT !.pc = "hours", !.op = op, !.inv = i, !.lines = ls, !.todo = hs]
    <2>1. x.held = {}
      BY DEF Idle
    <2>2. req' = [req EXCEPT ![r] = x]
      BY <1>4 DEF Starts
    <2> HIDE DEF x
    <2> QED BY <1>1, <2>1, <2>2
  <1>5. ASSUME NEW r \in Requests, Ask(r) \/ AskOfDraft(r) \/ AskOfIssued(r) PROVE Ordered'
    BY <1>4, <1>5 DEF Ask, AskOfDraft, AskOfIssued
  <1>6. ASSUME NEW r \in Requests, AskToSplit(r) PROVE Ordered'
    <2>1. PICK h \in Hours : req' = [req EXCEPT ![r] = [Idle EXCEPT !.pc = "invoice", !.op = "split", !.inv = InvoiceOf(mark[h]),
                                                 !.seen = mark[h], !.todo = {h}]]
      BY <1>6 DEF AskToSplit
    <2> DEFINE x == [Idle EXCEPT !.pc = "invoice", !.op = "split", !.inv = InvoiceOf(mark[h]), !.seen = mark[h], !.todo = {h}]
    <2>2. x.held = {}
      BY DEF Idle
    <2> HIDE DEF x
    <2> QED BY <1>1, <2>1, <2>2 DEF x
  <1>7. ASSUME NEW r \in Requests, HoldInvoice(r) PROVE Ordered'
    <2>1. req' = [req EXCEPT ![r].pc = "hours"]
      BY <1>7 DEF HoldInvoice
    <2> QED BY <2>1 DEF TypeOK, Ordered
  <1>8. ASSUME NEW r \in Requests, LockHour(r) PROVE Ordered'
    <2>1. PICK h \in NextHours(r) : req' = [req EXCEPT ![r].todo = @ \ {h}, ![r].held = @ \cup {h}]
      BY <1>8 DEF LockHour
    <2>2. h \in req[r].todo /\ \A g \in req[r].todo : h <= g
      BY DEF NextHours
    <2>3. req[r].todo \subseteq Hours /\ \A g \in Hours : g \in Int
      BY DEF TypeOK, Hours
    <2>4. /\ req'[r].todo = req[r].todo \ {h} /\ req'[r].held = req[r].held \cup {h} /\ req'[r].pc = "hours"
          /\ \A q \in Requests \ {r} : req'[q] = req[q]
      BY <1>8, <2>1 DEF TypeOK, LockHour
    <2>5. \A f \in req[r].todo \ {h} : h < f
      BY <2>2, <2>3
    <2> QED BY <2>2, <2>4, <2>5 DEF Ordered
  <1>9. ASSUME req' = req PROVE Ordered'
    BY <1>9 DEF Ordered
  <1> QED
    BY <1>3, <1>5, <1>6, <1>7, <1>8, <1>9
    DEF Next, vars, GiveUp, CreateInvoiceFromHours, AddHoursToDraft, RemoveLine, DeleteDraft, CreditPart, CreditWhole,
        CreditAndCopy, ReturnHours, MarkHours, ClearHourMarks, SplitEntry, IssueInvoice, DeleteEntry

(* Among hours there is an earliest and a latest.                           *)
LEMMA Earliest ==
  ASSUME NEW S \in SUBSET Hours, S # {}
  PROVE  \E m \in S : \A h \in S : m <= h
  <1>1. IsWellFoundedOn(OpToRel(<, Nat), Nat)
    BY NatLessThanWellFounded, Zenon
  <1>2. S \subseteq Nat /\ \A h \in S : h \in Int
    BY DEF Hours
  <1>3. PICK m \in S : \A h \in S : ~(<<h, m>> \in OpToRel(<, Nat))
    BY <1>1, <1>2, WFMin, Zenon
  <1>4. \A h \in S : ~(h < m)
    BY <1>2, <1>3 DEF OpToRel
  <1> QED BY <1>2, <1>4

LEMMA Latest ==
  ASSUME NEW S \in SUBSET Hours, S # {}
  PROVE  \E m \in S : \A h \in S : h <= m
  <1> DEFINE T == {LastHour - h : h \in S}
  <1>1. LastHour \in Nat /\ \A h \in S : h \in 1 .. LastHour
    BY BilledAssumption DEF Hours
  <1>2. T \subseteq Nat /\ T # {}
    BY <1>1
  <1>3. IsWellFoundedOn(OpToRel(<, Nat), Nat)
    BY NatLessThanWellFounded, Zenon
  <1>4. PICK n \in T : \A t \in T : ~(<<t, n>> \in OpToRel(<, Nat))
    <2> HIDE DEF T
    <2> QED BY <1>2, <1>3, WFMin, Zenon
  <1>5. PICK m \in S : n = LastHour - m
    BY <1>4
  <1>6. \A h \in S : ~(LastHour - h < LastHour - m)
    BY <1>1, <1>2, <1>4, <1>5 DEF OpToRel
  <1> QED BY <1>1, <1>6

(* Requests never wait on each other in a circle: who holds the latest hour *)
(* any of them holds waits for a later one, which nobody has.               *)
LEMMA SomeoneGoesOn == IInv /\ Ordered => NoDeadlock
  <1> SUFFICES ASSUME IInv, Ordered, UnderWay # {} PROVE \E r \in UnderWay : CanGoOn(r)
    BY DEF NoDeadlock
  <1> DEFINE Taken == UNION {req[r].held : r \in Requests}
  <1>1. /\ \A r \in Requests : req[r].pc \in {"idle", "invoice", "hours"} /\ req[r].todo \subseteq Hours
        /\ Taken \subseteq Hours
    BY DEF IInv, TypeOK
  <1>2. ASSUME NEW r \in Requests, req[r].pc = "hours", req[r].todo # {},
               \A h \in req[r].todo : (\A g \in req[r].todo : h <= g) => h \notin Taken
        PROVE  CanGoOn(r)
    <2>1. PICK h \in req[r].todo : \A g \in req[r].todo : h <= g
      BY <1>1, <1>2, Earliest
    <2>2. h \in NextHours(r) /\ HourFree(r, h)
      BY <1>2, <2>1 DEF NextHours, HourFree
    <2> QED BY <1>2, <2>2 DEF CanGoOn
  <1>3. CASE \A r \in Requests : req[r].pc # "hours"
    BY <1>1, <1>3 DEF UnderWay, CanGoOn, InvoiceFree, Holds
  <1>4. CASE \E r \in Requests : req[r].pc = "hours" /\ req[r].todo = {}
    BY <1>4 DEF UnderWay, CanGoOn
  <1>5. CASE Taken = {} /\ \E r \in Requests : req[r].pc = "hours" /\ req[r].todo # {}
    BY <1>2, <1>5 DEF UnderWay
  <1>6. CASE Taken # {} /\ \A r \in Requests : req[r].pc = "hours" => req[r].todo # {}
    <2>1. PICK m \in Taken : \A h \in Taken : h <= m
      <3> HIDE DEF Taken
      <3> QED BY <1>1, <1>6, Latest
    <2>2. PICK q \in Requests : m \in req[q].held
      BY <2>1
    <2>3. req[q].pc = "hours" /\ req[q].todo # {}
      BY <1>6, <2>2 DEF Ordered
    <2>4. \A h \in req[q].todo : h \notin Taken
      <3>1. \A h \in req[q].todo : m < h /\ h \in Int /\ m \in Int
        BY <1>1, <2>1, <2>2 DEF Ordered, Hours
      <3> QED BY <2>1, <3>1
    <2>5. CanGoOn(q)
      <3> HIDE DEF Taken
      <3> QED BY <1>2, <2>3, <2>4
    <2> QED BY <2>3, <2>5 DEF UnderWay
  <1> QED BY <1>3, <1>4, <1>5, <1>6

(* Locking the invoice first and the hours by id, whatever requests overlap *)
(* and wherever they stop, some request can always go on.                   *)
THEOREM NeverStuck == Spec => []NoDeadlock
  <1>1. Init => Ordered
    BY DEF Init, Ordered, Idle
  <1>2. IInv /\ Ordered /\ [Next]_vars => Ordered'
    BY OrderKept DEF IInv
  <1>3. Spec => []Ordered
    BY <1>1, <1>2, Invariance, PTL DEF Spec
  <1> QED BY <1>3, Invariance, SomeoneGoesOn, PTL

-----------------------------------------------------------------------------
(* The marks implement HourBook. *)

(* Time is where its hour is.                                               *)
LEMMA PlaceOfHour ==
  ASSUME TypeOK, NEW h \in Hours, NEW u \in units[h]
  PROVE  Place(u) = Where(h)
  <1>1. \A g \in Hours : u \in units[g] => g = h
    BY DEF TypeOK
  <1>2. (CHOOSE g \in Hours : u \in units[g]) = h
    BY <1>1
  <1> QED BY <1>2 DEF Place

(* Nobody's time is on the free list.                                       *)
LEMMA PlaceOfNone ==
  ASSUME NEW u, \A h \in Hours : u \notin units[h]
  PROVE  Place(u) = NoLine
  BY DEF Place

(* A step moves the time S to p and leaves all else where it was.           *)
LEMMA Moves ==
  ASSUME TypeOK, TypeOK', NEW S \in SUBSET Units, NEW p, units' = units,
         \A u \in S : \E h \in Hours : u \in units[h] /\ Where(h)' = p,
         \A h \in Hours : \A u \in units[h] \ S : Where(h)' = Where(h)
  PROVE  HB!To(S, p)
  <1>1. ASSUME NEW u \in Units PROVE Place(u)' = IF u \in S THEN p ELSE Place(u)
    <2>1. CASE \E h \in Hours : u \in units[h]
      <3>1. PICK h \in Hours : u \in units[h]
        BY <2>1
      <3>2. Place(u) = Where(h) /\ Place(u)' = Where(h)'
        <4>1. Place(u) = Where(h)
          BY <3>1, PlaceOfHour
        <4>2. \A g \in Hours : u \in units'[g] => g = h
          BY <3>1 DEF TypeOK
        <4>3. (CHOOSE g \in Hours : u \in units'[g]) = h
          BY <3>1, <4>2
        <4>4. Place(u)' = Where(h)'
          BY <3>1, <4>3 DEF Place
        <4> QED BY <4>1, <4>4
      <3>3. u \in S => Where(h)' = p
        BY <3>1 DEF TypeOK
      <3> QED BY <3>1, <3>2, <3>3
    <2>2. CASE ~\E h \in Hours : u \in units[h]
      BY <2>2, PlaceOfNone DEF Place
    <2> QED BY <2>1, <2>2
  <1> QED BY <1>1 DEF HB!To, places

(* The book as the invoices' rows tell it.                                  *)
LEMMA Becomes ==
  ASSUME TypeOK, TypeOK', NEW i \in Invoices, NEW b, Book(i)' = b,
         \A j \in Invoices \ {i} : status'[j] = status[j] /\ partly'[j] = partly[j]
  PROVE  HB!Becomes(i, b)
  <1>1. books' = [books EXCEPT ![i] = b]
    <2>1. \A j \in Invoices : books'[j] = IF j = i THEN b ELSE books[j]
      BY DEF books, Book
    <2> QED BY <2>1 DEF books
  <1> QED BY <1>1 DEF HB!Becomes

(* A marked hour is on a live invoice, and has time.                        *)
LEMMA MarkedLive ==
  ASSUME IInv, NEW h \in Hours, mark[h] \in Lines
  PROVE  on[mark[h]] \in Invoices /\ status[on[mark[h]]] \in {"DRAFT", "ISSUED"} /\ Where(h) = on[mark[h]]
  BY DEF IInv, TypeOK, LineOK, Where

(* An invoice that was never part credited is what its status says.         *)
LEMMA BookIsStatus ==
  ASSUME NotReturned, NEW i \in Invoices, status[i] # "ISSUED" \/ ~partly[i]
  PROVE  books[i] = status[i]
  BY DEF NotReturned, books, Book

(* Nothing moves.                                                           *)
LEMMA Stays ==
  ASSUME TypeOK, TypeOK', units' = units, \A h \in Hours : Where(h)' = Where(h)
  PROVE  UNCHANGED places
  <1>1. HB!To({}, NoLine)
    BY Moves
  <1> QED BY <1>1 DEF HB!To, places

(* Free hours go on a draft.                                                *)
LEMMA PutMaps ==
  ASSUME IInv, IInv', NEW r \in Requests, NEW i \in Invoices, PutOn(r, i), status[i] \in {"none", "DRAFT"},
         status' = [status EXCEPT ![i] = "DRAFT"]
  PROVE  HB!Put(i)
  <1> USE DEF IInv
  <1>0. PICK put \in SUBSET req[r].held : put # {} /\ \E g \in [put -> Unwritten] :
          /\ on' = [l \in Lines |-> IF l \in Range(g) THEN i ELSE on[l]]
          /\ mark' = [h \in Hours |-> IF h \in put THEN g[h] ELSE mark[h]]
    BY DEF PutOn, Some
  <1>1. PICK g \in [put -> Unwritten] :
          /\ on' = [l \in Lines |-> IF l \in Range(g) THEN i ELSE on[l]]
          /\ mark' = [h \in Hours |-> IF h \in put THEN g[h] ELSE mark[h]]
    BY <1>0
  <1>2. UNCHANGED <<units, gone, partly, returned>> /\ put \subseteq Hours
    BY DEF PutOn, TypeOK
  <1>3. \A h \in put : units[h] # {} /\ mark[h] = NoLine /\ g[h] \in Lines /\ on[g[h]] = NoInvoice
    BY DEF PutOn, LookAgain, StillReady, Unwritten
  <1> DEFINE S == UNION {units[h] : h \in put}
  <1>4. S \in SUBSET Units /\ S # {}
    BY <1>0, <1>2, <1>3 DEF TypeOK
  <1>5. \A h \in put : Where(h) = NoLine /\ Where(h)' = i
    <2>1. ASSUME NEW h \in put PROVE mark'[h] = g[h] /\ on'[g[h]] = i
      BY <1>1, <1>2, <1>3 DEF Range
    <2> QED BY <1>3, <2>1, BilledAssumption DEF Where
  <1>6. ASSUME NEW h \in Hours \ put PROVE Where(h)' = Where(h)
    <2>1. mark'[h] = mark[h]
      BY <1>1
    <2>2. CASE mark[h] \in Lines
      <3>1. on[mark[h]] # NoInvoice
        BY <2>2, MarkedLive, BilledAssumption
      <3>2. mark[h] \notin Range(g)
        BY <1>3, <3>1 DEF Range
      <3> QED BY <1>1, <2>1, <2>2, <3>2 DEF Where
    <2>3. CASE mark[h] \notin Lines
      BY <2>1, <2>3 DEF Where
    <2> QED BY <2>2, <2>3
  <1>7. HB!To(S, i)
    <2>1. \A u \in S : \E h \in Hours : u \in units[h] /\ Where(h)' = i
      BY <1>2, <1>5
    <2>2. \A h \in Hours : \A u \in units[h] \ S : Where(h)' = Where(h)
      BY <1>6
    <2> HIDE DEF S
    <2> QED BY <1>2, <1>4, <2>1, <2>2, Moves
  <1>8. S \subseteq HB!FreeOnes
    <2>1. \A h \in put : \A u \in units[h] : Place(u) = NoLine
      BY <1>2, <1>5, PlaceOfHour
    <2> QED BY <1>4, <2>1 DEF HB!FreeOnes, places
  <1>9. HB!Becomes(i, "DRAFT")
    <2>1. status'[i] = "DRAFT" /\ \A j \in Invoices \ {i} : status'[j] = status[j] /\ partly'[j] = partly[j]
      BY <1>2 DEF TypeOK
    <2> QED BY <2>1, Becomes DEF Book
  <1>10. books[i] \in {"none", "DRAFT"}
    BY BookIsStatus
  <1> QED
    <2> HIDE DEF S
    <2> QED BY <1>4, <1>7, <1>8, <1>9, <1>10 DEF HB!Put

(* Hours leave a draft.                                                     *)
LEMMA LeaveMaps ==
  ASSUME IInv, IInv', NEW r \in Requests, NEW i \in Invoices, req[r].inv = i,
         req[r].pc = "hours", req[r].op \in Leaving, req[r].todo = {},
         Freed(req[r].held), Dropped(req[r].lines), UNCHANGED <<units, gone, partly, returned>>,
         \/ status' = status
         \/ req[r].op = "discard" /\ status' = [status EXCEPT ![i] = "none"]
  PROVE  HB!TakeOff(i)
  <1> USE DEF IInv
  <1> DEFINE hs == req[r].held
             S  == UNION {units[h] : h \in hs}
             b  == IF status' = status THEN "DRAFT" ELSE "none"
  <1>1. /\ i \in Invoices /\ status[i] = "DRAFT" /\ hs \subseteq Hours
        /\ \A l \in req[r].lines : l \in Lines /\ on[l] = i
        /\ \A h \in Hours : h \in hs <=> mark[h] \in req[r].lines
        /\ status' # status => \A l \in Lines : on[l] = i => l \in req[r].lines
    BY DEF Relies, OnDraft, Leaving, TypeOK
  <1>2. /\ \A h \in hs : Where(h) = i /\ Where(h)' = NoLine
        /\ \A h \in Hours \ hs : Where(h)' = Where(h)
    BY <1>1, BilledAssumption DEF Freed, Dropped, Where, TypeOK
  <1>3. S \in SUBSET Units
    BY <1>1 DEF TypeOK
  <1>4. HB!To(S, NoLine)
    <2>1. \A u \in S : \E h \in Hours : u \in units[h] /\ Where(h)' = NoLine
      BY <1>1, <1>2
    <2>2. \A h \in Hours : \A u \in units[h] \ S : Where(h)' = Where(h)
      BY <1>1, <1>2
    <2> HIDE DEF S
    <2> QED BY <1>3, <2>1, <2>2, Moves
  <1>5. S \subseteq HB!On(i)
    <2>1. \A h \in hs : \A u \in units[h] : Place(u) = i
      BY <1>1, <1>2, PlaceOfHour
    <2> QED BY <1>3, <2>1 DEF HB!On, places
  <1>6. HB!Becomes(i, b)
    <2>1. status'[i] = b /\ \A j \in Invoices \ {i} : status'[j] = status[j] /\ partly'[j] = partly[j]
      BY <1>1 DEF TypeOK
    <2>2. b # "ISSUED"
      OBVIOUS
    <2> HIDE DEF b
    <2> QED BY <1>1, <2>1, <2>2, Becomes DEF Book
  <1>7. ASSUME b = "none", NEW u \in Units PROVE Place(u)' # i
    <2>1. status'[i] = "none"
      BY <1>1, <1>7 DEF TypeOK
    <2>2. ASSUME NEW h \in Hours PROVE Where(h)' # i
      <3>1. CASE mark'[h] \in Lines
        <4>1. status'[on'[mark'[h]]] \in {"DRAFT", "ISSUED"} /\ Where(h)' = on'[mark'[h]]
          BY <3>1 DEF TypeOK, LineOK, Where
        <4> QED BY <2>1, <4>1
      <3>2. CASE mark'[h] \notin Lines
        BY <1>1, <3>2, BilledAssumption DEF Where, TypeOK
      <3> QED BY <3>1, <3>2
    <2>3. CASE \E h \in Hours : u \in units'[h]
      <3>1. (CHOOSE h \in Hours : u \in units'[h]) \in Hours
        BY <2>3
      <3> QED BY <2>2, <2>3, <3>1 DEF Place
    <2>4. CASE ~\E h \in Hours : u \in units'[h]
      BY <1>1, <2>4, BilledAssumption DEF Place
    <2> QED BY <2>3, <2>4
  <1>8. b = "none" => HB!On(i)' = {}
    <2>1. ASSUME b = "none", NEW u \in Units PROVE places'[u] # i
      BY <1>7, <2>1 DEF places
    <2> QED BY <2>1 DEF HB!On
  <1>9. books[i] = "DRAFT" /\ b \in {"DRAFT", "none"}
    BY <1>1, BookIsStatus
  <1> QED
    <2> HIDE DEF S, b
    <2> QED BY <1>4, <1>5, <1>6, <1>8, <1>9 DEF HB!TakeOff

(* The draft is issued.                                                     *)
LEMMA IssueMaps ==
  ASSUME IInv, IInv', IssueInvoice
  PROVE  \E i \in Invoices : HB!Issue(i)
  <1> USE DEF IInv
  <1>1. PICK i \in Invoices : status[i] = "DRAFT" /\ status' = [status EXCEPT ![i] = "ISSUED"]
    BY DEF IssueInvoice, OpenDraft
  <1>2. UNCHANGED <<units, mark, on, partly>>
    BY DEF IssueInvoice, hours
  <1>3. UNCHANGED places
    BY <1>2, Stays DEF Where
  <1>4. ~partly[i]
    BY <1>1 DEF NotReturned
  <1>5. HB!Becomes(i, "ISSUED")
    <2>1. Book(i)' = "ISSUED" /\ \A j \in Invoices \ {i} : status'[j] = status[j] /\ partly'[j] = partly[j]
      BY <1>1, <1>2, <1>4 DEF TypeOK, Book
    <2> QED BY <2>1, Becomes
  <1>6. books[i] = "DRAFT"
    BY <1>1, BookIsStatus
  <1> QED BY <1>3, <1>5, <1>6 DEF HB!Issue

(* A part of an invoice is credited.                                        *)
LEMMA CreditPartMaps ==
  ASSUME IInv, IInv', NEW r \in Requests, CreditPart(r)
  PROVE  \E i \in Invoices : HB!CreditPart(i)
  <1> USE DEF IInv
  <1>1. PICK i \in Invoices : i = req[r].inv /\ status[i] = "ISSUED"
    BY DEF CreditPart, Ready, Relies, OnIssued
  <1>2. partly' = [partly EXCEPT ![i] = TRUE] /\ UNCHANGED <<units, mark, gone, on, rec, status, returned>>
    BY <1>1 DEF CreditPart, hours
  <1>3. UNCHANGED places
    BY <1>2, Stays DEF Where
  <1>4. HB!Becomes(i, "PARTLY")
    <2>1. Book(i)' = "PARTLY" /\ \A j \in Invoices \ {i} : status'[j] = status[j] /\ partly'[j] = partly[j]
      BY <1>1, <1>2 DEF TypeOK, Book
    <2> QED BY <2>1, Becomes
  <1>5. books[i] \in {"ISSUED", "PARTLY"}
    BY <1>1 DEF books, Book
  <1> QED BY <1>3, <1>4, <1>5 DEF HB!CreditPart

(* What an invoice bills is what is placed on it.                           *)
LEMMA OnInvoice ==
  ASSUME TypeOK, NEW i \in Invoices
  PROVE  HB!On(i) = UNION {units[h] : h \in {g \in Hours : Where(g) = i}}
  <1>1. ASSUME NEW u \in HB!On(i) PROVE \E h \in Hours : Where(h) = i /\ u \in units[h]
    <2>1. u \in Units /\ Place(u) = i
      BY DEF HB!On, places
    <2>2. PICK h \in Hours : u \in units[h]
      BY <2>1, PlaceOfNone, BilledAssumption
    <2> QED BY <2>1, <2>2, PlaceOfHour
  <1>2. ASSUME NEW h \in Hours, Where(h) = i, NEW u \in units[h] PROVE u \in HB!On(i)
    BY <1>2, PlaceOfHour DEF HB!On, places, TypeOK
  <1> QED BY <1>1, <1>2

(* What is left of an invoice is credited: its time is free.                *)
LEMMA CreditWholeMaps ==
  ASSUME IInv, IInv', NEW r \in Requests, CreditWhole(r)
  PROVE  \E i \in Invoices : HB!Credit(i)
  <1> USE DEF IInv
  <1>1. PICK i \in Invoices : i = req[r].inv /\ status[i] = "ISSUED"
    BY DEF CreditWhole, Ready, Relies, OnIssued
  <1>2. /\ status' = [status EXCEPT ![i] = "CREDITED"] /\ partly' = [partly EXCEPT ![i] = FALSE]
        /\ Freed(FreedByCredit(i)) /\ UNCHANGED <<units, gone, on, rec>>
    BY <1>1 DEF CreditWhole
  <1>3. ASSUME NEW h \in Hours PROVE Where(h)' = IF Where(h) = i THEN NoLine ELSE Where(h)
    <2>1. mark'[h] = IF mark[h] \in Lines /\ on[mark[h]] = i THEN NoLine ELSE mark[h]
      BY <1>2 DEF Freed, FreedByCredit, MarkedOn, LinesOf
    <2> QED BY <1>2, <2>1, BilledAssumption DEF Where, TypeOK
  <1> DEFINE S == UNION {units[h] : h \in {g \in Hours : Where(g) = i}}
  <1>4. S \in SUBSET Units /\ S = HB!On(i)
    BY OnInvoice DEF TypeOK
  <1>5. HB!To(S, NoLine)
    <2>1. \A u \in S : \E h \in Hours : u \in units[h] /\ Where(h)' = NoLine
      BY <1>3
    <2>2. \A h \in Hours : \A u \in units[h] \ S : Where(h)' = Where(h)
      BY <1>3
    <2> HIDE DEF S
    <2> QED BY <1>2, <1>4, <2>1, <2>2, Moves
  <1>6. HB!Becomes(i, "CREDITED")
    <2>1. Book(i)' = "CREDITED" /\ \A j \in Invoices \ {i} : status'[j] = status[j] /\ partly'[j] = partly[j]
      BY <1>1, <1>2 DEF TypeOK, Book
    <2> QED BY <2>1, Becomes
  <1>7. books[i] \in {"ISSUED", "PARTLY"}
    BY <1>1 DEF books, Book
  <1>8. HB!To(HB!On(i), NoLine)
    BY <1>4, <1>5
  <1> QED BY <1>6, <1>7, <1>8 DEF HB!Credit

(* The corrected copy bills what the original did.                          *)
LEMMA CopyMaps ==
  ASSUME IInv, IInv', NEW r \in Requests, CreditAndCopy(r)
  PROVE  \E i, j \in Invoices : HB!Correct(i, j)
  <1> USE DEF IInv
  <1>1. PICK i \in Invoices : i = req[r].inv /\ status[i] = "ISSUED" /\ ~partly[i]
    BY DEF CreditAndCopy, Copyable, Ready, Relies, OnIssued
  <1>0. PICK j \in Invoices : \E t \in Injection(LinesOf(req[r].inv), Unwritten) :
          LET From(l) == CHOOSE k \in LinesOf(req[r].inv) : t[k] = l IN
            /\ status[j] = "none"
            /\ status' = [status EXCEPT ![req[r].inv] = "CREDITED", ![j] = "DRAFT"]
            /\ on' = [l \in Lines |-> IF l \in Range(t) THEN j ELSE on[l]]
            /\ rec' = [l \in Lines |-> IF l \in Range(t)
                         THEN [h \in Hours |-> IF mark[h] = From(l) THEN rec[From(l)][h] ELSE {}]
                         ELSE rec[l]]
            /\ mark' = [h \in Hours |-> IF mark[h] \in LinesOf(req[r].inv) THEN t[mark[h]] ELSE mark[h]]
    BY DEF CreditAndCopy
  <1>2. PICK t \in Injection(LinesOf(req[r].inv), Unwritten) :
          LET From(l) == CHOOSE k \in LinesOf(req[r].inv) : t[k] = l IN
            /\ status[j] = "none"
            /\ status' = [status EXCEPT ![req[r].inv] = "CREDITED", ![j] = "DRAFT"]
            /\ on' = [l \in Lines |-> IF l \in Range(t) THEN j ELSE on[l]]
            /\ rec' = [l \in Lines |-> IF l \in Range(t)
                         THEN [h \in Hours |-> IF mark[h] = From(l) THEN rec[From(l)][h] ELSE {}]
                         ELSE rec[l]]
            /\ mark' = [h \in Hours |-> IF mark[h] \in LinesOf(req[r].inv) THEN t[mark[h]] ELSE mark[h]]
    BY <1>0
  <1>3. /\ t \in Injection(LinesOf(i), Unwritten)
        /\ status[j] = "none"
        /\ status' = [status EXCEPT ![i] = "CREDITED", ![j] = "DRAFT"]
        /\ on' = [l \in Lines |-> IF l \in Range(t) THEN j ELSE on[l]]
        /\ mark' = [h \in Hours |-> IF mark[h] \in LinesOf(i) THEN t[mark[h]] ELSE mark[h]]
    BY <1>1, <1>2
  <1>4. UNCHANGED <<units, gone, partly>>
    BY DEF CreditAndCopy
  <1>5. /\ \A k \in Lines : on[k] = i => t[k] \in Lines /\ t[k] \in Range(t)
        /\ \A l \in Lines : l \in Range(t) => on[l] = NoInvoice
    BY <1>3 DEF Injection, IsInjective, Range, LinesOf, Unwritten
  <1>6. ASSUME NEW h \in Hours PROVE Where(h)' = IF Where(h) = i THEN j ELSE Where(h)
    <2>1. CASE mark[h] \in Lines /\ on[mark[h]] = i
      <3>1. mark'[h] = t[mark[h]] /\ on'[t[mark[h]]] = j /\ t[mark[h]] \in Lines
        BY <1>3, <1>5, <2>1 DEF LinesOf
      <3> QED BY <2>1, <3>1 DEF Where
    <2>2. CASE mark[h] \in Lines /\ on[mark[h]] # i
      <3>1. on[mark[h]] # NoInvoice
        BY <2>2, MarkedLive, BilledAssumption
      <3>2. mark'[h] = mark[h] /\ on'[mark[h]] = on[mark[h]]
        BY <1>3, <1>5, <2>2, <3>1 DEF LinesOf
      <3> QED BY <2>2, <3>2 DEF Where
    <2>3. CASE mark[h] \notin Lines
      <3>1. mark'[h] = mark[h] /\ mark[h] # i
        BY <1>3, <2>3, BilledAssumption DEF LinesOf, TypeOK
      <3> QED BY <2>3, <3>1 DEF Where
    <2> QED BY <2>1, <2>2, <2>3
  <1> DEFINE S == UNION {units[h] : h \in {g \in Hours : Where(g) = i}}
  <1>7. S \in SUBSET Units /\ S = HB!On(i)
    BY OnInvoice DEF TypeOK
  <1>8. HB!To(S, j)
    <2>1. \A u \in S : \E h \in Hours : u \in units[h] /\ Where(h)' = j
      BY <1>6
    <2>2. \A h \in Hours : \A u \in units[h] \ S : Where(h)' = Where(h)
      BY <1>6
    <2> HIDE DEF S
    <2> QED BY <1>4, <1>7, <2>1, <2>2, Moves
  <1>9. books' = [books EXCEPT ![i] = "CREDITED", ![j] = "DRAFT"]
    <2>1. \A k \in Invoices : books'[k] = IF k = j THEN "DRAFT" ELSE IF k = i THEN "CREDITED" ELSE books[k]
      BY <1>1, <1>3, <1>4 DEF books, Book, TypeOK
    <2> QED BY <2>1 DEF books
  <1>10. books[i] = "ISSUED" /\ books[j] = "none"
    BY <1>1, <1>3, BookIsStatus
  <1>11. HB!To(HB!On(i), j)
    BY <1>7, <1>8
  <1> QED BY <1>9, <1>10, <1>11 DEF HB!Correct

(* Hours of a partly credited invoice go back to the free list.             *)
LEMMA ReturnMaps ==
  ASSUME IInv, IInv', NEW r \in Requests, ReturnHours(r)
  PROVE  (\E i \in Invoices : HB!Return(i)) \/ UNCHANGED HB!vars
  <1> USE DEF IInv
  <1>1. PICK i \in Invoices : i = req[r].inv /\ status[i] = "ISSUED" /\ partly[i]
    BY DEF ReturnHours, Ready, Relies, OnIssued
  <1> DEFINE hs == req[r].held
             S  == UNION {units[h] : h \in hs}
  <1>2. Freed(hs) /\ UNCHANGED <<units, gone, on, rec, status, partly>> /\ hs \subseteq Hours
    BY DEF ReturnHours, TypeOK
  <1>3. \A h \in hs : mark[h] \in Lines /\ on[mark[h]] = i
    BY <1>1 DEF ReturnHours, MarkedOn, LinesOf
  <1>4. /\ \A h \in hs : Where(h) = i /\ Where(h)' = NoLine
        /\ \A h \in Hours \ hs : Where(h)' = Where(h)
    BY <1>2, <1>3, BilledAssumption DEF Freed, Where, TypeOK
  <1>5. S \in SUBSET Units
    BY <1>2 DEF TypeOK
  <1>6. HB!To(S, NoLine)
    <2>1. \A u \in S : \E h \in Hours : u \in units[h] /\ Where(h)' = NoLine
      BY <1>2, <1>4
    <2>2. \A h \in Hours : \A u \in units[h] \ S : Where(h)' = Where(h)
      BY <1>4
    <2> HIDE DEF S
    <2> QED BY <1>2, <1>5, <2>1, <2>2, Moves
  <1>7. S \subseteq HB!On(i)
    <2>1. \A h \in hs : \A u \in units[h] : Place(u) = i
      BY <1>2, <1>4, PlaceOfHour
    <2> QED BY <1>5, <2>1 DEF HB!On, places
  <1>8. books[i] = "PARTLY" /\ UNCHANGED books
    BY <1>1, <1>2 DEF books, Book
  <1>9. CASE S = {}
    BY <1>6, <1>8, <1>9 DEF HB!To, HB!vars, places
  <1>10. CASE S # {}
    <2> HIDE DEF S
    <2> QED BY <1>6, <1>7, <1>8, <1>10 DEF HB!Return
  <1> QED BY <1>9, <1>10

(* Hours go off the list, or back on it.                                    *)
LEMMA AsideMaps ==
  ASSUME IInv, IInv', NEW r \in Requests, MarkHours(r) \/ ClearHourMarks(r)
  PROVE  HB!SetAside \/ HB!BringBack
  <1> USE DEF IInv
  <1> DEFINE hs == req[r].held
             S  == UNION {units[h] : h \in hs}
  <1>1. UNCHANGED <<units, gone, on, rec, status, partly>> /\ hs \subseteq Hours
    BY DEF MarkHours, ClearHourMarks, TypeOK
  <1>2. S \in SUBSET Units
    BY <1>1 DEF TypeOK
  <1>3. UNCHANGED books
    BY <1>1 DEF books, Book
  <1>4. ASSUME NEW a, NEW b, \A h \in hs : Where(h) = a /\ Where(h)' = b, \A h \in Hours \ hs : Where(h)' = Where(h)
        PROVE  HB!To(S, b) /\ \A u \in S : places[u] = a
    <2>1. HB!To(S, b)
      <3>1. \A u \in S : \E h \in Hours : u \in units[h] /\ Where(h)' = b
        BY <1>1, <1>4
      <3>2. \A h \in Hours : \A u \in units[h] \ S : Where(h)' = Where(h)
        BY <1>4
      <3> HIDE DEF S
      <3> QED BY <1>1, <1>2, <3>1, <3>2, Moves
    <2>2. \A h \in hs : \A u \in units[h] : Place(u) = a
      BY <1>1, <1>4, PlaceOfHour
    <2>3. \A u \in S : places[u] = a
      BY <1>2, <2>2 DEF places
    <2> QED BY <2>1, <2>3
  <1>5. CASE MarkHours(r)
    <2>1. \A h \in hs : Where(h) = NoLine /\ Where(h)' = Off
      BY <1>1, <1>5, BilledAssumption DEF MarkHours, LookAgain, StillReady, Where
    <2>2. \A h \in Hours \ hs : Where(h)' = Where(h)
      BY <1>1, <1>5 DEF MarkHours, Where
    <2>3. HB!To(S, Off) /\ \A u \in S : places[u] = NoLine
      BY <1>4, <2>1, <2>2
    <2> QED
      <3> HIDE DEF S
      <3> QED BY <1>2, <1>3, <2>3 DEF HB!SetAside, HB!FreeOnes
  <1>6. CASE ClearHourMarks(r)
    <2>1. \A h \in hs : Where(h) = Off /\ Where(h)' = NoLine
      BY <1>1, <1>6, BilledAssumption DEF ClearHourMarks, Freed, Where
    <2>2. \A h \in Hours \ hs : Where(h)' = Where(h)
      BY <1>1, <1>6 DEF ClearHourMarks, Freed, Where
    <2>3. HB!To(S, NoLine) /\ \A u \in S : places[u] = Off
      BY <1>4, <2>1, <2>2
    <2> QED
      <3> HIDE DEF S
      <3> QED BY <1>2, <1>3, <2>3 DEF HB!BringBack, HB!On
  <1> QED BY <1>5, <1>6

(* The two halves of a split stay where the hour was.                       *)
LEMMA SplitMaps ==
  ASSUME IInv, IInv', NEW r \in Requests, SplitEntry(r)
  PROVE  UNCHANGED HB!vars
  <1> USE DEF IInv
  <1>0. PICK h \in Hours, second \in Hours :
          /\ units[second] = {}
          /\ \E part \in Some(units[h]) : part # units[h] /\ units' = [units EXCEPT ![h] = @ \ part, ![second] = part]
          /\ mark' = [mark EXCEPT ![second] = mark[h]]
    <2>1. req[r].held \subseteq Hours
      BY DEF TypeOK
    <2> QED BY <2>1 DEF SplitEntry, SecondMark
  <1>1. PICK part \in Some(units[h]) : part # units[h] /\ units' = [units EXCEPT ![h] = @ \ part, ![second] = part]
    BY <1>0
  <1>2. UNCHANGED <<gone, on, rec, status, partly, returned>>
    BY DEF SplitEntry
  <1>3. part \subseteq units[h] /\ h # second
    BY <1>0, <1>1 DEF Some
  <1>4. /\ units'[h] = units[h] \ part /\ units'[second] = part
        /\ \A g \in Hours \ {h, second} : units'[g] = units[g] /\ Where(g)' = Where(g)
        /\ Where(h)' = Where(h) /\ Where(second)' = Where(h)
    <2>1. /\ units'[h] = units[h] \ part /\ units'[second] = part
          /\ \A g \in Hours \ {h, second} : units'[g] = units[g]
      BY <1>1, <1>3 DEF TypeOK
    <2>2. mark'[second] = mark[h] /\ \A g \in Hours \ {second} : mark'[g] = mark[g]
      BY <1>0 DEF TypeOK
    <2> QED BY <1>2, <1>3, <2>1, <2>2 DEF Where
  <1>5. ASSUME NEW u \in Units PROVE Place(u)' = Place(u)
    <2>1. ASSUME NEW g \in Hours, NEW k \in Hours, u \in units[g], u \in units'[k], Where(k)' = Where(g)
          PROVE  Place(u)' = Place(u)
      <3>1. Place(u) = Where(g)
        BY <2>1, PlaceOfHour
      <3>2. \A f \in Hours : u \in units'[f] => f = k
        BY <2>1 DEF TypeOK
      <3>3. (CHOOSE f \in Hours : u \in units'[f]) = k
        BY <2>1, <3>2
      <3>4. Place(u)' = Where(k)'
        BY <2>1, <3>3 DEF Place
      <3> QED BY <2>1, <3>1, <3>4
    <2>2. CASE u \in part
      BY <1>3, <1>4, <2>1, <2>2
    <2>3. CASE u \in units[h] \ part
      BY <1>4, <2>1, <2>3
    <2>4. CASE \E g \in Hours \ {h, second} : u \in units[g]
      BY <1>4, <2>1, <2>4
    <2>5. CASE \A g \in Hours : u \notin units[g]
      <3>1. \A g \in Hours : u \notin units'[g]
        BY <1>3, <1>4, <2>5
      <3> QED BY <2>5, <3>1 DEF Place
    <2> QED BY <1>0, <2>2, <2>3, <2>4, <2>5
  <1>6. UNCHANGED places
    BY <1>5 DEF places
  <1>7. UNCHANGED books
    BY <1>2 DEF books, Book
  <1> QED BY <1>6, <1>7 DEF HB!vars

(* Each step is one of the book's, or leaves it alone.                      *)
LEMMA StepMaps ==
  ASSUME IInv, IInv', [Next]_vars
  PROVE  [HB!Next]_(HB!vars)
  <1> USE DEF IInv
  <1>1. CASE UNCHANGED <<units, mark, on, status, partly>>
    <2>1. UNCHANGED places
      BY <1>1, Stays DEF Where
    <2> QED BY <1>1, <2>1 DEF HB!vars, books, Book
  <1>2. ASSUME NEW r \in Requests, CreateInvoiceFromHours(r) \/ AddHoursToDraft(r)
        PROVE  \E i \in Invoices : HB!Put(i)
    <2>1. CASE CreateInvoiceFromHours(r)
      BY <2>1, PutMaps DEF CreateInvoiceFromHours
    <2>2. CASE AddHoursToDraft(r)
      <3>1. PICK i \in Invoices : i = req[r].inv /\ status[i] = "DRAFT"
        BY <2>2 DEF AddHoursToDraft, Ready, Relies, OnDraft
      <3>2. status' = [status EXCEPT ![i] = "DRAFT"]
        BY <2>2, <3>1 DEF AddHoursToDraft, TypeOK
      <3>3. PutOn(r, i)
        BY <2>2, <3>1 DEF AddHoursToDraft
      <3> QED BY <3>1, <3>2, <3>3, PutMaps
    <2> QED BY <1>2, <2>1, <2>2
  <1>3. ASSUME NEW r \in Requests, RemoveLine(r) \/ DeleteDraft(r)
        PROVE  \E i \in Invoices : HB!TakeOff(i)
    <2>1. PICK i \in Invoices : i = req[r].inv
      BY <1>3 DEF RemoveLine, DeleteDraft, Ready, Relies, OnDraft
    <2>2. HB!TakeOff(i)
      BY <1>3, <2>1, LeaveMaps DEF RemoveLine, DeleteDraft, Ready, Leaving
    <2> QED BY <2>2
  <1>4. ASSUME NEW r \in Requests, Ask(r) \/ AskOfDraft(r) \/ AskOfIssued(r) \/ AskToSplit(r) \/ HoldInvoice(r) \/ LockHour(r) \/ GiveUp(r)
        PROVE  UNCHANGED <<units, mark, on, status, partly>>
    BY <1>4 DEF Ask, AskOfDraft, AskOfIssued, Starts, AskToSplit, HoldInvoice, LockHour, GiveUp, hours
  <1>5. CASE DeleteEntry \/ UNCHANGED vars
    BY <1>1, <1>5 DEF DeleteEntry, vars
  <1> QED
    BY <1>1, <1>2, <1>3, <1>4, <1>5, IssueMaps, CreditPartMaps, CreditWholeMaps, CopyMaps, ReturnMaps, AsideMaps, SplitMaps
    DEF Next, HB!Next

(* Before anything is billed all time is free and no invoice is there.      *)
LEMMA InitMaps == Init => HB!Init
  <1> SUFFICES ASSUME Init PROVE HB!Init
    OBVIOUS
  <1>1. \A h \in Hours : Where(h) = NoLine
    BY BilledAssumption DEF Init, Where
  <1>2. ASSUME NEW u \in Units PROVE Place(u) = NoLine
    <2>1. CASE \E h \in Hours : u \in units[h]
      <3>1. (CHOOSE h \in Hours : u \in units[h]) \in Hours
        BY <2>1
      <3> QED BY <1>1, <2>1, <3>1 DEF Place
    <2>2. CASE ~\E h \in Hours : u \in units[h]
      BY <2>2 DEF Place
    <2> QED BY <2>1, <2>2
  <1>3. \A i \in Invoices : Book(i) = "none"
    BY DEF Init, Book
  <1> QED BY <1>2, <1>3 DEF HB!Init, places, books

(* Whatever overlaps, splits or gives up, the marks and the statuses are a  *)
(* book of hours: an issued invoice lets go of its time by a credit only,   *)
(* and a draft takes free time only.                                        *)
THEOREM Implements == Spec => ImplementsHourBook
  BY InitMaps, StepMaps, Invariance, PTL DEF Spec, ImplementsHourBook, HB!Spec
=============================================================================
