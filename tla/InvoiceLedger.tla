---------------------------- MODULE InvoiceLedger ----------------------------
(***************************************************************************)
(* Issuing and crediting invoices (src/src/modules/invoicing: issue.ts,    *)
(* credit.ts, series.ts, drafts.ts, send.ts, with the guards of the        *)
(* database).                                                              *)
(*                                                                         *)
(* A transaction that locks more than one row is a sequence of steps of a  *)
(* `slot', whose locks are what its place in the sequence says; a          *)
(* transaction that locks one row is one step, taken when nobody else      *)
(* holds the row.  Nothing a slot has done is seen by others before it     *)
(* commits.  Every refusal, lock timeout, deadlock or lost connection is   *)
(* Abort: the transaction leaves no trace.                                 *)
(***************************************************************************)
EXTENDS Integers, FiniteSets, Functions

CONSTANTS
  Invoices,    \* ids of invoices and credit notes, of one client
  Slots,       \* requests that may be under way together
  Rates,       \* VAT rates, in percent
  Nets,        \* bound: what a draft's lines at each rate may net to
  Currencies,  \* with "SEK", in which the books are kept
  Periods,     \* bound: the last day of a draft's work period
  Today,       \* the day of the whole behaviour
  Texts,       \* bound: the wordings of a draft's other printed details
  Details,     \* bound: the wordings of the client's printed details
  Firsts       \* bound: the first numbers that may be typed

NoInvoice == "none"

ASSUME LedgerAssumption ==
  /\ NoInvoice \notin Invoices
  /\ Rates \subseteq Nat /\ IsFiniteSet(Rates)
  /\ Nets \in [Rates -> SUBSET Int]
  /\ "SEK" \in Currencies
  /\ Periods \subseteq Nat /\ Today \in Nat
  /\ Texts # {} /\ Details # {} /\ Periods # {}
  /\ Firsts \subseteq Nat \ {0}

VARIABLES
  series,  \* the one numbering series: its first and its next number
  client,  \* what the client's row would print
  inv,     \* the table invoice, each row with its lines as a net per rate
  slot     \* requests under way

vars == <<series, client, inv, slot>>

Open     == {"ISSUED", "SENT", "PAID"}
Issued   == Open \cup {"CREDITED"}
Statuses == Issued \cup {"ABSENT", "DRAFT"}
Kinds    == {"INVOICE", "CREDIT_NOTE"}

(* Lines, as far as the ledger tells them apart: the rates that have one,   *)
(* and what they net to there.                                              *)
Lines   == [rates: SUBSET Rates, net: [Rates -> Int]]
NoLines == [rates |-> {}, net |-> [r \in Rates |-> 0]]
Terms == [currency: Currencies, period: Periods]

(* An exchange rate fetched: for the VAT in kronor, for the books, or none. *)
FxRate == [why: {"none", "vat", "book"}, currency: Currencies, day: Nat]
NoRate == [why |-> "none", currency |-> "SEK", day |-> 0]

Invoice ==
  [status: Statuses, kind: Kinds, of: Invoices \cup {NoInvoice}, terms: Terms, text: Texts,
   lines: Lines, number: Nat, buyer: Details, fx: FxRate, sent: BOOLEAN]

(* What the issuer looked at: everything the document will print.           *)
Seen == [terms: Terms, text: Texts, lines: Lines, buyer: Details]

Places == {"idle", "looked", "fetched", "held", "locked", "checked", "numbered"}

Slot ==
  [at: Places, act: {"issue", "full"}, doc: Invoices \cup {NoInvoice},
   of: Invoices \cup {NoInvoice}, copy: Invoices \cup {NoInvoice},
   seen: Seen, fx: FxRate, number: Nat]

-----------------------------------------------------------------------------
(* Money *)

RoundHalfAway(n, d) ==
  IF n >= 0 THEN (2 * n + d) \div (2 * d) ELSE - ((d - 2 * n) \div (2 * d))

VatOn(net, rate) == RoundHalfAway(net * rate, 100)

Vat(net)   == SumFunction([r \in Rates |-> VatOn(net[r], r)])
Total(net) == Vat(net) + SumFunction(net)

Within(x, n) == (0 <= x /\ x <= n) \/ (n <= x /\ x <= 0)

IssuedNotes(o) ==
  {i \in Invoices : inv[i].kind = "CREDIT_NOTE" /\ inv[i].of = o /\ inv[i].status \in Issued}

(* Mutant of Credited: a credit note that was sent counts no more. *)
CreditedUnsent(o, r) ==
  SumFunction([i \in {j \in IssuedNotes(o) : inv[j].status = "ISSUED"} |-> inv[i].lines.net[r]])

(* readCreditedNets: what the issued credit notes of o credit at a rate.    *)
Credited(o, r) == SumFunction([i \in IssuedNotes(o) |-> inv[i].lines.net[r]])

(* Mutant of CreditFits: what was credited before is not counted. *)
CreditFitsAlone(o, l) ==
  l.rates \subseteq inv[o].lines.rates /\ \A r \in Rates : Within(l.net[r], inv[o].lines.net[r])

(* creditOverRates, and invoice_credit_within for an issue: l may be        *)
(* credited of o, at every rate and signed.                                 *)
CreditFits(o, l) ==
  /\ l.rates \subseteq inv[o].lines.rates
  /\ \A r \in Rates :
       LET all == inv[o].lines.net[r]
       IN  Within(l.net[r], all) /\ Within(Credited(o, r) + l.net[r], all)

Left(o, l) == [r \in Rates |-> inv[o].lines.net[r] - Credited(o, r) - l.net[r]]

(* Mutant of LeavesNegative: only a rest below zero. *)
LeavesBelowZero(o, l) == Total(Left(o, l)) < 0

(* creditLeavesNegative: what would be left, no credit note could take.     *)
LeavesNegative(o, l) == (\E r \in Rates : Left(o, l)[r] # 0) /\ Total(Left(o, l)) <= 0

(* Mutant of Covers: the rates are summed. *)
CoversInSum(o, l) == SumFunction(Left(o, l)) = 0

(* creditCovers: with l, all of o is credited.                              *)
Covers(o, l) == \A r \in Rates : Left(o, l)[r] = 0

(* needsSekVat and rateDayFor: the exchange rate an invoice needs.  A draft *)
(* without a work period counts as one whose work ends today.               *)
Wanted(terms, l) ==
  CASE terms.currency = "SEK" -> NoRate
    [] terms.currency # "SEK" /\ Vat(l.net) # 0 ->
         [why |-> "vat", currency |-> terms.currency,
          day |-> IF terms.period < Today THEN terms.period ELSE Today]
    [] terms.currency # "SEK" /\ Vat(l.net) = 0 ->
         [why |-> "book", currency |-> terms.currency, day |-> Today]

-----------------------------------------------------------------------------
(* Locks *)

Busy(t) == slot[t].at \in {"locked", "checked", "numbered"}

(* Mutant of Holds: the original is not locked. *)
HoldsDocument(t) == IF Busy(t) THEN {slot[t].doc, slot[t].copy} ELSE {}

(* The invoice rows a slot has locked: the original first, then the draft.  *)
Holds(t) ==
  (IF slot[t].at = "held" \/ Busy(t) THEN {slot[t].of} ELSE {})
    \cup (IF Busy(t) THEN {slot[t].doc, slot[t].copy} ELSE {})

Free(i) == \A t \in Slots : i \notin Holds(t)

Fresh(i) ==
  inv[i].status = "ABSENT" /\ \A t \in Slots : i \notin {slot[t].doc, slot[t].copy}

(* The series is locked by the issue that has taken a number and has still  *)
(* to commit.                                                               *)
SeriesFree == \A t \in Slots : slot[t].at # "numbered"

(* The client is share-locked while an invoice of it is issued.             *)
ClientFree == \A t \in Slots : ~ (Busy(t) /\ slot[t].of = NoInvoice)

-----------------------------------------------------------------------------
SomeTerms == [currency |-> "SEK", period |-> CHOOSE p \in Periods : TRUE]
SomeText  == CHOOSE x \in Texts : TRUE
SomeBuyer == CHOOSE x \in Details : TRUE

NoRow ==
  [status |-> "ABSENT", kind |-> "INVOICE", of |-> NoInvoice, terms |-> SomeTerms,
   text |-> SomeText, lines |-> NoLines, number |-> 0, buyer |-> SomeBuyer,
   fx |-> NoRate, sent |-> FALSE]

NoSlot ==
  [at |-> "idle", act |-> "issue", doc |-> NoInvoice, of |-> NoInvoice, copy |-> NoInvoice,
   seen |-> [terms |-> SomeTerms, text |-> SomeText, lines |-> NoLines, buyer |-> SomeBuyer],
   fx |-> NoRate, number |-> 0]

NoSeries == [first |-> 0, next |-> 0]

Init ==
  /\ series = NoSeries
  /\ client = SomeBuyer
  /\ inv = [i \in Invoices |-> NoRow]
  /\ slot = [t \in Slots |-> NoSlot]

(* setFirstInvoiceNumber: the series is made, or its first number changed   *)
(* while nothing is numbered from it.                                       *)
SetFirst(n) ==
  /\ SeriesFree
  /\ series.next = series.first
  /\ series' = [first |-> n, next |-> n]
  /\ UNCHANGED <<client, inv, slot>>

(* The client's details are edited, waiting for an issue that prints them.  *)
EditClient ==
  /\ ClientFree
  /\ client' \in Details
  /\ UNCHANGED <<series, inv, slot>>

-----------------------------------------------------------------------------
(* Drafts *)

(* createDraft: the terms come from the client's last invoice or a default. *)
NewDraft(i) ==
  /\ Fresh(i)
  /\ \E x \in Terms : inv' = [inv EXCEPT ![i] = [NoRow EXCEPT !.status = "DRAFT", !.terms = x]]
  /\ UNCHANGED <<series, client, slot>>

(* A credit note for o, with the terms and every line of it.                *)
NoteFor(o) ==
  [NoRow EXCEPT !.status = "DRAFT", !.kind = "CREDIT_NOTE", !.of = o,
                !.terms = inv[o].terms, !.lines = inv[o].lines]

Creditable(o) ==
  inv[o].kind = "INVOICE" /\ inv[o].status \in Open /\ Total(inv[o].lines.net) > 0

(* createCreditDraft *)
NewCreditNote(i, o) ==
  /\ Fresh(i)
  /\ Free(o) /\ Creditable(o)
  /\ inv' = [inv EXCEPT ![i] = NoteFor(o)]
  /\ UNCHANGED <<series, client, slot>>

Editable(i) == inv[i].status = "DRAFT" /\ Free(i)

(* Mutant of EditLines: a line removed leaves what it netted. *)
EditLinesKept(i) ==
  /\ Editable(i)
  /\ \E r \in Rates :
       \/ \E n \in Nets[r] : inv' = [inv EXCEPT ![i].lines.rates = @ \cup {r}, ![i].lines.net[r] = n]
       \/ inv' = [inv EXCEPT ![i].lines.rates = @ \ {r}]
  /\ UNCHANGED <<series, client, slot>>

(* addLine, updateLine and removeLine; a credit note's lines are at rates   *)
(* its invoice has.                                                         *)
EditLines(i) ==
  /\ Editable(i)
  /\ \E r \in Rates :
       /\ inv[i].kind = "CREDIT_NOTE" => r \in inv[inv[i].of].lines.rates
       /\ \/ \E n \in Nets[r] : inv' = [inv EXCEPT ![i].lines.rates = @ \cup {r}, ![i].lines.net[r] = n]
          \/ inv' = [inv EXCEPT ![i].lines.rates = @ \ {r}, ![i].lines.net[r] = 0]
  /\ UNCHANGED <<series, client, slot>>

(* updateDraftDetails: a credit note keeps its invoice's terms.             *)
EditDetails(i) ==
  /\ Editable(i)
  /\ \/ \E x \in Texts : inv' = [inv EXCEPT ![i].text = x]
     \/ inv[i].kind = "INVOICE" /\ \E x \in Terms : inv' = [inv EXCEPT ![i].terms = x]
  /\ UNCHANGED <<series, client, slot>>

DeleteDraft(i) ==
  /\ Editable(i)
  /\ inv' = [inv EXCEPT ![i] = NoRow]
  /\ UNCHANGED <<series, client, slot>>

-----------------------------------------------------------------------------
(* Sent and paid *)

(* markInvoiceSent, and the record of the first sendInvoice. *)
MarkSent(i) ==
  /\ inv[i].status \in Issued /\ ~ inv[i].sent /\ Free(i)
  /\ inv' = [inv EXCEPT ![i].sent = TRUE, ![i].status = IF @ = "ISSUED" THEN "SENT" ELSE @]
  /\ UNCHANGED <<series, client, slot>>

MarkPaid(i) ==
  /\ inv[i].kind = "INVOICE" /\ inv[i].status \in {"ISSUED", "SENT"} /\ Free(i)
  /\ inv' = [inv EXCEPT ![i].status = "PAID"]
  /\ UNCHANGED <<series, client, slot>>

MarkUnpaid(i) ==
  /\ inv[i].kind = "INVOICE" /\ inv[i].status = "PAID" /\ Free(i)
  /\ inv' = [inv EXCEPT ![i].status = IF inv[i].sent THEN "SENT" ELSE "ISSUED"]
  /\ UNCHANGED <<series, client, slot>>

-----------------------------------------------------------------------------
(* Issuing a draft, and crediting a whole invoice *)

Go(t, x) == slot' = [slot EXCEPT ![t] = x]

(* readIssueFingerprint: what a document prints; a credit note's buyer is   *)
(* its invoice's and not part of it.                                        *)
Fingerprint(i, buyer) ==
  [terms |-> inv[i].terms, text |-> inv[i].text, lines |-> inv[i].lines,
   buyer |-> IF inv[i].kind = "INVOICE" THEN buyer ELSE SomeBuyer]

(* The issue dialog is shown. *)
Look(t, i) ==
  /\ slot[t].at = "idle"
  /\ inv[i].status = "DRAFT"
  /\ Go(t, [NoSlot EXCEPT !.at = "looked", !.doc = i, !.of = inv[i].of,
                          !.seen = Fingerprint(i, client)])
  /\ UNCHANGED <<series, client, inv>>

(* issueInvoice, first transaction and fetch: the rate the draft needs now. *)
Fetch(t) ==
  LET i == slot[t].doc
  IN  /\ slot[t].at = "looked"
      /\ inv[i].status = "DRAFT"
      /\ Go(t, [slot[t] EXCEPT !.at = "fetched",
                  !.fx = IF inv[i].kind = "INVOICE" THEN Wanted(inv[i].terms, inv[i].lines) ELSE NoRate])
      /\ UNCHANGED <<series, client, inv>>

(* issueLocked, a credit note: its original is locked first. *)
LockOriginal(t) ==
  /\ slot[t].at = "fetched" /\ slot[t].of # NoInvoice
  /\ Free(slot[t].of)
  /\ Go(t, [slot[t] EXCEPT !.at = "held"])
  /\ UNCHANGED <<series, client, inv>>

(* issueLocked: the draft is locked, and for an invoice its client shared.  *)
LockDraft(t) ==
  /\ slot[t].at = (IF slot[t].of = NoInvoice THEN "fetched" ELSE "held")
  /\ Free(slot[t].doc)
  /\ inv[slot[t].doc].status = "DRAFT"
  /\ Go(t, [slot[t] EXCEPT !.at = "locked"])
  /\ UNCHANGED <<series, client, inv>>

(* creditInFull: the original is locked, and a credit note and perhaps a    *)
(* corrected copy are written that nobody else can see yet.                 *)
BeginFull(t, o) ==
  /\ slot[t].at = "idle"
  /\ Free(o) /\ Creditable(o)
  /\ IssuedNotes(o) = {}
  /\ \E i \in Invoices, c \in Invoices \cup {NoInvoice} :
       /\ Fresh(i) /\ i # c
       /\ c \in Invoices => Fresh(c)
       /\ Go(t, [NoSlot EXCEPT !.at = "locked", !.act = "full", !.doc = i, !.of = o, !.copy = c])
  /\ UNCHANGED <<series, client, inv>>

(* The document a slot issues: its draft, or the credit note it has written. *)
Doc(t) == IF slot[t].act = "full" THEN NoteFor(slot[t].of) ELSE inv[slot[t].doc]

(* The exchange rate a document gets: the one fetched; a credit note's is   *)
(* its invoice's.                                                           *)
RateOf(t) ==
  LET d == Doc(t)
  IN  IF slot[t].of = NoInvoice
        THEN IF Wanted(d.terms, d.lines).why = "none" THEN NoRate ELSE slot[t].fx
        ELSE CASE d.terms.currency = "SEK" -> NoRate
               [] d.terms.currency # "SEK" /\ Vat(d.lines.net) # 0 -> inv[slot[t].of].fx
               [] d.terms.currency # "SEK" /\ Vat(d.lines.net) = 0 -> [inv[slot[t].of].fx EXCEPT !.why = "book"]

(* Mutant of RateFits: the fingerprint is trusted to have caught it. *)
RateUnchecked(t) == TRUE

(* An invoice's rate was fetched for its currency and day as they are under *)
(* the lock; a credit note's invoice has one when it states VAT in kronor.  *)
RateFits(t) ==
  LET d == Doc(t)
      w == Wanted(d.terms, d.lines)
  IN  IF slot[t].of = NoInvoice
        THEN IF w.why = "none" THEN slot[t].fx.why # "vat" ELSE slot[t].fx = w
        ELSE w.why = "vat" => inv[slot[t].of].fx.why = "vat"

(* Mutant of Unchanged: the fingerprint leaves out the lines. *)
UnchangedWording(t) ==
  slot[t].act = "issue" =>
    LET f == Fingerprint(slot[t].doc, client)
    IN  slot[t].seen.terms = f.terms /\ slot[t].seen.text = f.text /\ slot[t].seen.buyer = f.buyer

(* The fingerprint recomputed under the locks, unless creditInFull wrote    *)
(* the document itself.                                                     *)
Unchanged(t) == slot[t].act = "issue" => slot[t].seen = Fingerprint(slot[t].doc, client)

CreditAllowed(t) ==
  LET o == slot[t].of
      l == Doc(t).lines
  IN  /\ inv[o].status \in Open
      /\ Total(l.net) > 0
      /\ CreditFits(o, l)
      /\ ~ LeavesNegative(o, l)

(* issueLocked's checks, under the locks: the document as the issuer saw    *)
(* it, with lines, a series to number it from, a rate that fits.            *)
Check(t) ==
  /\ slot[t].at = "locked"
  /\ Unchanged(t)
  /\ series.first # 0
  /\ Doc(t).lines.rates # {} /\ Total(Doc(t).lines.net) >= 0
  /\ slot[t].of # NoInvoice => CreditAllowed(t)
  /\ RateFits(t)
  /\ Go(t, [slot[t] EXCEPT !.at = "checked"])
  /\ UNCHANGED <<series, client, inv>>

(* Mutant of Number: the series is read without its row lock. *)
NumberUnlocked(t) ==
  /\ slot[t].at = "checked"
  /\ Go(t, [slot[t] EXCEPT !.at = "numbered", !.number = series.next])
  /\ UNCHANGED <<series, client, inv>>

(* The update to ISSUED and the guard behind it: a credit note is held to   *)
(* its invoice once more and the number is taken last, under the series'    *)
(* row lock.                                                                *)
Number(t) ==
  /\ slot[t].at = "checked"
  /\ slot[t].of # NoInvoice =>
       inv[slot[t].of].status \in Open /\ CreditFits(slot[t].of, Doc(t).lines)
  /\ SeriesFree
  /\ Go(t, [slot[t] EXCEPT !.at = "numbered", !.number = series.next])
  /\ UNCHANGED <<series, client, inv>>

IssuedDoc(t) ==
  [Doc(t) EXCEPT !.status = "ISSUED", !.number = slot[t].number, !.fx = RateOf(t),
                 !.buyer = IF slot[t].of = NoInvoice THEN client ELSE inv[slot[t].of].buyer]

(* The corrected copy: a draft with the original's terms and lines.         *)
CopyOf(o) ==
  [NoRow EXCEPT !.status = "DRAFT", !.terms = inv[o].terms, !.text = inv[o].text,
                !.lines = inv[o].lines]

(* The commit: the number, the document, an original credited in full and   *)
(* the corrected copy become visible together.                              *)
Commit(t) ==
  LET o == slot[t].of
      covered == o # NoInvoice /\ Covers(o, Doc(t).lines)
  IN  /\ slot[t].at = "numbered"
      /\ slot[t].act = "full" => covered
      /\ inv' = [i \in Invoices |->
           CASE i = slot[t].doc  -> IssuedDoc(t)
             [] i = o /\ covered -> [inv[i] EXCEPT !.status = "CREDITED"]
             [] i = slot[t].copy -> CopyOf(o)
             [] OTHER -> inv[i]]
      /\ series' = [series EXCEPT !.next = slot[t].number + 1]
      /\ Go(t, NoSlot)
      /\ UNCHANGED client

(* The request ends without a commit, at any point and for any reason. *)
Abort(t) ==
  /\ slot[t].at # "idle"
  /\ Go(t, NoSlot)
  /\ UNCHANGED <<series, client, inv>>

Next ==
  \/ EditClient
  \/ \E n \in Firsts : SetFirst(n)
  \/ \E i \in Invoices :
       \/ NewDraft(i) \/ EditLines(i) \/ EditDetails(i) \/ DeleteDraft(i)
       \/ MarkSent(i) \/ MarkPaid(i) \/ MarkUnpaid(i)
       \/ \E o \in Invoices : NewCreditNote(i, o)
  \/ \E t \in Slots :
       \/ Fetch(t) \/ LockOriginal(t) \/ LockDraft(t) \/ Check(t) \/ Number(t) \/ Commit(t) \/ Abort(t)
       \/ \E i \in Invoices : Look(t, i) \/ BeginFull(t, i)

Spec == Init /\ [][Next]_vars

-----------------------------------------------------------------------------
(* Properties *)

(* Every variable stays in its type, and a rate without lines nets nothing. *)
TypeOK ==
  /\ series \in [first: Nat, next: Nat]
  /\ client \in Details
  /\ inv \in [Invoices -> Invoice]
  /\ slot \in [Slots -> Slot]
  /\ \A i \in Invoices : \A r \in Rates \ inv[i].lines.rates : inv[i].lines.net[r] = 0

(* The numbers of the issued documents are the first one, the next and so   *)
(* on: no gap, whatever was refused or rolled back, and none taken twice.   *)
NumbersUnbroken ==
  /\ {inv[i].number : i \in {j \in Invoices : inv[j].status \in Issued}}
       = series.first .. series.next - 1
  /\ \A i, j \in Invoices :
       inv[i].status \in Issued /\ inv[j].status \in Issued /\ inv[i].number = inv[j].number => i = j

(* However many credit notes of an invoice are issued one after the other,  *)
(* it is credited between nothing and what it charged, at each rate.        *)
NeverOverCredited ==
  \A o \in Invoices : inv[o].kind = "INVOICE" /\ inv[o].status \in Issued =>
    \A r \in Rates : Within(Credited(o, r), inv[o].lines.net[r])

(* An invoice is CREDITED exactly when credit notes cover it at every rate. *)
CreditedIffCovered ==
  \A o \in Invoices : inv[o].kind = "INVOICE" /\ inv[o].status \in Issued =>
    (inv[o].status = "CREDITED" <=>
       IssuedNotes(o) # {} /\ \A r \in Rates : Credited(o, r) = inv[o].lines.net[r])

(* No invoice is left partly credited for good: what is left of one is      *)
(* itself a credit note that could be issued.                               *)
RestIsCreditable ==
  \A o \in Invoices :
    inv[o].kind = "INVOICE" /\ inv[o].status \in Open /\ IssuedNotes(o) # {} =>
      LET rest == [rates |-> inv[o].lines.rates, net |-> Left(o, NoLines)]
      IN  Total(rest.net) > 0 /\ CreditFits(o, rest)

(* What the check accepted, the guard does not refuse and creditInFull does *)
(* not stumble over: nothing it read can change before the commit.          *)
CheckStands ==
  \A t \in Slots : slot[t].at \in {"checked", "numbered"} /\ slot[t].of # NoInvoice =>
    /\ CreditAllowed(t) /\ RateFits(t)
    /\ slot[t].act = "full" => Covers(slot[t].of, Doc(t).lines)

(* The issuer saw everything the issued document prints, however the draft  *)
(* and the client were edited meanwhile.                                    *)
IssuedAsSeen ==
  [][\A t \in Slots : slot[t].act = "issue" /\ slot[t].at = "numbered" /\ inv' # inv /\ slot'[t] # slot[t] =>
       LET d == inv'[slot[t].doc]
       IN  slot[t].seen = [terms |-> d.terms, text |-> d.text, lines |-> d.lines,
                           buyer |-> IF d.kind = "INVOICE" THEN d.buyer ELSE SomeBuyer]]_vars

(* An issued invoice states its VAT, or is booked, at the rate of its own   *)
(* currency and day; a credit note at its invoice's.                        *)
IssuedAtItsRate ==
  \A i \in Invoices : inv[i].status \in Issued =>
    LET w == Wanted(inv[i].terms, inv[i].lines)
    IN  IF inv[i].kind = "INVOICE" THEN inv[i].fx = w
        ELSE /\ inv[i].fx.why = w.why
             /\ w.why # "none" => inv[i].fx.currency = w.currency /\ inv[i].fx.day = inv[inv[i].of].fx.day

Content(x) == <<x.kind, x.of, x.terms, x.text, x.lines, x.number, x.buyer, x.fx>>

(* An issued document never changes, and its credit is never undone.        *)
IssuedIsFrozen ==
  [][\A i \in Invoices : inv[i].status \in Issued =>
       /\ Content(inv'[i]) = Content(inv[i])
       /\ inv'[i].status \in Issued
       /\ inv[i].status = "CREDITED" => inv'[i].status = "CREDITED"
       /\ inv[i].sent => inv'[i].sent]_vars

(* What invoicing promises, see InvoiceBook: the issued documents in the    *)
(* order of their numbers.                                                  *)
Numbered(n) == CHOOSE i \in Invoices : inv[i].status \in Issued /\ inv[i].number = n

EntryOf(i) ==
  [of  |-> IF inv[i].kind = "INVOICE" THEN 0 ELSE inv[inv[i].of].number - series.first + 1,
   net |-> inv[i].lines.net]

Book == INSTANCE InvoiceBook WITH
  Amounts <- {0} \cup UNION {Nets[r] : r \in Rates},
  first   <- series.first,
  book    <- [n \in 1 .. series.next - series.first |-> EntryOf(Numbered(series.first + n - 1))],
  settled <- {inv[i].number - series.first + 1 : i \in {j \in Invoices : inv[j].status = "CREDITED"}}

ImplementsInvoiceBook == Book!Spec
=============================================================================
