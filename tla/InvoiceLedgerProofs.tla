------------------------- MODULE InvoiceLedgerProofs -------------------------
(***************************************************************************)
(* Theorems about InvoiceLedger, for every number of invoices, rates,      *)
(* requests under way and credit notes.  IInv is the first inductive       *)
(* invariant: what the locks of a request keep from everybody else.  CInv  *)
(* adds the money: what each issued invoice's credit notes sum to; BInv    *)
(* what the abstract book of InvoiceBook needs.                            *)
(***************************************************************************)
EXTENDS InvoiceLedger, SumTheorems, SequenceTheorems, TLAPS

-----------------------------------------------------------------------------
(* The inductive invariant *)

(* A row is a credit note exactly when it credits something, and that was   *)
(* issued.                                                                  *)
Rows ==
  \A i \in Invoices :
    /\ inv[i].kind = "INVOICE" <=> inv[i].of = NoInvoice
    /\ inv[i].of # NoInvoice => inv[inv[i].of].status \in Issued

(* A request that issues a draft: its draft credits what it has locked, and *)
(* is a draft while it is locked.                                           *)
Issuing(t) ==
  /\ slot[t].copy = NoInvoice
  /\ slot[t].at # "idle" /\ inv[slot[t].doc].status # "ABSENT" => inv[slot[t].doc].of = slot[t].of
  /\ Busy(t) => inv[slot[t].doc].status = "DRAFT"

(* A request that credits a whole invoice: nothing of it is credited yet,   *)
(* and the documents it writes are not there for anybody else.              *)
Crediting(t) ==
  /\ Busy(t)
  /\ slot[t].of # NoInvoice
  /\ inv[slot[t].of].status \in Open
  /\ IssuedNotes(slot[t].of) = {}
  /\ inv[slot[t].doc].status = "ABSENT"
  /\ slot[t].copy # NoInvoice => inv[slot[t].copy].status = "ABSENT" /\ slot[t].copy # slot[t].doc

SlotOK(t) ==
  /\ slot[t].at # "idle" => slot[t].doc \in Invoices
  /\ slot[t].of # NoInvoice => inv[slot[t].of].status \in Issued
  /\ slot[t].act = "issue" => Issuing(t)
  /\ slot[t].act = "full" => Crediting(t)

(* Nobody else looks at the documents such a request writes. *)
Apart ==
  \A t, u \in Slots : slot[t].act = "full" /\ t # u =>
    {slot[t].doc, slot[t].copy} \cap {slot[u].doc, slot[u].copy} \subseteq {NoInvoice}

(* No row is locked by two requests. *)
Exclusive == \A t, u \in Slots : \A i \in Invoices : i \in Holds(t) /\ i \in Holds(u) => t = u

(* One request at most has taken a number, and it is the next one. *)
OneNumber ==
  /\ series.first <= series.next
  /\ \A t \in Slots : slot[t].at = "numbered" => slot[t].number = series.next
  /\ \A t, u \in Slots : slot[t].at = "numbered" /\ slot[u].at = "numbered" => t = u

(* What was compared under the locks is still so. *)
SeenStands == \A t \in Slots : slot[t].at \in {"checked", "numbered"} => Unchanged(t)

IInv ==
  /\ TypeOK
  /\ Rows
  /\ \A t \in Slots : SlotOK(t)
  /\ Apart
  /\ Exclusive
  /\ OneNumber
  /\ NumbersUnbroken
  /\ SeenStands
  /\ CheckStands

-----------------------------------------------------------------------------
(* Types *)

(* Facts about constants. *)
LEMMA ConstantFacts ==
  /\ SomeTerms \in Terms /\ SomeText \in Texts /\ SomeBuyer \in Details
  /\ NoLines \in Lines /\ NoRate \in FxRate
  /\ NoInvoice \notin Invoices
  /\ {"ABSENT", "DRAFT", "ISSUED", "SENT", "PAID", "CREDITED"} \subseteq Statuses
  /\ {"ABSENT", "DRAFT"} \cap Issued = {}
  <1>1. SomeTerms \in Terms
    BY LedgerAssumption DEF SomeTerms, Terms
  <1>2. SomeText \in Texts /\ SomeBuyer \in Details
    BY LedgerAssumption DEF SomeText, SomeBuyer
  <1>3. NoLines \in Lines
    BY DEF NoLines, Lines
  <1>4. NoRate \in FxRate
    BY LedgerAssumption DEF NoRate, FxRate
  <1> QED BY <1>1, <1>2, <1>3, <1>4, LedgerAssumption DEF Statuses, Issued, Open

NetsFit(x) == \A r \in Rates \ x.lines.rates : x.lines.net[r] = 0

(* The row that is not there is a row. *)
LEMMA NoRowOK == NoRow \in Invoice /\ NetsFit(NoRow)
  <1>1. "ABSENT" \in Statuses /\ "INVOICE" \in Kinds /\ FALSE \in BOOLEAN /\ 0 \in Nat
    BY DEF Statuses, Kinds
  <1>2. NoRow \in Invoice
    BY <1>1, ConstantFacts, Zenon DEF NoRow, Invoice
  <1> QED BY <1>2 DEF NetsFit, NoRow, NoLines

(* The request that is not under way is a request. *)
LEMMA NoSlotOK == NoSlot \in Slot /\ NoSlot.at = "idle" /\ NoSlot.act = "issue"
                    /\ NoSlot.of = NoInvoice /\ NoSlot.copy = NoInvoice /\ NoSlot.doc = NoInvoice
  <1>1. "idle" \in Places /\ "issue" \in {"issue", "full"} /\ 0 \in Nat
    BY DEF Places
  <1>2. [terms |-> SomeTerms, text |-> SomeText, lines |-> NoLines, buyer |-> SomeBuyer] \in Seen
    BY ConstantFacts, Zenon DEF Seen
  <1>3. NoSlot \in Slot
    BY <1>1, <1>2, ConstantFacts, Zenon DEF NoSlot, Slot
  <1> QED BY <1>3 DEF NoSlot

(* What a row and a request are made of. *)
LEMMA RowFields ==
  ASSUME NEW x \in Invoice
  PROVE  /\ x.status \in Statuses /\ x.kind \in Kinds /\ x.of \in Invoices \cup {NoInvoice}
         /\ x.terms \in Terms /\ x.text \in Texts /\ x.lines \in Lines
         /\ x.number \in Nat /\ x.buyer \in Details /\ x.fx \in FxRate /\ x.sent \in BOOLEAN
  BY Zenon DEF Invoice

(* What a typed slot's fields are, whatever place it is at. *)
LEMMA SlotFields ==
  ASSUME NEW x \in Slot
  PROVE  /\ x.at \in Places /\ x.act \in {"issue", "full"}
         /\ x.doc \in Invoices \cup {NoInvoice} /\ x.of \in Invoices \cup {NoInvoice}
         /\ x.copy \in Invoices \cup {NoInvoice}
         /\ x.seen \in Seen /\ x.fx \in FxRate /\ x.number \in Nat
  BY Zenon DEF Slot

(* What an issuer is shown is of its type. *)
LEMMA FingerprintOK ==
  ASSUME TypeOK, NEW i \in Invoices, NEW b \in Details
  PROVE  Fingerprint(i, b) \in Seen
  <1>1. inv[i] \in Invoice
    BY DEF TypeOK
  <1>2. CASE inv[i].kind = "INVOICE"
    BY <1>1, <1>2, RowFields, Zenon DEF Fingerprint, Seen
  <1>3. CASE inv[i].kind # "INVOICE"
    BY <1>1, <1>3, RowFields, ConstantFacts, Zenon DEF Fingerprint, Seen
  <1> QED BY <1>2, <1>3

(* The rate a document needs is one that can be fetched. *)
LEMMA WantedOK ==
  ASSUME NEW x \in Terms, NEW l \in Lines
  PROVE  Wanted(x, l) \in FxRate /\ Wanted(x, l).why \in {"none", "vat", "book"}
  <1>1. x.currency \in Currencies /\ x.period \in Nat /\ Today \in Nat
    BY LedgerAssumption DEF Terms
  <1>2. CASE x.currency = "SEK"
    BY <1>2, ConstantFacts DEF Wanted, FxRate, NoRate
  <1>3. CASE x.currency # "SEK" /\ Vat(l.net) # 0
    BY <1>1, <1>3 DEF Wanted, FxRate
  <1>4. CASE x.currency # "SEK" /\ Vat(l.net) = 0
    BY <1>1, <1>4 DEF Wanted, FxRate
  <1> QED BY <1>2, <1>3, <1>4

(* A credit note made from an invoice, and a corrected copy of it, are rows. *)
LEMMA CopiesOK ==
  ASSUME TypeOK, NEW o \in Invoices
  PROVE  /\ NoteFor(o) \in Invoice /\ NetsFit(NoteFor(o))
         /\ NoteFor(o).status = "DRAFT" /\ NoteFor(o).kind = "CREDIT_NOTE" /\ NoteFor(o).of = o
         /\ NoteFor(o).lines = inv[o].lines /\ NoteFor(o).terms = inv[o].terms
         /\ CopyOf(o) \in Invoice /\ NetsFit(CopyOf(o))
         /\ CopyOf(o).status = "DRAFT" /\ CopyOf(o).kind = "INVOICE" /\ CopyOf(o).of = NoInvoice
  <1>1. inv[o] \in Invoice /\ NetsFit(inv[o])
    BY DEF TypeOK, NetsFit
  <1>2. inv[o].terms \in Terms /\ inv[o].text \in Texts /\ inv[o].lines \in Lines
    BY <1>1, RowFields
  <1>3. "CREDIT_NOTE" \in Kinds /\ "DRAFT" \in Statuses /\ "INVOICE" \in Kinds
    BY DEF Kinds, Statuses
  <1>4. /\ NoRow \in Invoice
        /\ NoRow.kind = "INVOICE" /\ NoRow.of = NoInvoice
    BY NoRowOK DEF NoRow
  <1>5. NoteFor(o) \in Invoice
    BY <1>2, <1>3, <1>4 DEF NoteFor, Invoice
  <1>6. /\ NoteFor(o).status = "DRAFT" /\ NoteFor(o).kind = "CREDIT_NOTE" /\ NoteFor(o).of = o
        /\ NoteFor(o).lines = inv[o].lines /\ NoteFor(o).terms = inv[o].terms
    BY <1>4 DEF NoteFor, Invoice
  <1>7. CopyOf(o) \in Invoice
    BY <1>2, <1>3, <1>4 DEF CopyOf, Invoice
  <1>8. /\ CopyOf(o).status = "DRAFT" /\ CopyOf(o).kind = "INVOICE" /\ CopyOf(o).of = NoInvoice
        /\ CopyOf(o).lines = inv[o].lines
    BY <1>4 DEF CopyOf, Invoice
  <1> QED BY <1>1, <1>5, <1>6, <1>7, <1>8 DEF NetsFit

(* The exchange rate a document is issued with is one. *)
LEMMA RateOfOK ==
  ASSUME TypeOK, NEW t \in Slots, NEW d \in Invoice, Doc(t) = d
  PROVE  RateOf(t) \in FxRate
  <1> DEFINE o == slot[t].of
  <1>1. slot[t].fx \in FxRate /\ o \in Invoices \cup {NoInvoice}
    BY SlotFields DEF TypeOK
  <1>2. o \in Invoices => inv[o].fx \in FxRate
    BY RowFields DEF TypeOK
  <1>3. CASE o = NoInvoice
    BY <1>1, <1>3, ConstantFacts DEF RateOf
  <1>4. CASE o # NoInvoice
    <2>1. inv[o].fx \in FxRate
      BY <1>1, <1>2, <1>4
    <2>2. [inv[o].fx EXCEPT !.why = "book"] \in FxRate
      BY <2>1 DEF FxRate
    <2>3. CASE d.terms.currency = "SEK"
      BY <1>4, <2>3, ConstantFacts DEF RateOf
    <2>4. CASE d.terms.currency # "SEK" /\ Vat(d.lines.net) # 0
      BY <1>4, <2>1, <2>4 DEF RateOf
    <2>5. CASE d.terms.currency # "SEK" /\ Vat(d.lines.net) = 0
      BY <1>4, <2>2, <2>5 DEF RateOf
    <2> QED BY <2>3, <2>4, <2>5
  <1> QED BY <1>3, <1>4

(* The document a request issues: what it credits is what the request has   *)
(* locked.                                                                  *)
LEMMA DocOK ==
  ASSUME IInv, NEW t \in Slots, Busy(t)
  PROVE  /\ slot[t].doc \in Invoices
         /\ Doc(t) \in Invoice /\ NetsFit(Doc(t))
         /\ Doc(t).of = slot[t].of
         /\ Doc(t).kind = "INVOICE" <=> slot[t].of = NoInvoice
         /\ Doc(t).status = "DRAFT"
         /\ inv[slot[t].doc].status \in {"ABSENT", "DRAFT"}
  <1>1. slot[t].at # "idle" /\ SlotOK(t) /\ slot[t] \in Slot /\ TypeOK
    BY DEF IInv, Busy, TypeOK
  <1>2. slot[t].doc \in Invoices /\ slot[t].act \in {"issue", "full"} /\ slot[t].of \in Invoices \cup {NoInvoice}
    BY <1>1, SlotFields DEF SlotOK
  <1>3. CASE slot[t].act = "issue"
    <2>1. inv[slot[t].doc].status = "DRAFT" /\ inv[slot[t].doc].of = slot[t].of
      BY <1>1, <1>3 DEF SlotOK, Issuing
    <2>2. inv[slot[t].doc].kind = "INVOICE" <=> inv[slot[t].doc].of = NoInvoice
      BY <1>2 DEF IInv, Rows
    <2>3. inv[slot[t].doc] \in Invoice /\ NetsFit(inv[slot[t].doc])
      BY <1>1, <1>2 DEF TypeOK, NetsFit
    <2>4. Doc(t) = inv[slot[t].doc]
      BY <1>3 DEF Doc
    <2> QED BY <1>2, <2>1, <2>2, <2>3, <2>4
  <1>4. CASE slot[t].act = "full"
    <2>1. slot[t].of \in Invoices /\ inv[slot[t].doc].status = "ABSENT"
      BY <1>1, <1>2, <1>4 DEF SlotOK, Crediting
    <2>2. Doc(t) = NoteFor(slot[t].of)
      BY <1>4 DEF Doc
    <2> QED BY <1>1, <1>2, <2>1, <2>2, CopiesOK, ConstantFacts
  <1> QED BY <1>2, <1>3, <1>4

-----------------------------------------------------------------------------
(* What the steps do *)

(* A step that writes one row nobody has locked, and nothing else. *)
Written(i, x) ==
  /\ x \in Invoice /\ NetsFit(x)
  /\ Free(i)
  /\ inv' = [inv EXCEPT ![i] = x]
  /\ UNCHANGED <<series, client, slot>>

(* The row was a draft or nothing, and is one or the other. *)
Drafted(i, x) ==
  /\ Written(i, x)
  /\ inv[i].status \notin Issued /\ x.status \notin Issued
  /\ x.kind = "INVOICE" <=> x.of = NoInvoice
  /\ x.of # NoInvoice => inv[x.of].status \in Issued
  /\ inv[i].status = "ABSENT" => Fresh(i)
  /\ inv[i].status # "ABSENT" /\ x.status # "ABSENT" => x.of = inv[i].of

(* The row was issued, and is marked sent, paid or unpaid. *)
Marked(i, x) ==
  /\ Written(i, x)
  /\ inv[i].status \in Issued /\ x.status \in Issued
  /\ Content(x) = Content(inv[i])
  /\ inv[i].status = "CREDITED" <=> x.status = "CREDITED"
  /\ inv[i].sent => x.sent

(* A row that is not there can be made under nobody's feet. *)
LEMMA FreshIsFree ==
  ASSUME IInv, NEW i \in Invoices, Fresh(i)
  PROVE  Free(i)
  <1> SUFFICES ASSUME NEW t \in Slots, i \in Holds(t) PROVE FALSE
    BY DEF Free
  <1>1. i \notin {slot[t].doc, slot[t].copy} /\ inv[i].status = "ABSENT"
    BY DEF Fresh
  <1>2. i = slot[t].of
    BY <1>1 DEF Holds
  <1>3. inv[i].status \in Issued
    BY <1>2, ConstantFacts DEF IInv, SlotOK
  <1> QED BY <1>1, <1>3, ConstantFacts

(* createDraft writes one row nobody numbered and touches no other. *)
LEMMA NewDraftDrafts ==
  ASSUME IInv, NEW i \in Invoices, NewDraft(i)
  PROVE  \E x : Drafted(i, x)
  <1>1. PICK y \in Terms : inv' = [inv EXCEPT ![i] = [NoRow EXCEPT !.status = "DRAFT", !.terms = y]]
    BY DEF NewDraft
  <1> DEFINE x == [NoRow EXCEPT !.status = "DRAFT", !.terms = y]
  <1>2. x \in Invoice /\ NetsFit(x) /\ x.status = "DRAFT" /\ x.kind = "INVOICE" /\ x.of = NoInvoice
    <2>1. NoRow \in Invoice /\ NetsFit(NoRow) /\ "DRAFT" \in Statuses
      BY NoRowOK, ConstantFacts
    <2>2. x \in Invoice
      BY <2>1 DEF Invoice
    <2> QED BY <2>1, <2>2 DEF NetsFit, NoRow
  <1>3. Fresh(i) /\ Free(i) /\ inv[i].status = "ABSENT" /\ UNCHANGED <<series, client, slot>>
    BY FreshIsFree DEF NewDraft, Fresh
  <1>4. Drafted(i, x)
    BY <1>1, <1>2, <1>3, ConstantFacts DEF Drafted, Written
  <1> QED BY <1>4

(* createCreditDraft writes one row, typed, for an invoice that stays as it is. *)
LEMMA NewCreditNoteDrafts ==
  ASSUME IInv, NEW i \in Invoices, NEW o \in Invoices, NewCreditNote(i, o)
  PROVE  Drafted(i, NoteFor(o))
  <1>1. /\ NoteFor(o) \in Invoice /\ NetsFit(NoteFor(o))
        /\ NoteFor(o).status = "DRAFT" /\ NoteFor(o).kind = "CREDIT_NOTE" /\ NoteFor(o).of = o
    BY CopiesOK DEF IInv
  <1>2. Fresh(i) /\ Free(i) /\ inv[i].status = "ABSENT" /\ UNCHANGED <<series, client, slot>>
    BY FreshIsFree DEF NewCreditNote, Fresh
  <1>3. inv[o].status \in Issued /\ inv' = [inv EXCEPT ![i] = NoteFor(o)]
    BY DEF NewCreditNote, Creditable, Issued
  <1> QED BY <1>1, <1>2, <1>3, ConstantFacts DEF Drafted, Written

(* A line edit changes the lines of one free draft and keeps them typed. *)
LEMMA EditLinesDrafts ==
  ASSUME IInv, NEW i \in Invoices, EditLines(i)
  PROVE  \E x : Drafted(i, x)
  <1>1. /\ inv[i] \in Invoice /\ NetsFit(inv[i]) /\ inv[i].status = "DRAFT" /\ Free(i)
        /\ inv \in [Invoices -> Invoice]
        /\ UNCHANGED <<series, client, slot>>
    BY DEF IInv, TypeOK, NetsFit, EditLines, Editable
  <1>2. /\ inv[i].kind = "INVOICE" <=> inv[i].of = NoInvoice
        /\ inv[i].of # NoInvoice => inv[inv[i].of].status \in Issued
    BY DEF IInv, Rows
  <1>3. ASSUME NEW l \in Lines, inv' = [inv EXCEPT ![i] = [inv[i] EXCEPT !.lines = l]],
               \A r \in Rates \ l.rates : l.net[r] = 0
        PROVE  \E x : Drafted(i, x)
    <2> DEFINE x == [inv[i] EXCEPT !.lines = l]
    <2>1. x \in Invoice /\ NetsFit(x) /\ x.status = "DRAFT" /\ x.kind = inv[i].kind /\ x.of = inv[i].of
      BY <1>1, <1>3 DEF Invoice, NetsFit
    <2>2. Drafted(i, x)
      BY <1>1, <1>2, <1>3, <2>1, ConstantFacts DEF Drafted, Written
    <2> QED BY <2>2
  <1>4. PICK r \in Rates :
          \/ \E n \in Nets[r] : inv' = [inv EXCEPT ![i].lines.rates = @ \cup {r}, ![i].lines.net[r] = n]
          \/ inv' = [inv EXCEPT ![i].lines.rates = @ \ {r}, ![i].lines.net[r] = 0]
    BY DEF EditLines
  <1>5. inv[i].lines \in Lines /\ inv[i].lines.rates \subseteq Rates /\ inv[i].lines.net \in [Rates -> Int]
    BY <1>1, RowFields DEF Lines
  <1>6. ASSUME NEW a \in SUBSET Rates, NEW n \in Int, r \in a \/ n = 0, inv[i].lines.rates \subseteq a \cup {r},
               inv' = [inv EXCEPT ![i].lines.rates = a, ![i].lines.net[r] = n]
        PROVE  \E x : Drafted(i, x)
    <2> DEFINE l == [inv[i].lines EXCEPT !.rates = a, !.net[r] = n]
    <2>1. l \in Lines /\ l.rates = a /\ l.net = [inv[i].lines.net EXCEPT ![r] = n]
      BY <1>5 DEF Lines
    <2>2. \A q \in Rates \ l.rates : l.net[q] = 0
      BY <1>1, <1>5, <1>6, <2>1 DEF NetsFit
    <2>3. inv' = [inv EXCEPT ![i] = [inv[i] EXCEPT !.lines = l]]
      BY <1>6, <1>1, <1>5 DEF Invoice, Lines
    <2> QED BY <1>3, <2>1, <2>2, <2>3
  <1>7. CASE \E n \in Nets[r] : inv' = [inv EXCEPT ![i].lines.rates = @ \cup {r}, ![i].lines.net[r] = n]
    <2>1. PICK n \in Nets[r] : inv' = [inv EXCEPT ![i].lines.rates = inv[i].lines.rates \cup {r}, ![i].lines.net[r] = n]
      BY <1>7
    <2>2. n \in Int /\ inv[i].lines.rates \cup {r} \in SUBSET Rates
      BY <1>5, LedgerAssumption
    <2> QED BY <1>6, <2>1, <2>2
  <1>8. CASE inv' = [inv EXCEPT ![i].lines.rates = @ \ {r}, ![i].lines.net[r] = 0]
    <2>1. inv[i].lines.rates \ {r} \in SUBSET Rates /\ 0 \in Int /\ inv[i].lines.rates \subseteq (inv[i].lines.rates \ {r}) \cup {r}
      BY <1>5
    <2> QED BY <1>6, <1>8, <2>1
  <1> QED BY <1>4, <1>7, <1>8

(* A details edit changes one free draft, and a credit note's terms never. *)
LEMMA EditDetailsDrafts ==
  ASSUME IInv, NEW i \in Invoices, EditDetails(i)
  PROVE  \E x : Drafted(i, x)
  <1>1. /\ inv[i] \in Invoice /\ NetsFit(inv[i]) /\ inv[i].status = "DRAFT" /\ Free(i)
        /\ UNCHANGED <<series, client, slot>>
    BY DEF IInv, TypeOK, NetsFit, EditDetails, Editable
  <1>2. /\ inv[i].kind = "INVOICE" <=> inv[i].of = NoInvoice
        /\ inv[i].of # NoInvoice => inv[inv[i].of].status \in Issued
    BY DEF IInv, Rows
  <1>3. CASE \E y \in Texts : inv' = [inv EXCEPT ![i].text = y]
    <2>1. PICK y \in Texts : inv' = [inv EXCEPT ![i].text = y]
      BY <1>3
    <2> DEFINE x == [inv[i] EXCEPT !.text = y]
    <2>2. x \in Invoice /\ NetsFit(x) /\ x.status = "DRAFT" /\ x.kind = inv[i].kind /\ x.of = inv[i].of
      BY <1>1 DEF Invoice, NetsFit
    <2>3. inv' = [inv EXCEPT ![i] = x]
      BY <2>1
    <2>4. Drafted(i, x)
      BY <1>1, <1>2, <2>2, <2>3, ConstantFacts DEF Drafted, Written
    <2> QED BY <2>4
  <1>4. CASE \E y \in Terms : inv' = [inv EXCEPT ![i].terms = y]
    <2>1. PICK y \in Terms : inv' = [inv EXCEPT ![i].terms = y]
      BY <1>4
    <2> DEFINE x == [inv[i] EXCEPT !.terms = y]
    <2>2. x \in Invoice /\ NetsFit(x) /\ x.status = "DRAFT" /\ x.kind = inv[i].kind /\ x.of = inv[i].of
      BY <1>1 DEF Invoice, NetsFit
    <2>3. inv' = [inv EXCEPT ![i] = x]
      BY <2>1
    <2>4. Drafted(i, x)
      BY <1>1, <1>2, <2>2, <2>3, ConstantFacts DEF Drafted, Written
    <2> QED BY <2>4
  <1> QED BY <1>3, <1>4 DEF EditDetails

(* A deleted draft leaves an empty row and no issued document refers to it. *)
LEMMA DeleteDraftDrafts ==
  ASSUME IInv, NEW i \in Invoices, DeleteDraft(i)
  PROVE  Drafted(i, NoRow)
  <1>1. /\ inv[i].status = "DRAFT" /\ Free(i) /\ inv' = [inv EXCEPT ![i] = NoRow]
        /\ UNCHANGED <<series, client, slot>>
    BY DEF DeleteDraft, Editable
  <1>2. NoRow.status = "ABSENT" /\ NoRow.kind = "INVOICE" /\ NoRow.of = NoInvoice
    BY DEF NoRow
  <1> QED BY <1>1, <1>2, NoRowOK, ConstantFacts DEF Drafted, Written

(* An issued row marked: its status and the record that it was sent.        *)
LEMMA Marking ==
  ASSUME IInv, NEW i \in Invoices, NEW s \in Issued, NEW b \in BOOLEAN,
         Free(i), UNCHANGED <<series, client, slot>>,
         inv[i].status \in Issued, inv[i].status = "CREDITED" <=> s = "CREDITED", inv[i].sent => b,
         inv' = [inv EXCEPT ![i] = [inv[i] EXCEPT !.status = s, !.sent = b]]
  PROVE  \E x : Marked(i, x)
  <1> DEFINE x == [inv[i] EXCEPT !.status = s, !.sent = b]
  <1>1. inv[i] \in Invoice /\ NetsFit(inv[i]) /\ s \in Statuses
    BY DEF IInv, TypeOK, NetsFit, Statuses
  <1>2. x \in Invoice /\ x.status = s /\ x.sent = b
    BY <1>1 DEF Invoice
  <1>3. Content(x) = Content(inv[i]) /\ NetsFit(x)
    BY <1>1 DEF Invoice, Content, NetsFit
  <1>4. Marked(i, x)
    BY <1>2, <1>3 DEF Marked, Written
  <1> QED BY <1>4

(* Marking as sent changes only the status, inside Issued, and the sent flag. *)
LEMMA MarkSentMarks ==
  ASSUME IInv, NEW i \in Invoices, MarkSent(i)
  PROVE  \E x : Marked(i, x)
  <1>1. inv[i] \in Invoice /\ inv \in [Invoices -> Invoice]
    BY DEF IInv, TypeOK
  <1> DEFINE s == IF inv[i].status = "ISSUED" THEN "SENT" ELSE inv[i].status
  <1>2. inv' = [inv EXCEPT ![i] = [inv[i] EXCEPT !.status = s, !.sent = TRUE]]
    BY <1>1 DEF MarkSent, Invoice
  <1>3. s \in Issued /\ (inv[i].status = "CREDITED" <=> s = "CREDITED")
    BY DEF MarkSent, Issued, Open
  <1> QED BY <1>2, <1>3, Marking DEF MarkSent

(* Marking as paid changes only the status of a free open invoice. *)
LEMMA MarkPaidMarks ==
  ASSUME IInv, NEW i \in Invoices, MarkPaid(i)
  PROVE  \E x : Marked(i, x)
  <1>1. inv[i] \in Invoice /\ inv \in [Invoices -> Invoice] /\ inv[i].sent \in BOOLEAN
    BY RowFields DEF IInv, TypeOK
  <1>2. inv' = [inv EXCEPT ![i] = [inv[i] EXCEPT !.status = "PAID", !.sent = inv[i].sent]]
    BY <1>1 DEF MarkPaid, Invoice
  <1>3. "PAID" \in Issued /\ inv[i].status \in Issued /\ inv[i].status # "CREDITED"
    BY DEF MarkPaid, Issued, Open
  <1> QED BY <1>1, <1>2, <1>3, Marking DEF MarkPaid

(* Undoing a payment changes only the status of a free paid invoice. *)
LEMMA MarkUnpaidMarks ==
  ASSUME IInv, NEW i \in Invoices, MarkUnpaid(i)
  PROVE  \E x : Marked(i, x)
  <1>1. inv[i] \in Invoice /\ inv \in [Invoices -> Invoice] /\ inv[i].sent \in BOOLEAN
    BY RowFields DEF IInv, TypeOK
  <1> DEFINE s == IF inv[i].sent THEN "SENT" ELSE "ISSUED"
  <1>2. inv' = [inv EXCEPT ![i] = [inv[i] EXCEPT !.status = s, !.sent = inv[i].sent]]
    BY <1>1 DEF MarkUnpaid, Invoice
  <1>3. s \in Issued /\ s # "CREDITED" /\ inv[i].status \in Issued /\ inv[i].status # "CREDITED"
    BY DEF MarkUnpaid, Issued, Open
  <1> QED BY <1>1, <1>2, <1>3, Marking DEF MarkUnpaid

(* A step of a request that changes only the request. *)
Moved(t, x) ==
  /\ x \in Slot
  /\ slot' = [slot EXCEPT ![t] = x]
  /\ UNCHANGED <<series, client, inv>>

(* Every step of the system is one of these. *)
LEMMA Steps ==
  ASSUME IInv, [Next]_vars
  PROVE  \/ UNCHANGED vars
         \/ EditClient
         \/ \E n \in Firsts : SetFirst(n)
         \/ \E i \in Invoices : \E x : Drafted(i, x)
         \/ \E i \in Invoices : \E x : Marked(i, x)
         \/ \E t \in Slots :
              \/ Fetch(t) \/ LockOriginal(t) \/ LockDraft(t) \/ Check(t) \/ Number(t) \/ Commit(t)
              \/ Abort(t) \/ \E i \in Invoices : Look(t, i) \/ BeginFull(t, i)
  <1>1. CASE UNCHANGED vars
    BY <1>1
  <1>2. CASE Next
    <2>1. ASSUME NEW i \in Invoices,
                 NewDraft(i) \/ EditLines(i) \/ EditDetails(i) \/ DeleteDraft(i)
                   \/ \E o \in Invoices : NewCreditNote(i, o)
          PROVE  \E x : Drafted(i, x)
      BY <2>1, NewDraftDrafts, EditLinesDrafts, EditDetailsDrafts, DeleteDraftDrafts, NewCreditNoteDrafts
    <2>2. ASSUME NEW i \in Invoices, MarkSent(i) \/ MarkPaid(i) \/ MarkUnpaid(i)
          PROVE  \E x : Marked(i, x)
      BY <2>2, MarkSentMarks, MarkPaidMarks, MarkUnpaidMarks
    <2> QED BY <1>2, <2>1, <2>2, Zenon DEF Next
  <1> QED BY <1>1, <1>2

-----------------------------------------------------------------------------
(* What a request relies on *)

(* A step of somebody else, as far as request t goes. *)
Undisturbed(t) ==
  /\ slot'[t] = slot[t]
  /\ \A i \in Invoices : i \in Holds(t) => inv'[i] = inv[i]
  /\ Busy(t) /\ slot[t].of = NoInvoice => client' = client
  /\ slot[t].of # NoInvoice => inv'[slot[t].of].status \in Issued
  /\ slot[t].of # NoInvoice /\ Busy(t) =>
       /\ IssuedNotes(slot[t].of)' = IssuedNotes(slot[t].of)
       /\ \A i \in IssuedNotes(slot[t].of) : inv'[i].lines = inv[i].lines
  /\ slot[t].doc \in Invoices /\ inv'[slot[t].doc].status # "ABSENT" =>
       inv[slot[t].doc].status # "ABSENT" /\ inv'[slot[t].doc].of = inv[slot[t].doc].of

(* What is credited of an invoice depends on its issued credit notes only. *)
LEMMA SameCredit ==
  ASSUME NEW o \in Invoices, NEW r \in Rates, IssuedNotes(o)' = IssuedNotes(o),
         \A i \in IssuedNotes(o) : inv'[i].lines = inv[i].lines
  PROVE  Credited(o, r)' = Credited(o, r)
  <1>1. [i \in IssuedNotes(o)' |-> inv'[i].lines.net[r]] = [i \in IssuedNotes(o) |-> inv[i].lines.net[r]]
    OBVIOUS
  <1> QED BY <1>1 DEF Credited

(* So what was checked of a credit note stands. *)
LEMMA SameChecks ==
  ASSUME NEW t \in Slots, NEW o \in Invoices, slot[t].of = o,
         slot'[t].of = o, slot'[t].act = slot[t].act, slot'[t].fx = slot[t].fx,
         inv'[o] = inv[o], Doc(t)' = Doc(t), IssuedNotes(o)' = IssuedNotes(o),
         \A i \in IssuedNotes(o) : inv'[i].lines = inv[i].lines, NoInvoice \notin Invoices
  PROVE  /\ CreditAllowed(t) => CreditAllowed(t)'
         /\ RateFits(t) => RateFits(t)'
         /\ Covers(o, Doc(t).lines) => Covers(slot[t].of, Doc(t).lines)'
  <1>1. \A r \in Rates : Credited(o, r)' = Credited(o, r)
    BY SameCredit
  <1> DEFINE l == Doc(t).lines
  <1>2. CreditFits(o, l) => CreditFits(slot[t].of, Doc(t).lines)'
    BY <1>1 DEF CreditFits
  <1>3. Left(slot[t].of, Doc(t).lines)' = Left(o, l)
    BY <1>1 DEF Left
  <1>4. LeavesNegative(slot[t].of, Doc(t).lines)' = LeavesNegative(o, l)
    BY <1>3 DEF LeavesNegative
  <1>5. Covers(slot[t].of, Doc(t).lines)' = Covers(o, l)
    BY <1>3 DEF Covers
  <1>6. CreditAllowed(t) => CreditAllowed(t)'
    BY <1>2, <1>4 DEF CreditAllowed
  <1>7. RateFits(t) => RateFits(t)'
    BY DEF RateFits
  <1> QED BY <1>5, <1>6, <1>7

(* Somebody else's step leaves everything a request relies on. *)
LEMMA StaysOK ==
  ASSUME IInv, NEW t \in Slots, Undisturbed(t)
  PROVE  /\ SlotOK(t)'
         /\ Holds(t)' = Holds(t)
         /\ slot[t].at \in {"checked", "numbered"} => Unchanged(t)'
         /\ slot[t].at \in {"checked", "numbered"} /\ slot[t].of # NoInvoice =>
              /\ CreditAllowed(t)' /\ RateFits(t)'
              /\ slot[t].act = "full" => Covers(slot[t].of, Doc(t).lines)'
  <1> DEFINE o == slot[t].of
             d == slot[t].doc
  <1>1. /\ slot'[t] = slot[t] /\ SlotOK(t) /\ NoInvoice \notin Invoices
        /\ o \in Invoices \cup {NoInvoice} /\ slot[t].copy \in Invoices \cup {NoInvoice}
        /\ slot[t].act \in {"issue", "full"}
    BY SlotFields, ConstantFacts DEF IInv, TypeOK, Undisturbed
  <1>2. Busy(t)' = Busy(t) /\ Holds(t)' = Holds(t)
    BY <1>1 DEF Busy, Holds
  <1>3. Busy(t) => /\ d \in Invoices /\ inv'[d] = inv[d]
                   /\ o # NoInvoice => inv'[o] = inv[o]
                   /\ slot[t].copy # NoInvoice => inv'[slot[t].copy] = inv[slot[t].copy]
    BY <1>1 DEF Undisturbed, Holds, SlotOK, Busy
  <1>4. slot[t].act = "issue" => Issuing(t)'
    BY <1>1, <1>2, <1>3 DEF SlotOK, Issuing, Undisturbed
  <1>5. slot[t].act = "full" => Crediting(t)'
    BY <1>1, <1>2, <1>3 DEF SlotOK, Crediting, Undisturbed
  <1>6. SlotOK(t)'
    BY <1>1, <1>4, <1>5 DEF SlotOK, Undisturbed
  <1>7. Busy(t) => Doc(t)' = Doc(t)
    BY <1>1, <1>3 DEF Doc, NoteFor, SlotOK, Crediting
  <1>8. ASSUME slot[t].at \in {"checked", "numbered"}
        PROVE  Unchanged(t)'
    <2>1. Busy(t) /\ Unchanged(t)
      BY <1>8 DEF IInv, SeenStands, Busy
    <2>2. CASE slot[t].act = "issue"
      <3>1. inv[d].kind = "INVOICE" <=> o = NoInvoice
        BY <1>1, <1>3, <2>1, <2>2 DEF SlotOK, Issuing, IInv, Rows, Busy
      <3>2. o = NoInvoice => client' = client
        BY <2>1 DEF Undisturbed
      <3>3. Fingerprint(d, client)' = Fingerprint(d, client)
        BY <1>1, <1>3, <2>1, <3>1, <3>2 DEF Fingerprint
      <3> QED BY <1>1, <2>1, <2>2, <3>3 DEF Unchanged
    <2>3. CASE slot[t].act = "full"
      BY <1>1, <2>3 DEF Unchanged
    <2> QED BY <1>1, <2>2, <2>3
  <1>9. ASSUME slot[t].at \in {"checked", "numbered"}, o # NoInvoice
        PROVE  /\ CreditAllowed(t)' /\ RateFits(t)'
               /\ slot[t].act = "full" => Covers(slot[t].of, Doc(t).lines)'
    <2>1. Busy(t) /\ o \in Invoices
      BY <1>1, <1>9 DEF Busy
    <2>2. /\ CreditAllowed(t) /\ RateFits(t)
          /\ slot[t].act = "full" => Covers(o, Doc(t).lines)
      BY <1>9 DEF IInv, CheckStands
    <2>3. /\ IssuedNotes(o)' = IssuedNotes(o)
          /\ \A i \in IssuedNotes(o) : inv'[i].lines = inv[i].lines
      BY <1>9, <2>1 DEF Undisturbed
    <2> QED BY <1>1, <1>3, <1>7, <1>9, <2>1, <2>2, <2>3, SameChecks
  <1> QED BY <1>2, <1>6, <1>8, <1>9

(* The requests of a state in which all of them stay as they were. *)
LEMMA AllStay ==
  ASSUME IInv, \A t \in Slots : Undisturbed(t), slot' = slot
  PROVE  /\ \A t \in Slots : SlotOK(t)'
         /\ Apart' /\ Exclusive' /\ SeenStands' /\ CheckStands'
  <1>1. \A t \in Slots : SlotOK(t)' /\ Holds(t)' = Holds(t)
    BY StaysOK
  <1>2. Apart'
    BY DEF IInv, Apart
  <1>3. Exclusive'
    BY <1>1 DEF IInv, Exclusive
  <1>4. SeenStands'
    BY StaysOK DEF SeenStands
  <1>5. CheckStands'
    BY StaysOK DEF CheckStands
  <1> QED BY <1>1, <1>2, <1>3, <1>4, <1>5

(* Nobody is disturbed by a row written that nobody has locked. *)
LEMMA WrittenUndisturbs ==
  ASSUME IInv, NEW i \in Invoices, NEW x, Drafted(i, x) \/ Marked(i, x), NEW t \in Slots
  PROVE  Undisturbed(t)
  <1> DEFINE o == slot[t].of
             d == slot[t].doc
  <1>1. /\ Free(i) /\ inv' = [inv EXCEPT ![i] = x] /\ slot' = slot /\ client' = client
        /\ inv \in [Invoices -> Invoice] /\ slot[t] \in Slot /\ SlotOK(t)
        /\ o \in Invoices \cup {NoInvoice}
    BY SlotFields DEF Drafted, Marked, Written, IInv, TypeOK
  <1>2. \A j \in Invoices : j # i => inv'[j] = inv[j]
    BY <1>1
  <1>3. inv'[i] = x
    BY <1>1
  <1>4. \A j \in Invoices : j \in Holds(t) => inv'[j] = inv[j]
    BY <1>1, <1>2 DEF Free
  <1>5. o # NoInvoice => inv'[o].status \in Issued
    BY <1>1, <1>2, <1>3, ConstantFacts DEF SlotOK, Drafted, Marked
  <1>6. \A q \in Invoices : IssuedNotes(q)' = IssuedNotes(q)
    BY <1>2, <1>3 DEF IssuedNotes, Drafted, Marked, Content
  <1>7. \A j \in Invoices : inv[j].status \in Issued => inv'[j].lines = inv[j].lines
    BY <1>2, <1>3 DEF Drafted, Marked, Content
  <1>8. d \in Invoices /\ inv'[d].status # "ABSENT" =>
          inv[d].status # "ABSENT" /\ inv'[d].of = inv[d].of
    <2>1. CASE d # i
      BY <1>2, <2>1
    <2>2. CASE d = i /\ Drafted(i, x)
      BY <1>1, <1>3, <2>2 DEF Drafted, Fresh
    <2>3. CASE d = i /\ Marked(i, x)
      BY <1>1, <1>3, <2>3, ConstantFacts DEF Marked, Content
    <2> QED BY <2>1, <2>2, <2>3
  <1> QED BY <1>1, <1>4, <1>5, <1>6, <1>7, <1>8 DEF Undisturbed, IssuedNotes

(* A transaction that writes one row keeps the invariant: nobody has locked it. *)
LEMMA WrittenOK ==
  ASSUME IInv, NEW i \in Invoices, NEW x, Drafted(i, x) \/ Marked(i, x)
  PROVE  IInv'
  <1>1. /\ x \in Invoice /\ NetsFit(x) /\ inv' = [inv EXCEPT ![i] = x] /\ inv \in [Invoices -> Invoice]
        /\ UNCHANGED <<series, client, slot>>
    BY DEF Drafted, Marked, Written, IInv, TypeOK
  <1>2. \A j \in Invoices : j # i => inv'[j] = inv[j]
    BY <1>1
  <1>3. inv'[i] = x
    BY <1>1
  <1>4. TypeOK'
    BY <1>1 DEF IInv, TypeOK, NetsFit
  <1>5. Rows'
    <2>1. ASSUME NEW j \in Invoices, inv[j].status \in Issued
          PROVE  inv'[j].status \in Issued
      BY <1>2, <1>3, <2>1 DEF Drafted, Marked
    <2>2. ASSUME NEW j \in Invoices
          PROVE  /\ inv'[j].kind = "INVOICE" <=> inv'[j].of = NoInvoice
                 /\ inv'[j].of # NoInvoice => inv[inv'[j].of].status \in Issued
      BY <1>2, <1>3, <2>2 DEF IInv, Rows, Drafted, Marked, Content
    <2>3. \A j \in Invoices : inv'[j].of \in Invoices \cup {NoInvoice}
      BY <1>4, RowFields DEF TypeOK
    <2> QED BY <2>1, <2>2, <2>3 DEF Rows
  <1>6. NumbersUnbroken'
    <2>1. \A j \in Invoices : inv'[j].status \in Issued <=> inv[j].status \in Issued
      BY <1>2, <1>3 DEF Drafted, Marked
    <2>2. \A j \in Invoices : inv[j].status \in Issued => inv'[j].number = inv[j].number
      BY <1>2, <1>3 DEF Drafted, Marked, Content
    <2>3. {inv'[j].number : j \in {k \in Invoices : inv'[k].status \in Issued}}
            = {inv[j].number : j \in {k \in Invoices : inv[k].status \in Issued}}
      BY <2>1, <2>2
    <2> QED BY <1>1, <2>1, <2>2, <2>3 DEF IInv, NumbersUnbroken
  <1>7. OneNumber'
    BY <1>1 DEF IInv, OneNumber
  <1> QED BY <1>1, <1>4, <1>5, <1>6, <1>7, WrittenUndisturbs, AllStay DEF IInv

-----------------------------------------------------------------------------
(* The steps keep the invariant *)

(* Rows that are not written leave requests undisturbed, unless the client  *)
(* is edited.                                                               *)
LEMMA SameRowsUndisturb ==
  ASSUME IInv, NEW t \in Slots, inv' = inv, slot'[t] = slot[t],
         Busy(t) /\ slot[t].of = NoInvoice => client' = client
  PROVE  Undisturbed(t)
  BY DEF IInv, Undisturbed, SlotOK, IssuedNotes

(* Between requests, the numbering is set up and the client edited. *)
LEMMA SetFirstOK ==
  ASSUME IInv, NEW n \in Firsts, SetFirst(n)
  PROVE  IInv'
  <1>1. n \in Nat /\ series' = [first |-> n, next |-> n] /\ UNCHANGED <<client, inv, slot>>
    BY LedgerAssumption DEF SetFirst
  <1>2. TypeOK' /\ Rows'
    BY <1>1 DEF IInv, TypeOK, Rows
  <1>3. \A t \in Slots : Undisturbed(t)
    BY <1>1, SameRowsUndisturb
  <1>4. OneNumber'
    BY <1>1 DEF IInv, OneNumber, SetFirst, SeriesFree
  <1>5. NumbersUnbroken'
    <2>1. series \in [first: Nat, next: Nat] /\ series.first = series.next
      BY DEF IInv, TypeOK, SetFirst
    <2>2. series.first .. series.next - 1 = {} /\ n .. n - 1 = {}
      BY <1>1, <2>1
    <2> QED BY <1>1, <2>2 DEF IInv, NumbersUnbroken
  <1> QED BY <1>1, <1>2, <1>3, <1>4, <1>5, AllStay DEF IInv

(* An edit of the client keeps the invariant: an issue that prints it holds it. *)
LEMMA EditClientOK ==
  ASSUME IInv, EditClient
  PROVE  IInv'
  <1>1. client' \in Details /\ UNCHANGED <<series, inv, slot>> /\ ClientFree
    BY DEF EditClient
  <1>2. TypeOK' /\ Rows' /\ OneNumber' /\ NumbersUnbroken'
    BY <1>1 DEF IInv, TypeOK, Rows, OneNumber, NumbersUnbroken
  <1>3. \A t \in Slots : Undisturbed(t)
    BY <1>1, SameRowsUndisturb DEF ClientFree
  <1> QED BY <1>1, <1>2, <1>3, AllStay DEF IInv

(* A request moves: the others stay, and it must not take what they hold.   *)
LEMMA MovedOK ==
  ASSUME IInv, NEW t \in Slots, NEW x, Moved(t, x),
         SlotOK(t)',
         \A u \in Slots \ {t} : \A i \in Invoices : i \in Holds(t)' => i \notin Holds(u),
         \A u \in Slots \ {t} : x.act = "full" \/ slot[u].act = "full" =>
           {x.doc, x.copy} \cap {slot[u].doc, slot[u].copy} \subseteq {NoInvoice},
         x.at = "numbered" => x.number = series.next /\ \A u \in Slots \ {t} : slot[u].at # "numbered",
         x.at \in {"checked", "numbered"} => Unchanged(t)',
         x.at \in {"checked", "numbered"} /\ x.of # NoInvoice =>
           /\ CreditAllowed(t)' /\ RateFits(t)'
           /\ x.act = "full" => Covers(slot[t].of, Doc(t).lines)'
  PROVE  IInv'
  <1>1. /\ x \in Slot /\ slot' = [slot EXCEPT ![t] = x] /\ slot \in [Slots -> Slot]
        /\ UNCHANGED <<series, client, inv>>
    BY DEF Moved, IInv, TypeOK
  <1>2. slot'[t] = x /\ \A u \in Slots \ {t} : slot'[u] = slot[u]
    BY <1>1
  <1>3. TypeOK' /\ Rows' /\ NumbersUnbroken'
    BY <1>1 DEF IInv, TypeOK, Rows, NumbersUnbroken
  <1>4. \A u \in Slots \ {t} : Undisturbed(u)
    BY <1>1, <1>2, SameRowsUndisturb
  <1>5. \A u \in Slots : SlotOK(u)'
    BY <1>4, StaysOK
  <1>6. \A u \in Slots \ {t} : Holds(u)' = Holds(u)
    BY <1>4, StaysOK
  <1>7. Exclusive'
    BY <1>6 DEF IInv, Exclusive
  <1>8. Apart'
    <2> SUFFICES ASSUME NEW u \in Slots, NEW w \in Slots, slot'[u].act = "full", u # w
                 PROVE  {slot'[u].doc, slot'[u].copy} \cap {slot'[w].doc, slot'[w].copy} \subseteq {NoInvoice}
      BY DEF Apart
    <2>1. CASE u = t
      BY <1>2, <2>1
    <2>2. CASE w = t
      BY <1>2, <2>2
    <2>3. CASE u # t /\ w # t
      BY <1>2, <2>3 DEF IInv, Apart
    <2> QED BY <2>1, <2>2, <2>3
  <1>9. OneNumber'
    BY <1>1, <1>2 DEF IInv, OneNumber
  <1>10. SeenStands'
    BY <1>2, <1>4, StaysOK DEF SeenStands
  <1>11. CheckStands'
    BY <1>2, <1>4, StaysOK DEF CheckStands
  <1> QED BY <1>3, <1>5, <1>7, <1>8, <1>9, <1>10, <1>11 DEF IInv

(* A request that ends, whatever it had locked. *)
LEMMA EndOK ==
  ASSUME NEW t \in Slots, slot'[t] = NoSlot
  PROVE  SlotOK(t)' /\ Holds(t)' = {} /\ ~ Busy(t)'
  <1>1. ~ Busy(t)' /\ Holds(t)' = {}
    BY NoSlotOK DEF Busy, Holds
  <1> QED BY <1>1, NoSlotOK DEF SlotOK, Issuing

(* A transaction that ends without a commit keeps the invariant. *)
LEMMA AbortOK ==
  ASSUME IInv, NEW t \in Slots, Abort(t)
  PROVE  IInv'
  <1>1. Moved(t, NoSlot) /\ slot'[t] = NoSlot
    BY NoSlotOK DEF Abort, Go, Moved, IInv, TypeOK
  <1>2. SlotOK(t)' /\ Holds(t)' = {}
    BY <1>1, EndOK
  <1>3. \A u \in Slots \ {t} : slot[u].act = "full" => {NoSlot.doc, NoSlot.copy} \subseteq {NoInvoice}
    BY NoSlotOK
  <1> QED BY <1>1, <1>2, <1>3, NoSlotOK, MovedOK

(* Showing the issue dialog keeps the invariant. *)
LEMMA LookOK ==
  ASSUME IInv, NEW t \in Slots, NEW i \in Invoices, Look(t, i)
  PROVE  IInv'
  <1> DEFINE x == [NoSlot EXCEPT !.at = "looked", !.doc = i, !.of = inv[i].of,
                                 !.seen = Fingerprint(i, client)]
  <1>1. Fingerprint(i, client) \in Seen /\ inv[i].of \in Invoices \cup {NoInvoice} /\ "looked" \in Places
    BY FingerprintOK, RowFields DEF IInv, TypeOK, Places
  <1>2. /\ x \in Slot /\ x.at = "looked" /\ x.act = "issue" /\ x.doc = i
        /\ x.of = inv[i].of /\ x.copy = NoInvoice
    BY <1>1, NoSlotOK DEF Slot
  <1>3. Moved(t, x) /\ slot'[t] = x /\ inv' = inv
    BY <1>2 DEF Look, Go, Moved, IInv, TypeOK
  <1>4. ~ Busy(t)' /\ Holds(t)' = {}
    BY <1>2, <1>3 DEF Busy, Holds
  <1>5. SlotOK(t)'
    BY <1>2, <1>3, <1>4 DEF SlotOK, Issuing, IInv, Rows
  <1>6. \A u \in Slots \ {t} : slot[u].act = "full" =>
          {x.doc, x.copy} \cap {slot[u].doc, slot[u].copy} \subseteq {NoInvoice}
    <2> SUFFICES ASSUME NEW u \in Slots, slot[u].act = "full"
                 PROVE  i \notin {slot[u].doc, slot[u].copy}
      BY <1>2
    <2>1. Crediting(u) /\ inv[i].status = "DRAFT"
      BY DEF IInv, SlotOK, Look
    <2> QED BY <2>1, ConstantFacts DEF Crediting
  <1> QED BY <1>2, <1>3, <1>4, <1>5, <1>6, MovedOK

(* A request goes on with the documents it has.                             *)
LEMMA OnwardOK ==
  ASSUME IInv, NEW t \in Slots, NEW x, Moved(t, x), slot[t].at # "idle",
         x.act = slot[t].act, x.doc = slot[t].doc, x.of = slot[t].of, x.copy = slot[t].copy,
         x.at # "idle",
         x.act = "full" => Busy(t)',
         Busy(t)' => Busy(t) \/ (x.act = "issue" /\ inv[x.doc].status = "DRAFT" /\ Free(x.doc)),
         x.at = "held" \/ Busy(t)' => slot[t].at = "held" \/ Busy(t) \/ x.of = NoInvoice \/ Free(x.of),
         x.at = "numbered" => x.number = series.next /\ \A u \in Slots \ {t} : slot[u].at # "numbered",
         x.at \in {"checked", "numbered"} => Unchanged(t)',
         x.at \in {"checked", "numbered"} /\ x.of # NoInvoice =>
           /\ CreditAllowed(t)' /\ RateFits(t)'
           /\ x.act = "full" => Covers(slot[t].of, Doc(t).lines)'
  PROVE  IInv'
  <1>1. slot'[t] = x /\ inv' = inv /\ SlotOK(t) /\ slot[t] \in Slot /\ x \in Slot
    BY DEF Moved, IInv, TypeOK
  <1>2. slot[t].act = "issue" => Issuing(t)'
    BY <1>1 DEF SlotOK, Issuing
  <1>3. slot[t].act = "full" => Crediting(t)'
    BY <1>1 DEF SlotOK, Crediting, IssuedNotes
  <1>4. SlotOK(t)'
    BY <1>1, <1>2, <1>3 DEF SlotOK
  <1>5. \A u \in Slots \ {t} : \A i \in Invoices : i \in Holds(t)' => i \notin Holds(u)
    <2> SUFFICES ASSUME NEW u \in Slots \ {t}, NEW i \in Invoices, i \in Holds(t)', i \in Holds(u)
                 PROVE  FALSE
      OBVIOUS
    <2>1. i \notin Holds(t)
      BY DEF IInv, Exclusive
    <2>2. ~ Free(i)
      BY DEF Free
    <2>3. x.act = "issue" => x.copy = NoInvoice
      BY <1>1 DEF SlotOK, Issuing
    <2> QED BY <1>1, <2>1, <2>2, <2>3, ConstantFacts DEF Holds
  <1>6. \A u \in Slots \ {t} : x.act = "full" \/ slot[u].act = "full" =>
          {x.doc, x.copy} \cap {slot[u].doc, slot[u].copy} \subseteq {NoInvoice}
    BY DEF IInv, Apart
  <1> QED BY <1>1, <1>4, <1>5, <1>6, MovedOK

(* Fetching the exchange rate keeps the invariant. *)
LEMMA FetchOK ==
  ASSUME IInv, NEW t \in Slots, Fetch(t)
  PROVE  IInv'
  <1> DEFINE i == slot[t].doc
             fx == IF inv[i].kind = "INVOICE" THEN Wanted(inv[i].terms, inv[i].lines) ELSE NoRate
             x == [slot[t] EXCEPT !.at = "fetched", !.fx = fx]
  <1>1. slot[t].at = "looked" /\ slot[t] \in Slot /\ SlotOK(t) /\ i \in Invoices
    BY DEF IInv, TypeOK, SlotOK, Fetch
  <1>2. fx \in FxRate
    <2>1. inv[i].terms \in Terms /\ inv[i].lines \in Lines
      BY <1>1, RowFields DEF IInv, TypeOK
    <2> QED BY <2>1, WantedOK, ConstantFacts
  <1>3. /\ x \in Slot /\ x.at = "fetched" /\ x.act = slot[t].act /\ x.doc = i
        /\ x.of = slot[t].of /\ x.copy = slot[t].copy
    BY <1>1, <1>2 DEF Slot, Places
  <1>4. Moved(t, x) /\ slot'[t] = x
    BY <1>3 DEF Fetch, Go, Moved, IInv, TypeOK
  <1>5. x.act # "full" /\ ~ Busy(t)'
    BY <1>1, <1>3, <1>4 DEF SlotOK, Crediting, Busy
  <1> QED BY <1>1, <1>3, <1>4, <1>5, OnwardOK

(* Locking a credit note's original keeps the invariant: the row was free. *)
LEMMA LockOriginalOK ==
  ASSUME IInv, NEW t \in Slots, LockOriginal(t)
  PROVE  IInv'
  <1> DEFINE x == [slot[t] EXCEPT !.at = "held"]
  <1>1. slot[t].at = "fetched" /\ slot[t] \in Slot /\ SlotOK(t) /\ Free(slot[t].of)
    BY DEF IInv, TypeOK, LockOriginal
  <1>2. /\ x \in Slot /\ x.at = "held" /\ x.act = slot[t].act /\ x.doc = slot[t].doc
        /\ x.of = slot[t].of /\ x.copy = slot[t].copy
    BY <1>1 DEF Slot, Places
  <1>3. Moved(t, x) /\ slot'[t] = x
    BY <1>2 DEF LockOriginal, Go, Moved, IInv, TypeOK
  <1>4. x.act # "full" /\ ~ Busy(t)'
    BY <1>1, <1>2, <1>3 DEF SlotOK, Crediting, Busy
  <1> QED BY <1>1, <1>2, <1>3, <1>4, OnwardOK

(* Locking the draft keeps the invariant: no other slot has it. *)
LEMMA LockDraftOK ==
  ASSUME IInv, NEW t \in Slots, LockDraft(t)
  PROVE  IInv'
  <1> DEFINE x == [slot[t] EXCEPT !.at = "locked"]
  <1>1. /\ slot[t].at \in {"fetched", "held"} /\ slot[t] \in Slot /\ SlotOK(t)
        /\ Free(slot[t].doc) /\ inv[slot[t].doc].status = "DRAFT"
        /\ slot[t].at = "held" \/ slot[t].of = NoInvoice
    BY DEF IInv, TypeOK, LockDraft
  <1>2. /\ x \in Slot /\ x.at = "locked" /\ x.act = slot[t].act /\ x.doc = slot[t].doc
        /\ x.of = slot[t].of /\ x.copy = slot[t].copy
    BY <1>1 DEF Slot, Places
  <1>3. Moved(t, x) /\ slot'[t] = x
    BY <1>2 DEF LockDraft, Go, Moved, IInv, TypeOK
  <1>4. x.act = "issue"
    BY <1>1, <1>2, SlotFields DEF SlotOK, Crediting, Busy
  <1> QED BY <1>1, <1>2, <1>3, <1>4, OnwardOK

(* A sum of nothing. *)
LEMMA EmptySum ==
  ASSUME NEW f, DOMAIN f = {}
  PROVE  SumFunction(f) = 0
  <1> DEFINE Sums(it) == [s \in SUBSET {} |->
               IF s = {} THEN 0 ELSE LET x == CHOOSE x \in s : TRUE IN f[x] + it[s \ {x}]]
  <1>1. SUBSET {} = {{}}
    OBVIOUS
  <1>2. [s \in {{}} |-> 0] = Sums([s \in {{}} |-> 0])
    BY <1>1
  <1>3. PICK it : it = Sums(it)
    BY <1>2
  <1> QED BY <1>1, <1>3 DEF SumFunction, SumFunctionOnSet, FoldFunctionOnSet, MapThenFoldSet

(* A credit note for everything covers an invoice nothing was credited of.  *)
LEMMA FullCovers ==
  ASSUME IInv, NEW t \in Slots, slot[t].act = "full"
  PROVE  Covers(slot[t].of, Doc(t).lines)
  <1> DEFINE o == slot[t].of
  <1>1. o \in Invoices /\ IssuedNotes(o) = {} /\ Doc(t).lines = inv[o].lines
    <2>1. Crediting(t) /\ o \in Invoices /\ TypeOK
      BY SlotFields DEF IInv, TypeOK, SlotOK, Crediting
    <2>2. Doc(t).lines = NoteFor(o).lines
      BY DEF Doc
    <2> QED BY <2>1, <2>2, CopiesOK DEF Crediting
  <1>2. inv[o].lines.net \in [Rates -> Int]
    BY <1>1, RowFields DEF IInv, TypeOK, Lines
  <1>3. \A r \in Rates : Credited(o, r) = 0
    BY <1>1, EmptySum DEF Credited
  <1> QED BY <1>1, <1>2, <1>3 DEF Covers, Left

(* The document of a request, and what was checked of it, stay when the     *)
(* request only goes on.                                                    *)
LEMMA OnwardChecks ==
  ASSUME IInv, NEW t \in Slots, NEW x, Moved(t, x), Busy(t),
         x.act = slot[t].act, x.doc = slot[t].doc, x.of = slot[t].of, x.seen = slot[t].seen,
         x.fx = slot[t].fx
  PROVE  /\ Unchanged(t) => Unchanged(t)'
         /\ slot[t].of # NoInvoice =>
              /\ CreditAllowed(t) => CreditAllowed(t)'
              /\ RateFits(t) => RateFits(t)'
              /\ Covers(slot[t].of, Doc(t).lines) => Covers(slot[t].of, Doc(t).lines)'
  <1>1. slot'[t] = x /\ inv' = inv /\ client' = client /\ slot[t].of \in Invoices \cup {NoInvoice}
    BY SlotFields DEF Moved, IInv, TypeOK
  <1>2. Doc(t)' = Doc(t)
    BY <1>1 DEF Doc, NoteFor
  <1>3. \A o \in Invoices : IssuedNotes(o)' = IssuedNotes(o)
    BY <1>1 DEF IssuedNotes
  <1>4. Unchanged(t) => Unchanged(t)'
    BY <1>1 DEF Unchanged, Fingerprint
  <1> QED BY <1>1, <1>2, <1>3, <1>4, SameChecks, ConstantFacts

(* The checks under the locks establish what CheckStands and SeenStands say. *)
LEMMA CheckOK ==
  ASSUME IInv, NEW t \in Slots, Check(t)
  PROVE  IInv'
  <1> DEFINE x == [slot[t] EXCEPT !.at = "checked"]
  <1>1. slot[t].at = "locked" /\ slot[t] \in Slot /\ Busy(t)
    BY DEF IInv, TypeOK, Check, Busy
  <1>2. /\ x \in Slot /\ x.at = "checked" /\ x.act = slot[t].act /\ x.doc = slot[t].doc
        /\ x.of = slot[t].of /\ x.copy = slot[t].copy /\ x.seen = slot[t].seen /\ x.fx = slot[t].fx
    BY <1>1 DEF Slot, Places
  <1>3. Moved(t, x) /\ slot'[t] = x
    BY <1>2 DEF Check, Go, Moved, IInv, TypeOK
  <1>4. Busy(t)'
    BY <1>2, <1>3 DEF Busy
  <1>5. Unchanged(t)'
    BY <1>1, <1>2, <1>3, OnwardChecks DEF Check
  <1>6. slot[t].of # NoInvoice =>
          /\ CreditAllowed(t)' /\ RateFits(t)'
          /\ x.act = "full" => Covers(slot[t].of, Doc(t).lines)'
    BY <1>1, <1>2, <1>3, OnwardChecks, FullCovers DEF Check
  <1>7. slot[t].at # "idle" /\ x.at # "idle" /\ x.at # "numbered" /\ x.at # "held"
    BY <1>1, <1>2
  <1> HIDE DEF x
  <1> QED BY <1>1, <1>2, <1>3, <1>4, <1>5, <1>6, <1>7, OnwardOK

(* Taking the number keeps the invariant: one slot at a time holds the series. *)
LEMMA NumberOK ==
  ASSUME IInv, NEW t \in Slots, Number(t)
  PROVE  IInv'
  <1> DEFINE x == [slot[t] EXCEPT !.at = "numbered", !.number = series.next]
  <1>1. slot[t].at = "checked" /\ slot[t] \in Slot /\ Busy(t) /\ SeriesFree /\ series.next \in Nat
    BY DEF IInv, TypeOK, Number, Busy
  <1>2. /\ x \in Slot /\ x.at = "numbered" /\ x.act = slot[t].act /\ x.doc = slot[t].doc
        /\ x.of = slot[t].of /\ x.copy = slot[t].copy /\ x.seen = slot[t].seen /\ x.fx = slot[t].fx
        /\ x.number = series.next
    BY <1>1 DEF Slot, Places
  <1>3. Moved(t, x) /\ slot'[t] = x
    BY <1>2 DEF Number, Go, Moved, IInv, TypeOK
  <1>4. Busy(t)'
    BY <1>2, <1>3 DEF Busy
  <1>5. Unchanged(t)'
    BY <1>1, <1>2, <1>3, OnwardChecks DEF IInv, SeenStands
  <1>6. slot[t].of # NoInvoice =>
          /\ CreditAllowed(t)' /\ RateFits(t)'
          /\ x.act = "full" => Covers(slot[t].of, Doc(t).lines)'
    BY <1>1, <1>2, <1>3, OnwardChecks DEF IInv, CheckStands
  <1>7. slot[t].at # "idle" /\ x.at # "idle" /\ \A u \in Slots \ {t} : slot[u].at # "numbered"
    BY <1>1, <1>2 DEF SeriesFree
  <1> HIDE DEF x
  <1> QED BY <1>1, <1>2, <1>3, <1>4, <1>5, <1>6, <1>7, OnwardOK

(* creditInFull's own note and copy are rows that nobody else has. *)
LEMMA BeginFullOK ==
  ASSUME IInv, NEW t \in Slots, NEW o \in Invoices, BeginFull(t, o)
  PROVE  IInv'
  <1>1. PICK i \in Invoices, c \in Invoices \cup {NoInvoice} :
          /\ Fresh(i) /\ i # c
          /\ c \in Invoices => Fresh(c)
          /\ Go(t, [NoSlot EXCEPT !.at = "locked", !.act = "full", !.doc = i, !.of = o, !.copy = c])
    BY DEF BeginFull
  <1> DEFINE x == [NoSlot EXCEPT !.at = "locked", !.act = "full", !.doc = i, !.of = o, !.copy = c]
  <1>2. /\ x \in Slot /\ x.at = "locked" /\ x.act = "full" /\ x.doc = i /\ x.of = o /\ x.copy = c
    BY NoSlotOK DEF Slot, Places
  <1>3. Moved(t, x) /\ slot'[t] = x /\ inv' = inv
    BY <1>1, <1>2 DEF BeginFull, Go, Moved, IInv, TypeOK
  <1>4. Busy(t)' /\ Holds(t)' = {o, i, c}
    BY <1>2, <1>3 DEF Busy, Holds
  <1>5. Free(o) /\ Free(i) /\ (c \in Invoices => Free(c))
    BY <1>1, FreshIsFree DEF BeginFull
  <1>6. Crediting(t)'
    BY <1>1, <1>2, <1>3, <1>4, ConstantFacts DEF Crediting, BeginFull, Creditable, IssuedNotes, Fresh
  <1>7. SlotOK(t)'
    BY <1>2, <1>3, <1>6 DEF SlotOK, BeginFull, Creditable, Issued
  <1>8. \A u \in Slots \ {t} : {i, c} \cap {slot[u].doc, slot[u].copy} \subseteq {NoInvoice}
    BY <1>1 DEF Fresh
  <1>9. \A u \in Slots \ {t} : \A j \in Invoices : j \in Holds(t)' => j \notin Holds(u)
    BY <1>4, <1>5 DEF Free
  <1> QED BY <1>2, <1>3, <1>7, <1>8, <1>9, MovedOK

(* The issued document is the one the request made, with its number.        *)
LEMMA IssuedDocOK ==
  ASSUME IInv, NEW t \in Slots, Busy(t)
  PROVE  /\ IssuedDoc(t) \in Invoice /\ NetsFit(IssuedDoc(t))
         /\ IssuedDoc(t).status = "ISSUED" /\ IssuedDoc(t).number = slot[t].number
         /\ IssuedDoc(t).kind = Doc(t).kind /\ IssuedDoc(t).of = Doc(t).of
         /\ IssuedDoc(t).terms = Doc(t).terms /\ IssuedDoc(t).text = Doc(t).text
         /\ IssuedDoc(t).lines = Doc(t).lines
         /\ slot[t].of = NoInvoice => IssuedDoc(t).buyer = client
  <1> DEFINE o == slot[t].of
             b == IF o = NoInvoice THEN client ELSE inv[o].buyer
             fx == RateOf(t)
  <1>1. Doc(t) \in Invoice /\ NetsFit(Doc(t)) /\ TypeOK
    BY DocOK DEF IInv
  <1>2. o \in Invoices \cup {NoInvoice} /\ slot[t].number \in Nat
    BY SlotFields, <1>1 DEF TypeOK
  <1>3. b \in Details
    BY <1>1, <1>2, RowFields DEF TypeOK
  <1>4. fx \in FxRate
    BY <1>1, RateOfOK
  <1>5. "ISSUED" \in Statuses
    BY ConstantFacts
  <1>6. IssuedDoc(t) = [Doc(t) EXCEPT !.status = "ISSUED", !.number = slot[t].number, !.fx = fx, !.buyer = b]
    BY DEF IssuedDoc
  <1> HIDE DEF fx, b
  <1>7. IssuedDoc(t) \in Invoice
    BY <1>1, <1>2, <1>3, <1>4, <1>5, <1>6 DEF Invoice
  <1>8. /\ IssuedDoc(t).status = "ISSUED" /\ IssuedDoc(t).number = slot[t].number
        /\ IssuedDoc(t).kind = Doc(t).kind /\ IssuedDoc(t).of = Doc(t).of
        /\ IssuedDoc(t).terms = Doc(t).terms /\ IssuedDoc(t).text = Doc(t).text
        /\ IssuedDoc(t).lines = Doc(t).lines /\ IssuedDoc(t).buyer = b
    BY <1>1, <1>6 DEF Invoice
  <1>9. o = NoInvoice => b = client
    BY DEF b
  <1> QED BY <1>1, <1>7, <1>8, <1>9 DEF NetsFit

(* What a commit writes: the document, perhaps its invoice's status, and    *)
(* perhaps a corrected copy; three different rows.                          *)
LEMMA CommitRows ==
  ASSUME IInv, NEW t \in Slots, Commit(t)
  PROVE  LET d == slot[t].doc
             o == slot[t].of
             c == slot[t].copy
         IN  /\ Busy(t) /\ d \in Invoices /\ inv[d].status \notin Issued /\ d # o /\ d # c
             /\ o \in Invoices \cup {NoInvoice} /\ c \in Invoices \cup {NoInvoice}
             /\ o # NoInvoice => inv[o].status \in Issued /\ o # c
             /\ c # NoInvoice => slot[t].act = "full" /\ o # NoInvoice /\ inv[c].status = "ABSENT"
             /\ slot[t].act = "issue" => inv[d].status = "DRAFT" /\ inv[d].of = o
             /\ inv'[d] = IssuedDoc(t)
             /\ o # NoInvoice => inv'[o] = inv[o] \/ inv'[o] = [inv[o] EXCEPT !.status = "CREDITED"]
             /\ c # NoInvoice => inv'[c] = CopyOf(o)
             /\ \A i \in Invoices \ {d, o, c} : inv'[i] = inv[i]
             /\ DOMAIN inv' = Invoices /\ inv' = [i \in Invoices |-> inv'[i]]
  <1> DEFINE d == slot[t].doc
             o == slot[t].of
             c == slot[t].copy
             covered == o # NoInvoice /\ Covers(o, Doc(t).lines)
  <1>1. /\ Busy(t) /\ d \in Invoices /\ SlotOK(t) /\ NoInvoice \notin Invoices
        /\ o \in Invoices \cup {NoInvoice} /\ c \in Invoices \cup {NoInvoice}
        /\ slot[t].act \in {"issue", "full"} /\ slot[t].at # "idle"
    BY DocOK, SlotFields, ConstantFacts DEF Commit, Busy, IInv, TypeOK
  <1>2. inv[d].status \notin Issued
    BY <1>1, DocOK, ConstantFacts
  <1>3. o # NoInvoice => inv[o].status \in Issued
    BY <1>1 DEF SlotOK
  <1>4. c # NoInvoice => slot[t].act = "full" /\ o # NoInvoice /\ inv[c].status = "ABSENT" /\ c # d
    BY <1>1 DEF SlotOK, Issuing, Crediting
  <1>5. d # o /\ d # c
    BY <1>1, <1>2, <1>3, <1>4
  <1>6. o # NoInvoice => o # c
    BY <1>1, <1>3, <1>4, ConstantFacts
  <1>7. slot[t].act = "issue" => inv[d].status = "DRAFT" /\ inv[d].of = o
    BY <1>1 DEF SlotOK, Issuing
  <1>8. inv' = [i \in Invoices |->
           CASE i = d -> IssuedDoc(t)
             [] i = o /\ covered -> [inv[i] EXCEPT !.status = "CREDITED"]
             [] i = c -> CopyOf(o)
             [] OTHER -> inv[i]]
    BY DEF Commit
  <1>9. inv'[d] = IssuedDoc(t)
    BY <1>1, <1>5, <1>8
  <1>10. ASSUME o # NoInvoice PROVE inv'[o] = inv[o] \/ inv'[o] = [inv[o] EXCEPT !.status = "CREDITED"]
    <2>1. o \in Invoices /\ o # d /\ o # c
      BY <1>1, <1>5, <1>6, <1>10
    <2>2. CASE covered
      BY <1>8, <2>1, <2>2
    <2>3. CASE ~ covered
      BY <1>8, <2>1, <2>3
    <2> QED BY <2>2, <2>3
  <1>11. ASSUME c # NoInvoice PROVE inv'[c] = CopyOf(o)
    BY <1>1, <1>4, <1>5, <1>6, <1>8, <1>11
  <1>12. \A i \in Invoices \ {d, o, c} : inv'[i] = inv[i]
    BY <1>8
  <1>13. DOMAIN inv' = Invoices /\ inv' = [i \in Invoices |-> inv'[i]]
    BY <1>8
  <1> QED BY <1>1, <1>2, <1>3, <1>4, <1>5, <1>6, <1>7, <1>9, <1>10, <1>11, <1>12, <1>13

(* What was issued keeps what it says. *)
LEMMA CommitFreezes ==
  ASSUME IInv, NEW t \in Slots, Commit(t), NEW i \in Invoices, inv[i].status \in Issued
  PROVE  /\ Content(inv'[i]) = Content(inv[i])
         /\ inv'[i].status \in Issued /\ inv'[i].sent = inv[i].sent
         /\ inv[i].status = "CREDITED" => inv'[i].status = "CREDITED"
  <1>1. i \notin {slot[t].doc, slot[t].copy}
    BY CommitRows, ConstantFacts
  <1>2. CASE i = slot[t].of
    <2>1. inv'[i] = inv[i] \/ inv'[i] = [inv[i] EXCEPT !.status = "CREDITED"]
      BY <1>2, CommitRows, ConstantFacts
    <2>2. inv[i] \in Invoice
      BY DEF IInv, TypeOK
    <2>3. "CREDITED" \in Issued
      BY DEF Issued
    <2> QED BY <2>1, <2>2, <2>3 DEF Content, Invoice
  <1>3. CASE i # slot[t].of
    BY <1>1, <1>3, CommitRows
  <1> QED BY <1>2, <1>3

(* What was not issued is so only when it is the document of the commit.    *)
LEMMA CommitIssues ==
  ASSUME IInv, NEW t \in Slots, Commit(t), NEW i \in Invoices
  PROVE  inv'[i].status \in Issued <=> inv[i].status \in Issued \/ i = slot[t].doc
  <1>1. CASE inv[i].status \in Issued
    BY <1>1, CommitFreezes
  <1>2. CASE i = slot[t].doc
    BY <1>2, CommitRows, IssuedDocOK DEF Issued, Open
  <1>3. CASE inv[i].status \notin Issued /\ i # slot[t].doc /\ i = slot[t].copy
    <2>1. inv'[i] = CopyOf(slot[t].of) /\ slot[t].of \in Invoices
      BY <1>3, CommitRows, ConstantFacts
    <2>2. CopyOf(slot[t].of).status = "DRAFT"
      BY <2>1, CopiesOK DEF IInv
    <2> QED BY <1>3, <2>1, <2>2, ConstantFacts
  <1>4. CASE inv[i].status \notin Issued /\ i # slot[t].doc /\ i # slot[t].copy
    <2>1. i # slot[t].of
      BY <1>4, CommitRows, ConstantFacts
    <2> QED BY <1>4, <2>1, CommitRows
  <1> QED BY <1>1, <1>2, <1>3, <1>4

(* The document as the commit leaves it. *)
LEMMA CommitDoc ==
  ASSUME IInv, NEW t \in Slots, Commit(t), NEW d, d = slot[t].doc
  PROVE  /\ inv'[d] \in Invoice /\ NetsFit(inv'[d])
         /\ inv'[d].status = "ISSUED" /\ inv'[d].number = slot[t].number
         /\ inv'[d].of = slot[t].of
         /\ inv'[d].kind = "INVOICE" <=> slot[t].of = NoInvoice
  <1>1. Busy(t) /\ inv'[d] = IssuedDoc(t)
    BY CommitRows
  <1>2. /\ IssuedDoc(t) \in Invoice /\ NetsFit(IssuedDoc(t))
        /\ IssuedDoc(t).status = "ISSUED" /\ IssuedDoc(t).number = slot[t].number
        /\ IssuedDoc(t).kind = Doc(t).kind /\ IssuedDoc(t).of = Doc(t).of
    BY <1>1, IssuedDocOK
  <1>3. Doc(t).of = slot[t].of /\ (Doc(t).kind = "INVOICE" <=> slot[t].of = NoInvoice)
    BY <1>1, DocOK
  <1> QED BY <1>1, <1>2, <1>3

(* The others do not notice a commit: they hold none of its rows. *)
LEMMA CommitUndisturbs ==
  ASSUME IInv, NEW t \in Slots, Commit(t), NEW u \in Slots \ {t}
  PROVE  Undisturbed(u)
  <1> DEFINE d == slot[t].doc
             o == slot[t].of
             c == slot[t].copy
             p == slot[u].of
             e == slot[u].doc
  <1>1. slot'[u] = slot[u] /\ client' = client
    BY DEF Commit, Go, IInv, TypeOK
  <1>2. \A i \in Invoices : i \in Holds(t) => i \notin Holds(u)
    BY DEF IInv, Exclusive
  <1>3. {d, o, c} \subseteq Holds(t)
    BY CommitRows DEF Holds
  <1>4. \A i \in Invoices : i \in Holds(u) => inv'[i] = inv[i]
    BY <1>2, <1>3, CommitRows
  <1>5. SlotOK(u) /\ p \in Invoices \cup {NoInvoice}
    BY SlotFields DEF IInv, TypeOK
  <1>6. p # NoInvoice => inv'[p].status \in Issued
    BY <1>5, CommitFreezes DEF SlotOK
  <1>7. ASSUME p # NoInvoice, Busy(u)
        PROVE  /\ IssuedNotes(p)' = IssuedNotes(p)
               /\ \A i \in IssuedNotes(p) : inv'[i].lines = inv[i].lines
    <2>1. p # o
      BY <1>2, <1>3, <1>5, <1>7 DEF Holds
    <2>2. inv'[d].of # p /\ inv[d].status \notin Issued
      BY <2>1, CommitRows, CommitDoc
    <2>3. ASSUME NEW i \in Invoices, inv[i].status \in Issued
          PROVE  inv'[i].status \in Issued /\ inv'[i].kind = inv[i].kind /\ inv'[i].of = inv[i].of
                   /\ inv'[i].lines = inv[i].lines
      BY <2>3, CommitFreezes DEF Content
    <2>4. ASSUME NEW i \in Invoices, inv[i].status \notin Issued, i # d
          PROVE  inv'[i].status \notin Issued
      BY <2>4, CommitIssues
    <2>5. ASSUME NEW i \in Invoices
          PROVE  i \in IssuedNotes(p)' <=> i \in IssuedNotes(p)
      <3>1. CASE inv[i].status \in Issued
        BY <1>1, <2>3, <3>1 DEF IssuedNotes
      <3>2. CASE inv[i].status \notin Issued /\ i # d
        BY <1>1, <2>4, <3>2 DEF IssuedNotes
      <3>3. CASE i = d
        BY <1>1, <2>2, <3>3 DEF IssuedNotes
      <3> QED BY <3>1, <3>2, <3>3
    <2>6. IssuedNotes(p) \subseteq Invoices /\ IssuedNotes(p)' \subseteq Invoices
      BY DEF IssuedNotes
    <2> QED BY <2>3, <2>5, <2>6 DEF IssuedNotes
  <1>8. ASSUME e \in Invoices, inv'[e].status # "ABSENT"
        PROVE  inv[e].status # "ABSENT" /\ inv'[e].of = inv[e].of
    <2>1. CASE e = d
      <3>1. slot[t].act # "full"
        BY <1>8, <2>1, ConstantFacts DEF IInv, Apart
      <3>2. slot[t].act = "issue"
        BY <3>1, SlotFields DEF IInv, TypeOK
      <3>3. inv[d].status = "DRAFT" /\ inv[d].of = o
        BY <3>2, CommitRows
      <3>4. inv'[d].of = o
        BY CommitDoc
      <3> QED BY <2>1, <3>3, <3>4
    <2>2. CASE e = c
      <3>1. c # NoInvoice
        BY <1>8, <2>2, ConstantFacts
      <3>2. slot[t].act = "full"
        BY <3>1, CommitRows
      <3> QED BY <1>8, <2>2, <3>1, <3>2 DEF IInv, Apart
    <2>3. CASE e = o
      <3>1. inv[e].status \in Issued
        BY <1>8, <2>3, CommitRows, ConstantFacts
      <3> QED BY <1>8, <3>1, CommitFreezes, ConstantFacts DEF Content
    <2>4. CASE e \notin {d, o, c}
      BY <1>8, <2>4, CommitRows
    <2> QED BY <2>1, <2>2, <2>3, <2>4
  <1> QED BY <1>1, <1>4, <1>6, <1>7, <1>8 DEF Undisturbed

(* The commit keeps the invariant: its number is the next one, its rows its own. *)
LEMMA CommitOK ==
  ASSUME IInv, NEW t \in Slots, Commit(t)
  PROVE  IInv'
  <1> DEFINE d == slot[t].doc
             o == slot[t].of
             c == slot[t].copy
             n == series.next
  <1>1. /\ slot' = [slot EXCEPT ![t] = NoSlot] /\ client' = client
        /\ series' = [series EXCEPT !.next = slot[t].number + 1]
        /\ slot[t].at = "numbered" /\ TypeOK /\ Busy(t)
    BY DEF Commit, Go, IInv, Busy
  <1>2. slot'[t] = NoSlot /\ \A u \in Slots \ {t} : slot'[u] = slot[u]
    BY <1>1 DEF TypeOK
  <1>3. /\ slot[t].number = n /\ n \in Nat /\ series.first \in Nat /\ series.first <= n
        /\ series' = [first |-> series.first, next |-> n + 1]
    BY <1>1 DEF IInv, OneNumber, TypeOK
  <1>4. \A i \in Invoices : inv'[i] \in Invoice /\ NetsFit(inv'[i])
    <2> SUFFICES ASSUME NEW i \in Invoices PROVE inv'[i] \in Invoice /\ NetsFit(inv'[i])
      OBVIOUS
    <2>1. CASE i = d
      BY <2>1, CommitDoc
    <2>2. CASE i = c
      <3>1. inv'[c] = CopyOf(o) /\ o \in Invoices
        BY <2>2, CommitRows, ConstantFacts
      <3> QED BY <1>1, <2>2, <3>1, CopiesOK
    <2>3. CASE i = o
      <3>1. inv'[o] = inv[o] \/ inv'[o] = [inv[o] EXCEPT !.status = "CREDITED"]
        BY <2>3, CommitRows, ConstantFacts
      <3>2. inv[o] \in Invoice /\ NetsFit(inv[o]) /\ "CREDITED" \in Statuses
        BY <1>1, <2>3, ConstantFacts DEF TypeOK, NetsFit
      <3>3. [inv[o] EXCEPT !.status = "CREDITED"] \in Invoice /\ NetsFit([inv[o] EXCEPT !.status = "CREDITED"])
        BY <3>2 DEF Invoice, NetsFit
      <3> QED BY <2>3, <3>1, <3>2, <3>3
    <2>4. CASE i \notin {d, o, c}
      <3>1. inv'[i] = inv[i]
        BY <2>4, CommitRows
      <3> QED BY <1>1, <3>1 DEF TypeOK, NetsFit
    <2> QED BY <2>1, <2>2, <2>3, <2>4
  <1>5. inv' \in [Invoices -> Invoice]
    BY <1>4, CommitRows
  <1>6. TypeOK'
    BY <1>1, <1>3, <1>4, <1>5, NoSlotOK DEF TypeOK, NetsFit
  <1>7. Rows'
    <2> SUFFICES ASSUME NEW i \in Invoices
                 PROVE  /\ inv'[i].kind = "INVOICE" <=> inv'[i].of = NoInvoice
                        /\ inv'[i].of # NoInvoice => inv'[inv'[i].of].status \in Issued
      BY DEF Rows
    <2>1. \A j \in Invoices : inv[j].status \in Issued => inv'[j].status \in Issued
      BY CommitFreezes
    <2>2. CASE i = d
      <3>1. inv'[i].of = o /\ (inv'[i].kind = "INVOICE" <=> o = NoInvoice)
        BY <2>2, CommitDoc
      <3>2. o # NoInvoice => o \in Invoices /\ inv[o].status \in Issued
        BY CommitRows
      <3> QED BY <2>1, <3>1, <3>2
    <2>3. CASE i = c
      <3>1. inv'[c] = CopyOf(o) /\ o \in Invoices
        BY <2>3, CommitRows, ConstantFacts
      <3> QED BY <1>1, <2>3, <3>1, CopiesOK
    <2>4. CASE i = o
      <3>1. inv'[i].kind = inv[i].kind /\ inv'[i].of = inv[i].of
        BY <2>4, CommitRows, CommitFreezes, ConstantFacts DEF Content
      <3>2. inv[i].of \in Invoices \cup {NoInvoice}
        BY <1>1, RowFields DEF TypeOK
      <3> QED BY <2>1, <3>1, <3>2 DEF IInv, Rows
    <2>5. CASE i \notin {d, o, c}
      <3>1. inv'[i] = inv[i] /\ inv[i].of \in Invoices \cup {NoInvoice}
        BY <1>1, <2>5, CommitRows, RowFields DEF TypeOK
      <3> QED BY <2>1, <3>1 DEF IInv, Rows
    <2> QED BY <2>2, <2>3, <2>4, <2>5
  <1>8. \A u \in Slots \ {t} : Undisturbed(u)
    BY CommitUndisturbs
  <1>9. SlotOK(t)' /\ Holds(t)' = {} /\ ~ Busy(t)'
    BY <1>2, EndOK
  <1>10. \A u \in Slots : SlotOK(u)'
    BY <1>8, <1>9, StaysOK
  <1>11. Exclusive'
    BY <1>8, <1>9, StaysOK DEF IInv, Exclusive
  <1>12. Apart'
    BY <1>2, NoSlotOK DEF IInv, Apart
  <1>13. OneNumber'
    BY <1>1, <1>2, <1>3, NoSlotOK DEF IInv, OneNumber
  <1>14. SeenStands'
    BY <1>2, <1>8, NoSlotOK, StaysOK DEF SeenStands
  <1>15. CheckStands'
    BY <1>2, <1>8, NoSlotOK, StaysOK DEF CheckStands
  <1>16. NumbersUnbroken'
    <2>1. \A i \in Invoices : inv'[i].status \in Issued <=> inv[i].status \in Issued \/ i = d
      BY CommitIssues
    <2>2. \A i \in Invoices : inv[i].status \in Issued => inv'[i].number = inv[i].number
      BY CommitFreezes DEF Content
    <2>3. d \in Invoices /\ inv[d].status \notin Issued /\ inv'[d].number = n
      <3>1. inv'[d].number = slot[t].number
        BY CommitDoc
      <3> QED BY <1>3, <3>1, CommitRows
    <2>4. {inv[i].number : i \in {j \in Invoices : inv[j].status \in Issued}} = series.first .. n - 1
      BY DEF IInv, NumbersUnbroken
    <2>5. \A i \in Invoices : inv[i].status \in Issued => inv[i].number \in series.first .. n - 1
      BY <2>4
    <2>6. {inv'[i].number : i \in {j \in Invoices : inv'[j].status \in Issued}}
            = {inv[i].number : i \in {j \in Invoices : inv[j].status \in Issued}} \cup {n}
      BY <2>1, <2>2, <2>3
    <2>7. (series.first .. n - 1) \cup {n} = series.first .. n
      BY <1>3
    <2>8. ASSUME NEW i \in Invoices, NEW j \in Invoices,
                 inv'[i].status \in Issued, inv'[j].status \in Issued, inv'[i].number = inv'[j].number
          PROVE  i = j
      <3>1. n \notin series.first .. n - 1
        BY <1>3
      <3>2. CASE i = d \/ j = d
        BY <2>1, <2>2, <2>3, <2>5, <2>8, <3>1, <3>2
      <3>3. CASE i # d /\ j # d
        BY <2>1, <2>2, <2>8, <3>3 DEF IInv, NumbersUnbroken
      <3> QED BY <3>2, <3>3
    <2>9. series'.first = series.first /\ series'.next - 1 = n
      BY <1>3
    <2> QED BY <2>4, <2>6, <2>7, <2>8, <2>9 DEF NumbersUnbroken
  <1> QED BY <1>6, <1>7, <1>10, <1>11, <1>12, <1>13, <1>14, <1>15, <1>16 DEF IInv

-----------------------------------------------------------------------------
(* The theorems *)

(* The invariant holds of empty tables and idle requests. *)
LEMMA InitOK == Init => IInv
  <1> SUFFICES ASSUME Init PROVE IInv
    OBVIOUS
  <1>1. /\ \A i \in Invoices : inv[i] = NoRow
        /\ \A t \in Slots : slot[t] = NoSlot
        /\ series = NoSeries /\ client = SomeBuyer
    BY DEF Init
  <1>2. TypeOK
    BY NoRowOK, NoSlotOK, ConstantFacts DEF Init, TypeOK, NetsFit, NoSeries
  <1>3. \A i \in Invoices : inv[i].status = "ABSENT" /\ inv[i].kind = "INVOICE" /\ inv[i].of = NoInvoice
    BY <1>1 DEF NoRow
  <1>4. Rows
    BY <1>3 DEF Rows
  <1>5. \A t \in Slots : ~ Busy(t) /\ SlotOK(t) /\ Holds(t) = {}
    BY <1>1, NoSlotOK DEF Busy, SlotOK, Issuing, Holds
  <1>6. Apart /\ Exclusive /\ SeenStands /\ CheckStands
    BY <1>1, <1>5, NoSlotOK DEF Apart, Exclusive, SeenStands, CheckStands
  <1>7. OneNumber
    BY <1>1, NoSlotOK DEF OneNumber, NoSeries
  <1>8. NumbersUnbroken
    <2>1. {j \in Invoices : inv[j].status \in Issued} = {}
      BY <1>3, ConstantFacts
    <2>2. 0 .. 0 - 1 = {}
      OBVIOUS
    <2> QED BY <1>1, <2>1, <2>2 DEF NumbersUnbroken, NoSeries
  <1> QED BY <1>2, <1>4, <1>5, <1>6, <1>7, <1>8 DEF IInv

(* Every step of the ledger keeps the invariant. *)
LEMMA StepOK == IInv /\ [Next]_vars => IInv'
  <1> SUFFICES ASSUME IInv, [Next]_vars PROVE IInv'
    OBVIOUS
  <1>1. CASE UNCHANGED vars
    <2>1. inv' = inv /\ slot' = slot /\ client' = client /\ series' = series
      BY <1>1 DEF vars
    <2>2. \A t \in Slots : Undisturbed(t)
      BY <2>1, SameRowsUndisturb
    <2>3. TypeOK' /\ Rows' /\ OneNumber' /\ NumbersUnbroken'
      BY <2>1 DEF IInv, TypeOK, Rows, OneNumber, NumbersUnbroken
    <2> QED BY <2>1, <2>2, <2>3, AllStay DEF IInv
  <1>2. CASE EditClient \/ \E n \in Firsts : SetFirst(n)
    BY <1>2, EditClientOK, SetFirstOK
  <1>3. CASE \E i \in Invoices : \E x : Drafted(i, x) \/ Marked(i, x)
    BY <1>3, WrittenOK
  <1>4. ASSUME NEW t \in Slots,
               \/ Fetch(t) \/ LockOriginal(t) \/ LockDraft(t) \/ Check(t) \/ Number(t) \/ Commit(t)
               \/ Abort(t) \/ \E i \in Invoices : Look(t, i) \/ BeginFull(t, i)
        PROVE  IInv'
    BY <1>4, FetchOK, LockOriginalOK, LockDraftOK, CheckOK, NumberOK, CommitOK, AbortOK, LookOK, BeginFullOK
  <1> QED BY <1>1, <1>2, <1>3, <1>4, Steps

(* The invariant holds in every reachable state. *)
LEMMA Invariance == Spec => []IInv
  BY InitOK, StepOK, PTL DEF Spec

(* The variables of issuing and crediting keep their types. *)
THEOREM Typed == Spec => []TypeOK
  BY Invariance, PTL DEF IInv

(* Issued numbers are consecutive and never taken twice, for any number of  *)
(* issues under way and however many of them fail.                          *)
THEOREM Unbroken == Spec => []NumbersUnbroken
  BY Invariance, PTL DEF IInv

(* What an issue checked under its locks still holds when the guard asks    *)
(* and when it commits: two credit notes cannot both take an invoice's rest. *)
THEOREM Checked == Spec => []CheckStands
  BY Invariance, PTL DEF IInv

(* Nothing is issued that the issuer was not shown.                         *)
THEOREM AsSeen == Spec => IssuedAsSeen
  <1> DEFINE A(t) == slot[t].act = "issue" /\ slot[t].at = "numbered" /\ inv' # inv /\ slot'[t] # slot[t]
             Shown(t) == LET d == inv'[slot[t].doc]
                         IN  slot[t].seen = [terms |-> d.terms, text |-> d.text, lines |-> d.lines,
                                             buyer |-> IF d.kind = "INVOICE" THEN d.buyer ELSE SomeBuyer]
  <1>1. ASSUME IInv, [Next]_vars, NEW t \in Slots, A(t)
        PROVE  Shown(t)
    <2>1. \E u \in Slots : Commit(u)
      BY <1>1, Steps DEF vars, EditClient, SetFirst, Drafted, Marked, Written, Fetch, LockOriginal, LockDraft,
                         Check, Number, Abort, Look, BeginFull
    <2>2. Commit(t)
      <3>1. PICK u \in Slots : Commit(u)
        BY <2>1
      <3>2. slot' = [slot EXCEPT ![u] = NoSlot] /\ slot \in [Slots -> Slot]
        BY <1>1, <3>1 DEF Commit, Go, IInv, TypeOK
      <3>3. u = t
        BY <1>1, <3>2
      <3> QED BY <3>1, <3>3
    <2> DEFINE d == slot[t].doc
               o == slot[t].of
    <2>3. inv'[d] = IssuedDoc(t) /\ Busy(t)
      BY <1>1, <2>2, CommitRows
    <2>4. /\ inv'[d].terms = Doc(t).terms /\ inv'[d].text = Doc(t).text /\ inv'[d].lines = Doc(t).lines
          /\ o = NoInvoice => inv'[d].buyer = client
      BY <1>1, <2>3, IssuedDocOK
    <2>5. inv'[d].kind = Doc(t).kind /\ (Doc(t).kind = "INVOICE" <=> o = NoInvoice)
      BY <1>1, <2>3, IssuedDocOK, DocOK
    <2>6. Doc(t) = inv[d] /\ slot[t].seen = Fingerprint(d, client)
      BY <1>1 DEF Doc, IInv, SeenStands, Unchanged
    <2> QED BY <2>4, <2>5, <2>6 DEF Fingerprint
  <1>2. IInv /\ [Next]_vars => [\A t \in Slots : A(t) => Shown(t)]_vars
    BY <1>1
  <1> QED BY Invariance, <1>2, PTL DEF Spec, IssuedAsSeen

(* An issued document says for ever what it said.                           *)
THEOREM Frozen == Spec => IssuedIsFrozen
  <1> DEFINE Same(i) == /\ Content(inv'[i]) = Content(inv[i])
                        /\ inv'[i].status \in Issued
                        /\ inv[i].status = "CREDITED" => inv'[i].status = "CREDITED"
                        /\ inv[i].sent => inv'[i].sent
  <1>1. ASSUME IInv, [Next]_vars, NEW i \in Invoices, inv[i].status \in Issued
        PROVE  Same(i)
    <2>1. CASE inv' = inv
      BY <1>1, <2>1
    <2>2. ASSUME NEW j \in Invoices, NEW x, Drafted(j, x) \/ Marked(j, x)
          PROVE  Same(i)
      <3>1. inv' = [inv EXCEPT ![j] = x] /\ inv \in [Invoices -> Invoice]
        BY <1>1, <2>2 DEF Drafted, Marked, Written, IInv, TypeOK
      <3>2. CASE i # j
        BY <1>1, <3>1, <3>2
      <3>3. CASE i = j
        BY <1>1, <2>2, <3>1, <3>3 DEF Drafted, Marked
      <3> QED BY <3>2, <3>3
    <2>3. ASSUME NEW t \in Slots, Commit(t)
          PROVE  Same(i)
      BY <1>1, <2>3, CommitFreezes
    <2>4. \/ inv' = inv
          \/ \E j \in Invoices : \E x : Drafted(j, x) \/ Marked(j, x)
          \/ \E t \in Slots : Commit(t)
      BY <1>1, Steps DEF vars, EditClient, SetFirst, Fetch, LockOriginal, LockDraft, Check, Number, Abort,
                         Look, BeginFull
    <2> QED BY <2>1, <2>2, <2>3, <2>4
  <1>2. IInv /\ [Next]_vars => [\A i \in Invoices : inv[i].status \in Issued => Same(i)]_vars
    BY <1>1
  <1> QED BY Invariance, <1>2, PTL DEF Spec, IssuedIsFrozen

-----------------------------------------------------------------------------
(* What credit notes take back, and the rates documents are issued at *)

(* What a credit note credits is an invoice, with the credit note's terms.  *)
NotesOf ==
  \A i \in Invoices : inv[i].of # NoInvoice =>
    inv[inv[i].of].kind = "INVOICE" /\ inv[i].terms = inv[inv[i].of].terms

(* So is what is credited in full. *)
FullOf == \A t \in Slots : slot[t].act = "full" => inv[slot[t].of].kind = "INVOICE"

(* An invoice's exchange rate was checked under the lock, and still fits.   *)
RateStands ==
  \A t \in Slots : slot[t].at \in {"checked", "numbered"} /\ slot[t].of = NoInvoice => RateFits(t)

(* The account of one invoice: its credit notes take no more than it        *)
(* charged, cover it exactly when it is CREDITED, and leave a rest above    *)
(* nothing otherwise.                                                       *)
Accounted(o) ==
  inv[o].kind = "INVOICE" /\ inv[o].status \in Issued =>
    /\ \A r \in Rates : Within(Credited(o, r), inv[o].lines.net[r])
    /\ inv[o].status = "CREDITED" <=>
         IssuedNotes(o) # {} /\ \A r \in Rates : Credited(o, r) = inv[o].lines.net[r]
    /\ inv[o].status \in Open /\ IssuedNotes(o) # {} => Total(Left(o, NoLines)) > 0

(* The exchange rate of one issued document, as IssuedAtItsRate has it.     *)
Rated(i) ==
  inv[i].status \in Issued =>
    LET w == Wanted(inv[i].terms, inv[i].lines)
    IN  IF inv[i].kind = "INVOICE" THEN inv[i].fx = w
        ELSE /\ inv[i].fx.why = w.why
             /\ w.why # "none" => inv[i].fx.currency = w.currency /\ inv[i].fx.day = inv[inv[i].of].fx.day

CInv ==
  /\ IInv
  /\ NotesOf
  /\ FullOf
  /\ RateStands
  /\ \A o \in Invoices : Accounted(o)
  /\ \A i \in Invoices : Rated(i)

-----------------------------------------------------------------------------
(* Sums of money *)

(* A whole number is rounded to one. *)
LEMMA RoundInt ==
  ASSUME NEW n \in Int, NEW d \in Nat \ {0}
  PROVE  RoundHalfAway(n, d) \in Int
  BY DEF RoundHalfAway

(* VAT of whole amounts at every rate, and what they come to, are whole.    *)
LEMMA TotalInt ==
  ASSUME NEW net \in [Rates -> Int]
  PROVE  Total(net) \in Int
  <1>1. IsFiniteSet(Rates) /\ Rates \subseteq Nat
    BY LedgerAssumption
  <1>2. SumFunction(net) \in Int
    BY <1>1, SumInt
  <1> DEFINE v == [r \in Rates |-> VatOn(net[r], r)]
  <1>3. \A r \in Rates : v[r] \in Int
    <2> SUFFICES ASSUME NEW r \in Rates PROVE VatOn(net[r], r) \in Int
      OBVIOUS
    <2>1. net[r] \in Int /\ r \in Int
      BY <1>1
    <2>2. net[r] * r \in Int /\ 100 \in Nat \ {0}
      BY <2>1
    <2> QED BY <2>2, RoundInt DEF VatOn
  <1>4. SumFunction(v) \in Int
    <2> HIDE DEF v
    <2>1. DOMAIN v = Rates
      BY DEF v
    <2> QED BY <1>1, <1>3, <2>1, SumInt
  <1> QED BY <1>2, <1>4 DEF Total, Vat

(* However many invoices there may be, only finitely many are issued: each  *)
(* has a number of the series for itself.                                   *)
LEMMA IssuedFinite ==
  ASSUME IInv
  PROVE  IsFiniteSet({i \in Invoices : inv[i].status \in Issued})
  <1> DEFINE S == {i \in Invoices : inv[i].status \in Issued}
             T == series.first .. series.next - 1
             f == [i \in S |-> inv[i].number]
  <1>1. series.first \in Int /\ series.next - 1 \in Int
    BY DEF IInv, TypeOK
  <1>2. IsFiniteSet(T)
    BY <1>1, FS_Interval
  <1>3. \A i \in S : inv[i].number \in T
    BY DEF IInv, NumbersUnbroken
  <1>4. \A i, j \in S : inv[i].number = inv[j].number => i = j
    BY DEF IInv, NumbersUnbroken
  <1>5. f \in Injection(S, T)
    BY <1>3, <1>4 DEF Injection, IsInjective
  <1> HIDE DEF S, T, f
  <1>6. IsFiniteSet(S)
    BY <1>2, <1>5, FS_Injection
  <1> QED BY <1>6 DEF S

(* So are an invoice's credit notes, and what they take is a whole number.  *)
LEMMA NotesFinite ==
  ASSUME IInv, NEW o \in Invoices
  PROVE  /\ IsFiniteSet(IssuedNotes(o))
         /\ \A r \in Rates : Credited(o, r) \in Int
  <1>1. IssuedNotes(o) \in SUBSET {i \in Invoices : inv[i].status \in Issued}
    BY DEF IssuedNotes
  <1>2. IsFiniteSet(IssuedNotes(o))
    BY <1>1, IssuedFinite, FS_Subset
  <1>3. ASSUME NEW r \in Rates
        PROVE  Credited(o, r) \in Int
    <2> DEFINE g == [i \in IssuedNotes(o) |-> inv[i].lines.net[r]]
    <2>1. \A i \in IssuedNotes(o) : g[i] \in Int
      BY RowFields DEF IssuedNotes, IInv, TypeOK, Lines
    <2>2. DOMAIN g = IssuedNotes(o)
      OBVIOUS
    <2> HIDE DEF g
    <2>3. SumFunction(g) \in Int
      BY <1>2, <2>1, <2>2, SumInt
    <2> QED BY <2>3 DEF Credited, g
  <1> QED BY <1>2, <1>3

(* What is left of an invoice is a whole number at each rate.               *)
LEMMA LeftInt ==
  ASSUME IInv, NEW o \in Invoices, NEW l \in Lines
  PROVE  Left(o, l) \in [Rates -> Int]
  <1>1. \A r \in Rates : Credited(o, r) \in Int /\ inv[o].lines.net[r] \in Int /\ l.net[r] \in Int
    BY NotesFinite, RowFields DEF IInv, TypeOK, Lines
  <1> QED BY <1>1 DEF Left

-----------------------------------------------------------------------------
(* Steps that issue nothing *)

(* What is issued stays so, and what it says. *)
Kept ==
  \A i \in Invoices : inv[i].status \in Issued =>
    /\ inv'[i].status \in Issued
    /\ Content(inv'[i]) = Content(inv[i])

(* Nothing more is issued, and nothing is credited or uncredited.           *)
Settled ==
  /\ Kept
  /\ \A i \in Invoices : /\ inv'[i].status \in Issued => inv[i].status \in Issued
                         /\ inv[i].status \in Issued =>
                              (inv'[i].status = "CREDITED" <=> inv[i].status = "CREDITED")

(* A row that credits nothing, or an issued invoice, on its terms. *)
NoteRow(x) ==
  x.of # NoInvoice =>
    x.of \in Invoices /\ inv[x.of].status \in Issued /\ inv[x.of].kind = "INVOICE" /\ x.terms = inv[x.of].terms

(* The rows that are there are such rows. *)
LEMMA RowsAreNotes ==
  ASSUME IInv, NotesOf, NEW i \in Invoices
  PROVE  NoteRow(inv[i])
  <1>1. inv[i].of \in Invoices \cup {NoInvoice}
    BY RowFields DEF IInv, TypeOK
  <1> QED BY <1>1 DEF NotesOf, NoteRow, IInv, Rows

(* Credit notes keep to their invoices when every row written does. *)
LEMMA NotesStay ==
  ASSUME Kept, \A i \in Invoices : NoteRow(inv'[i])
  PROVE  NotesOf'
  BY DEF Kept, Content, NoteRow, NotesOf

(* The account of an invoice depends on its issued credit notes and on its  *)
(* own lines.                                                               *)
LEMMA SameAccount ==
  ASSUME NEW o \in Invoices, Accounted(o),
         IssuedNotes(o)' = IssuedNotes(o), \A i \in IssuedNotes(o) : inv'[i].lines = inv[i].lines,
         inv[o].status \in Issued, inv'[o].status \in Issued,
         inv'[o].kind = inv[o].kind, inv'[o].lines = inv[o].lines,
         inv'[o].status = "CREDITED" <=> inv[o].status = "CREDITED"
  PROVE  Accounted(o)'
  <1>1. \A r \in Rates : Credited(o, r)' = Credited(o, r)
    BY SameCredit
  <1>2. Left(o, NoLines)' = Left(o, NoLines)
    BY <1>1 DEF Left, NoLines
  <1>3. inv'[o].status \in Open <=> inv[o].status \in Open
    BY DEF Issued, Open
  <1> QED BY <1>1, <1>2, <1>3 DEF Accounted

(* Nothing issued: the credit notes and the accounts stay as they are.      *)
LEMMA SettledAccounts ==
  ASSUME Settled, \A o \in Invoices : Accounted(o)
  PROVE  \A o \in Invoices : Accounted(o)'
  <1> SUFFICES ASSUME NEW o \in Invoices PROVE Accounted(o)'
    OBVIOUS
  <1>1. CASE inv[o].status \notin Issued
    BY <1>1 DEF Settled, Accounted
  <1>2. CASE inv[o].status \in Issued
    <2>1. \A i \in Invoices : inv[i].status \in Issued <=> inv'[i].status \in Issued
      BY DEF Settled, Kept
    <2>2. \A i \in Invoices : inv[i].status \in Issued =>
            inv'[i].kind = inv[i].kind /\ inv'[i].of = inv[i].of /\ inv'[i].lines = inv[i].lines
      BY DEF Settled, Kept, Content
    <2>3. IssuedNotes(o)' = IssuedNotes(o)
      BY <2>1, <2>2 DEF IssuedNotes
    <2>4. \A i \in IssuedNotes(o) : inv'[i].lines = inv[i].lines
      BY <2>2 DEF IssuedNotes
    <2>5. inv'[o].status = "CREDITED" <=> inv[o].status = "CREDITED"
      BY <1>2 DEF Settled
    <2> QED BY <1>2, <2>1, <2>2, <2>3, <2>4, <2>5, SameAccount
  <1> QED BY <1>1, <1>2

(* An issued document keeps its rate, and a credit note's invoice its own.  *)
LEMMA KeptRated ==
  ASSUME IInv, Kept, NEW i \in Invoices, inv[i].status \in Issued, Rated(i)
  PROVE  Rated(i)'
  <1> DEFINE o == inv[i].of
  <1>1. /\ inv'[i].kind = inv[i].kind /\ inv'[i].of = o /\ inv'[i].terms = inv[i].terms
        /\ inv'[i].lines = inv[i].lines /\ inv'[i].fx = inv[i].fx
    BY DEF Kept, Content
  <1>2. inv[i].kind # "INVOICE" => o \in Invoices /\ inv'[o].fx = inv[o].fx
    BY RowFields DEF IInv, Rows, TypeOK, Kept, Content
  <1>3. Wanted(inv[i].terms, inv[i].lines)' = Wanted(inv[i].terms, inv[i].lines)
    BY <1>1 DEF Wanted
  <1> QED BY <1>1, <1>2, <1>3 DEF Rated

(* Nothing issued: every issued document keeps its rate. *)
LEMMA SettledRates ==
  ASSUME IInv, Settled, \A i \in Invoices : Rated(i)
  PROVE  \A i \in Invoices : Rated(i)'
  <1> SUFFICES ASSUME NEW i \in Invoices PROVE Rated(i)'
    OBVIOUS
  <1>1. CASE inv[i].status \in Issued
    BY <1>1, KeptRated DEF Settled
  <1>2. CASE inv[i].status \notin Issued
    BY <1>2 DEF Settled, Rated
  <1> QED BY <1>1, <1>2

(* A request that credits in full keeps its invoice. *)
LEMMA FullStays ==
  ASSUME IInv, FullOf, Kept,
         \A t \in Slots : slot'[t].act = "full" => slot[t].act = "full" /\ slot'[t].of = slot[t].of
  PROVE  FullOf'
  <1> SUFFICES ASSUME NEW t \in Slots, slot'[t].act = "full" PROVE inv'[slot'[t].of].kind = "INVOICE"
    BY DEF FullOf
  <1>1. slot[t].act = "full" /\ slot'[t].of = slot[t].of /\ inv[slot[t].of].kind = "INVOICE"
    BY DEF FullOf
  <1>2. slot[t].of \in Invoices /\ inv[slot[t].of].status \in Issued
    BY <1>1, SlotFields DEF IInv, TypeOK, SlotOK, Crediting
  <1> QED BY <1>1, <1>2 DEF Kept, Content

(* Somebody else's step leaves the rate a request has checked.              *)
LEMMA RateStays ==
  ASSUME IInv, RateStands, NEW t \in Slots, Undisturbed(t),
         slot[t].at \in {"checked", "numbered"}, slot[t].of = NoInvoice
  PROVE  RateFits(t)'
  <1>1. slot'[t] = slot[t] /\ slot[t].act = "issue" /\ Busy(t)
    BY SlotFields DEF Undisturbed, IInv, TypeOK, SlotOK, Crediting, Busy
  <1>2. slot[t].doc \in Invoices /\ inv'[slot[t].doc] = inv[slot[t].doc]
    BY <1>1, DocOK DEF Undisturbed, Holds
  <1>3. Doc(t)' = Doc(t)
    BY <1>1, <1>2 DEF Doc
  <1>4. Wanted(Doc(t).terms, Doc(t).lines)' = Wanted(Doc(t).terms, Doc(t).lines)
    BY <1>3 DEF Wanted
  <1>5. RateFits(t)
    BY DEF RateStands
  <1> QED BY <1>1, <1>3, <1>4, <1>5 DEF RateFits

(* A step that issues nothing and leaves every request alone keeps CInv.    *)
LEMMA SettledOK ==
  ASSUME CInv, IInv', Settled, slot' = slot, \A t \in Slots : Undisturbed(t),
         \A i \in Invoices : NoteRow(inv'[i])
  PROVE  CInv'
  <1>1. NotesOf'
    BY NotesStay DEF Settled
  <1>2. FullOf'
    BY FullStays DEF CInv, Settled
  <1>3. RateStands'
    BY RateStays DEF CInv, RateStands
  <1> QED BY <1>1, <1>2, <1>3, SettledAccounts, SettledRates DEF CInv

(* Drafting a row, or marking one, issues nothing.                          *)
LEMMA WrittenSettles ==
  ASSUME IInv, NEW i \in Invoices, NEW x, Drafted(i, x) \/ Marked(i, x)
  PROVE  /\ Settled /\ slot' = slot /\ inv'[i] = x
         /\ \A j \in Invoices \ {i} : inv'[j] = inv[j]
         /\ \A t \in Slots : Undisturbed(t)
         /\ IInv'
  <1>1. inv \in [Invoices -> Invoice] /\ inv' = [inv EXCEPT ![i] = x] /\ slot' = slot
    BY DEF IInv, TypeOK, Drafted, Marked, Written
  <1>2. inv'[i] = x /\ \A j \in Invoices \ {i} : inv'[j] = inv[j]
    BY <1>1
  <1>3. Settled
    BY <1>2 DEF Settled, Kept, Drafted, Marked
  <1> QED BY <1>1, <1>2, <1>3, WrittenUndisturbs, WrittenOK

(* An edited draft stays a credit note of its invoice, on its terms; a new  *)
(* one is made so.                                                          *)
LEMMA DraftNotes ==
  ASSUME CInv, NEW i \in Invoices,
         NewDraft(i) \/ EditLines(i) \/ EditDetails(i) \/ DeleteDraft(i)
           \/ \E o \in Invoices : NewCreditNote(i, o)
  PROVE  NoteRow(inv'[i])
  <1>1. inv \in [Invoices -> Invoice] /\ inv[i] \in Invoice /\ NoteRow(inv[i])
    BY RowsAreNotes DEF CInv, IInv, TypeOK
  <1>2. inv[i].kind = "INVOICE" <=> inv[i].of = NoInvoice
    BY DEF CInv, IInv, Rows
  <1>3. CASE NewDraft(i)
    <2>1. inv'[i].of = NoInvoice
      BY <1>1, <1>3 DEF NewDraft, NoRow
    <2> QED BY <2>1 DEF NoteRow
  <1>4. CASE EditLines(i)
    <2>1. inv'[i].of = inv[i].of /\ inv'[i].terms = inv[i].terms
      BY <1>1, <1>4 DEF EditLines, Invoice
    <2> QED BY <1>1, <2>1 DEF NoteRow
  <1>5. CASE EditDetails(i)
    <2>1. CASE \E y \in Texts : inv' = [inv EXCEPT ![i].text = y]
      <3>1. inv'[i].of = inv[i].of /\ inv'[i].terms = inv[i].terms
        BY <1>1, <2>1 DEF Invoice
      <3> QED BY <1>1, <3>1 DEF NoteRow
    <2>2. CASE inv[i].kind = "INVOICE" /\ \E y \in Terms : inv' = [inv EXCEPT ![i].terms = y]
      <3>1. inv'[i].of = NoInvoice
        BY <1>1, <1>2, <2>2 DEF Invoice
      <3> QED BY <3>1 DEF NoteRow
    <2> QED BY <1>5, <2>1, <2>2 DEF EditDetails
  <1>6. CASE DeleteDraft(i)
    <2>1. inv'[i].of = NoInvoice
      BY <1>1, <1>6 DEF DeleteDraft, NoRow
    <2> QED BY <2>1 DEF NoteRow
  <1>7. ASSUME NEW o \in Invoices, NewCreditNote(i, o)
        PROVE  NoteRow(inv'[i])
    <2>1. inv'[i] = NoteFor(o) /\ Creditable(o)
      BY <1>1, <1>7 DEF NewCreditNote
    <2>2. NoteFor(o).of = o /\ NoteFor(o).terms = inv[o].terms
      BY CopiesOK DEF CInv, IInv
    <2> QED BY <2>1, <2>2 DEF NoteRow, Creditable, Issued
  <1> QED BY <1>3, <1>4, <1>5, <1>6, <1>7

(* Steps on drafts keep CInv. *)
LEMMA DraftsOK ==
  ASSUME CInv, NEW i \in Invoices,
         NewDraft(i) \/ EditLines(i) \/ EditDetails(i) \/ DeleteDraft(i)
           \/ \E o \in Invoices : NewCreditNote(i, o)
  PROVE  CInv'
  <1>1. PICK x : Drafted(i, x)
    BY NewDraftDrafts, EditLinesDrafts, EditDetailsDrafts, DeleteDraftDrafts, NewCreditNoteDrafts DEF CInv
  <1>2. NoteRow(inv'[i])
    BY DraftNotes
  <1>3. \A j \in Invoices : NoteRow(inv'[j])
    BY <1>1, <1>2, WrittenSettles, RowsAreNotes DEF CInv
  <1> QED BY <1>1, <1>3, WrittenSettles, SettledOK DEF CInv

(* Marks keep CInv: they leave what a document says. *)
LEMMA MarksOK ==
  ASSUME CInv, NEW i \in Invoices, NEW x, Marked(i, x)
  PROVE  CInv'
  <1>1. x.of = inv[i].of /\ x.terms = inv[i].terms
    BY DEF Marked, Content
  <1>2. NoteRow(inv[i])
    BY RowsAreNotes DEF CInv
  <1>3. NoteRow(x)
    BY <1>1, <1>2 DEF NoteRow
  <1>4. \A j \in Invoices : NoteRow(inv'[j])
    BY <1>3, WrittenSettles, RowsAreNotes DEF CInv
  <1> QED BY <1>4, WrittenSettles, SettledOK DEF CInv

(* Without a row written nothing is issued. *)
LEMMA SameRowsSettle ==
  ASSUME CInv, inv' = inv
  PROVE  /\ Settled
         /\ \A i \in Invoices : NoteRow(inv'[i])
  BY RowsAreNotes DEF CInv, Settled, Kept, Content

(* Neither the numbering nor the client's details touch an account.         *)
LEMMA AsideOK ==
  ASSUME CInv, IInv', UNCHANGED vars \/ EditClient \/ \E n \in Firsts : SetFirst(n)
  PROVE  CInv'
  <1>1. inv' = inv /\ slot' = slot
    BY DEF vars, EditClient, SetFirst
  <1>2. ASSUME NEW t \in Slots
        PROVE  Undisturbed(t)
    <2>1. Busy(t) /\ slot[t].of = NoInvoice => client' = client
      BY DEF vars, EditClient, SetFirst, ClientFree
    <2> QED BY <1>1, <2>1, SameRowsUndisturb DEF CInv
  <1> QED BY <1>1, <1>2, SameRowsSettle, SettledOK

(* A request's own step, before it commits, that keeps what it issues or    *)
(* gives it up.                                                             *)
LEMMA OwnStepOK ==
  ASSUME CInv, IInv', NEW t \in Slots, NEW x, slot' = [slot EXCEPT ![t] = x], inv' = inv,
         x.act = "full" => x.of # NoInvoice /\ inv[x.of].kind = "INVOICE",
         x.at \in {"checked", "numbered"} /\ x.of = NoInvoice =>
           /\ RateFits(t) /\ slot[t].of = NoInvoice
           /\ x.act = slot[t].act /\ x.doc = slot[t].doc /\ x.fx = slot[t].fx
  PROVE  CInv'
  <1>1. slot'[t] = x /\ \A u \in Slots \ {t} : slot'[u] = slot[u]
    BY DEF CInv, IInv, TypeOK
  <1>2. NotesOf'
    BY DEF CInv, NotesOf
  <1>3. FullOf'
    BY <1>1 DEF CInv, FullOf
  <1>4. \A i \in Invoices : Accounted(i)' /\ Rated(i)'
    BY SameRowsSettle, SettledAccounts, SettledRates DEF CInv
  <1>5. RateStands'
    <2>1. ASSUME NEW u \in Slots, slot'[u].at \in {"checked", "numbered"}, slot'[u].of = NoInvoice
          PROVE  RateFits(u)'
      <3>1. RateFits(u) /\ slot[u].of = NoInvoice
        BY <1>1, <2>1 DEF CInv, RateStands
      <3>2. slot'[u].act = slot[u].act /\ slot'[u].doc = slot[u].doc /\ slot'[u].fx = slot[u].fx
        BY <1>1, <2>1
      <3>3. Doc(u)' = Doc(u)
        <4>1. slot[u].act = "issue"
          BY <3>1, SlotFields DEF CInv, IInv, TypeOK, SlotOK, Crediting
        <4> QED BY <3>2, <4>1 DEF Doc
      <3>4. Wanted(Doc(u).terms, Doc(u).lines)' = Wanted(Doc(u).terms, Doc(u).lines)
        BY <3>3 DEF Wanted
      <3> QED BY <2>1, <3>1, <3>2, <3>3, <3>4 DEF RateFits
    <2> QED BY <2>1 DEF RateStands
  <1> QED BY <1>2, <1>3, <1>4, <1>5 DEF CInv

(* So does every such step. *)
LEMMA OwnStepsOK ==
  ASSUME CInv, IInv', NEW t \in Slots,
         \/ Fetch(t) \/ LockOriginal(t) \/ LockDraft(t) \/ Check(t) \/ Number(t)
         \/ Abort(t) \/ \E i \in Invoices : Look(t, i) \/ BeginFull(t, i)
  PROVE  CInv'
  <1>1. slot[t] \in Slot
    BY DEF CInv, IInv, TypeOK
  <1>2. slot[t].act = "full" => slot[t].of # NoInvoice /\ inv[slot[t].of].kind = "INVOICE"
    BY DEF CInv, FullOf, IInv, SlotOK, Crediting
  <1>3. CASE Fetch(t)
    <2> DEFINE fx == IF inv[slot[t].doc].kind = "INVOICE"
                       THEN Wanted(inv[slot[t].doc].terms, inv[slot[t].doc].lines) ELSE NoRate
               x == [slot[t] EXCEPT !.at = "fetched", !.fx = fx]
    <2>1. slot' = [slot EXCEPT ![t] = x] /\ inv' = inv
      BY <1>3, Zenon DEF Fetch, Go
    <2>2. x.at = "fetched" /\ x.act = slot[t].act /\ x.of = slot[t].of
      BY <1>1 DEF Slot
    <2> HIDE DEF x
    <2> QED BY <1>2, <2>1, <2>2, OwnStepOK
  <1>4. CASE LockOriginal(t)
    <2> DEFINE x == [slot[t] EXCEPT !.at = "held"]
    <2>1. slot' = [slot EXCEPT ![t] = x] /\ inv' = inv
      BY <1>4 DEF LockOriginal, Go
    <2>2. x.at = "held" /\ x.act = slot[t].act /\ x.of = slot[t].of
      BY <1>1 DEF Slot
    <2> HIDE DEF x
    <2> QED BY <1>2, <2>1, <2>2, OwnStepOK
  <1>5. CASE LockDraft(t)
    <2> DEFINE x == [slot[t] EXCEPT !.at = "locked"]
    <2>1. slot' = [slot EXCEPT ![t] = x] /\ inv' = inv
      BY <1>5 DEF LockDraft, Go
    <2>2. x.at = "locked" /\ x.act = slot[t].act /\ x.of = slot[t].of
      BY <1>1 DEF Slot
    <2> HIDE DEF x
    <2> QED BY <1>2, <2>1, <2>2, OwnStepOK
  <1>6. CASE Check(t)
    <2> DEFINE x == [slot[t] EXCEPT !.at = "checked"]
    <2>1. slot' = [slot EXCEPT ![t] = x] /\ inv' = inv /\ RateFits(t)
      BY <1>6 DEF Check, Go
    <2>2. x.act = slot[t].act /\ x.of = slot[t].of /\ x.doc = slot[t].doc /\ x.fx = slot[t].fx
      BY <1>1 DEF Slot
    <2> HIDE DEF x
    <2> QED BY <1>2, <2>1, <2>2, OwnStepOK
  <1>7. CASE Number(t)
    <2> DEFINE x == [slot[t] EXCEPT !.at = "numbered", !.number = series.next]
    <2>1. slot' = [slot EXCEPT ![t] = x] /\ inv' = inv /\ slot[t].at = "checked"
      BY <1>7 DEF Number, Go
    <2>2. x.act = slot[t].act /\ x.of = slot[t].of /\ x.doc = slot[t].doc /\ x.fx = slot[t].fx
      BY <1>1 DEF Slot
    <2>3. slot[t].of = NoInvoice => RateFits(t)
      BY <2>1 DEF CInv, RateStands
    <2> HIDE DEF x
    <2> QED BY <1>2, <2>1, <2>2, <2>3, OwnStepOK
  <1>8. CASE Abort(t)
    <2>1. slot' = [slot EXCEPT ![t] = NoSlot] /\ inv' = inv
      BY <1>8 DEF Abort, Go
    <2> QED BY <2>1, NoSlotOK, OwnStepOK
  <1>9. ASSUME NEW i \in Invoices, Look(t, i)
        PROVE  CInv'
    <2> DEFINE x == [NoSlot EXCEPT !.at = "looked", !.doc = i, !.of = inv[i].of,
                                   !.seen = Fingerprint(i, client)]
    <2>1. slot' = [slot EXCEPT ![t] = x] /\ inv' = inv
      BY <1>9 DEF Look, Go
    <2>2. x.at = "looked" /\ x.act = "issue"
      BY DEF NoSlot
    <2> HIDE DEF x
    <2> QED BY <2>1, <2>2, OwnStepOK
  <1>10. ASSUME NEW o \in Invoices, BeginFull(t, o)
         PROVE  CInv'
    <2>1. PICK i \in Invoices, c \in Invoices \cup {NoInvoice} :
            slot' = [slot EXCEPT ![t] = [NoSlot EXCEPT !.at = "locked", !.act = "full", !.doc = i,
                                                       !.of = o, !.copy = c]]
      BY <1>10 DEF BeginFull, Go
    <2> DEFINE x == [NoSlot EXCEPT !.at = "locked", !.act = "full", !.doc = i, !.of = o, !.copy = c]
    <2>2. slot' = [slot EXCEPT ![t] = x] /\ inv' = inv
      BY <1>10, <2>1 DEF BeginFull
    <2>3. x.at = "locked" /\ x.of = o /\ o # NoInvoice /\ inv[o].kind = "INVOICE"
      BY <1>10, ConstantFacts DEF NoSlot, BeginFull, Creditable
    <2> HIDE DEF x
    <2> QED BY <2>2, <2>3, OwnStepOK
  <1> QED BY <1>3, <1>4, <1>5, <1>6, <1>7, <1>8, <1>9, <1>10

-----------------------------------------------------------------------------
(* The commit *)

(* The commit issues its document: a credit note of what the request has    *)
(* locked, if it has locked something.                                      *)
LEMMA CommitNotes ==
  ASSUME IInv, NEW t \in Slots, Commit(t), NEW q \in Invoices
  PROVE  /\ slot[t].doc \notin IssuedNotes(q)
         /\ IssuedNotes(q)' = IF q = slot[t].of THEN IssuedNotes(q) \cup {slot[t].doc} ELSE IssuedNotes(q)
         /\ \A i \in IssuedNotes(q) : inv'[i].lines = inv[i].lines
  <1> DEFINE d == slot[t].doc
  <1>1. d \in Invoices /\ inv[d].status \notin Issued /\ slot[t].of \in Invoices \cup {NoInvoice}
    BY CommitRows
  <1>2. /\ inv'[d].kind = "CREDIT_NOTE" <=> slot[t].of # NoInvoice
        /\ inv'[d].of = slot[t].of
    <2>1. inv'[d] \in Invoice /\ inv'[d].of = slot[t].of /\ (inv'[d].kind = "INVOICE" <=> slot[t].of = NoInvoice)
      BY CommitDoc
    <2>2. inv'[d].kind \in Kinds
      BY <2>1, RowFields
    <2> QED BY <2>1, <2>2 DEF Kinds
  <1>3. inv'[d].status \in Issued
    BY <1>1, CommitIssues
  <1>4. ASSUME NEW i \in Invoices, inv[i].status \in Issued
        PROVE  inv'[i].status \in Issued /\ inv'[i].kind = inv[i].kind /\ inv'[i].of = inv[i].of
                 /\ inv'[i].lines = inv[i].lines
    BY <1>4, CommitFreezes DEF Content
  <1>5. ASSUME NEW i \in Invoices, inv[i].status \notin Issued, i # d
        PROVE  inv'[i].status \notin Issued
    BY <1>5, CommitIssues
  <1>6. q # NoInvoice
    BY ConstantFacts
  <1>7. ASSUME NEW i \in Invoices
        PROVE  i \in IssuedNotes(q)' <=> i \in IssuedNotes(q) \/ (i = d /\ q = slot[t].of)
    <2>1. CASE i = d
      BY <1>1, <1>2, <1>3, <1>6, <2>1 DEF IssuedNotes
    <2>2. CASE i # d /\ inv[i].status \in Issued
      BY <1>4, <2>2 DEF IssuedNotes
    <2>3. CASE i # d /\ inv[i].status \notin Issued
      BY <1>5, <2>3 DEF IssuedNotes
    <2> QED BY <2>1, <2>2, <2>3
  <1>8. IssuedNotes(q) \subseteq Invoices /\ IssuedNotes(q)' \subseteq Invoices /\ d \notin IssuedNotes(q)
    BY <1>1 DEF IssuedNotes
  <1>9. \A i \in IssuedNotes(q) : inv'[i].lines = inv[i].lines
    BY <1>4 DEF IssuedNotes
  <1> QED BY <1>1, <1>7, <1>8, <1>9

(* What it credits is added to what was credited.                           *)
LEMMA CommitCredits ==
  ASSUME IInv, NEW t \in Slots, Commit(t), NEW o \in Invoices, o = slot[t].of, NEW r \in Rates
  PROVE  Credited(o, r)' = Credited(o, r) + Doc(t).lines.net[r]
  <1> DEFINE d == slot[t].doc
             S == IssuedNotes(o)
             g == [i \in S \cup {d} |-> inv'[i].lines.net[r]]
             h == [i \in S |-> inv[i].lines.net[r]]
  <1>1. d \in Invoices /\ inv'[d] = IssuedDoc(t) /\ Busy(t)
    BY CommitRows
  <1>2. inv'[d].lines = Doc(t).lines
    BY <1>1, IssuedDocOK
  <1>3. d \notin S /\ IssuedNotes(o)' = S \cup {d} /\ \A i \in S : inv'[i].lines = inv[i].lines
    BY CommitNotes
  <1>4. IsFiniteSet(S)
    BY NotesFinite
  <1>5. \A i \in S : inv[i].lines.net[r] \in Int
    BY RowFields DEF IssuedNotes, IInv, TypeOK, Lines
  <1>6. Doc(t).lines.net[r] \in Int
    BY <1>1, DocOK, RowFields DEF Lines
  <1>7. g \in [S \cup {d} -> Int] /\ g[d] = Doc(t).lines.net[r]
    BY <1>2, <1>3, <1>5, <1>6
  <1>8. h = [i \in S |-> g[i]]
    BY <1>3
  <1>9. Credited(o, r)' = SumFunction(g) /\ Credited(o, r) = SumFunction(h)
    <2>1. [i \in IssuedNotes(o)' |-> inv'[i].lines.net[r]] = g
      BY <1>3
    <2> QED BY <2>1 DEF Credited
  <1> HIDE DEF g, h, S, d
  <1>10. SumFunction(g) = SumFunction([i \in S |-> g[i]]) + g[d]
    BY <1>3, <1>4, <1>7, SumOneMore
  <1> QED BY <1>7, <1>8, <1>9, <1>10

(* The invoice it credits is credited exactly when it is covered now.       *)
LEMMA CommitCovers ==
  ASSUME IInv, NEW t \in Slots, Commit(t), NEW o \in Invoices, o = slot[t].of, inv[o].status \in Open
  PROVE  inv'[o].status = "CREDITED" <=> Covers(o, Doc(t).lines)
  <1>1. o # slot[t].doc /\ o # NoInvoice
    BY CommitRows, ConstantFacts
  <1>2. inv[o] \in Invoice /\ inv[o].status # "CREDITED"
    BY DEF IInv, TypeOK, Open
  <1>3. CASE Covers(o, Doc(t).lines)
    <2>1. inv'[o] = [inv[o] EXCEPT !.status = "CREDITED"]
      <3> DEFINE covered == slot[t].of # NoInvoice /\ Covers(slot[t].of, Doc(t).lines)
      <3>1. inv' = [i \in Invoices |->
               CASE i = slot[t].doc -> IssuedDoc(t)
                 [] i = slot[t].of /\ covered -> [inv[i] EXCEPT !.status = "CREDITED"]
                 [] i = slot[t].copy -> CopyOf(slot[t].of)
                 [] OTHER -> inv[i]]
        BY DEF Commit
      <3>2. covered /\ o # slot[t].copy
        BY <1>1, <1>3, CommitRows
      <3> HIDE DEF covered
      <3> QED BY <1>1, <3>1, <3>2
    <2>2. inv'[o].status = "CREDITED"
      BY <1>2, <2>1, Zenon DEF Invoice
    <2> QED BY <1>3, <2>2
  <1>4. CASE ~ Covers(o, Doc(t).lines)
    <2>1. o # slot[t].copy
      BY <1>1, CommitRows
    <2>2. inv'[o] = inv[o]
      BY <1>1, <1>4, <2>1 DEF Commit
    <2> QED BY <1>2, <1>4, <2>2
  <1> QED BY <1>3, <1>4

(* The account of the invoice a commit credits.                             *)
LEMMA CommitAccount ==
  ASSUME IInv, NEW t \in Slots, Commit(t), NEW o \in Invoices, o = slot[t].of
  PROVE  Accounted(o)'
  <1> DEFINE l == Doc(t).lines
             all(r) == inv[o].lines.net[r]
  <1>1. slot[t].at = "numbered" /\ Busy(t) /\ o # NoInvoice
    BY ConstantFacts DEF Commit, Busy
  <1>2. inv[o].status \in Open /\ CreditFits(o, l) /\ ~ LeavesNegative(o, l)
    BY <1>1 DEF IInv, CheckStands, CreditAllowed
  <1>3. l \in Lines /\ inv[o].lines \in Lines
    BY <1>1, DocOK, RowFields DEF IInv, TypeOK
  <1>4. inv[o].status \in Issued /\ inv'[o].lines = inv[o].lines
    BY <1>2, CommitFreezes DEF Issued, Content
  <1>5. \A r \in Rates : /\ Credited(o, r) \in Int /\ l.net[r] \in Int /\ all(r) \in Int
                         /\ Credited(o, r)' = Credited(o, r) + l.net[r]
    BY <1>3, NotesFinite, CommitCredits DEF Lines
  <1>6. \A r \in Rates : Within(Credited(o, r)', inv'[o].lines.net[r])
    BY <1>2, <1>4, <1>5 DEF CreditFits
  <1>7. IssuedNotes(o)' # {}
    BY CommitNotes
  <1>8. Covers(o, l) <=> \A r \in Rates : Credited(o, r)' = inv'[o].lines.net[r]
    <2>1. \A r \in Rates : Left(o, l)[r] = 0 <=> Credited(o, r)' = inv'[o].lines.net[r]
      BY <1>4, <1>5 DEF Left
    <2> QED BY <2>1 DEF Covers
  <1>9. inv'[o].status = "CREDITED" <=> Covers(o, l)
    BY <1>2, CommitCovers
  <1>10. ASSUME inv'[o].status \in Open
         PROVE  Total(Left(o, NoLines)') > 0
    <2>1. ~ Covers(o, l)
      BY <1>9, <1>10 DEF Open
    <2>2. Left(o, NoLines)' = Left(o, l)
      BY <1>4, <1>5 DEF Left, NoLines
    <2>3. ~ (Total(Left(o, l)) <= 0)
      BY <1>2, <2>1 DEF LeavesNegative, Covers
    <2>4. Total(Left(o, l)) \in Int
      BY <1>3, LeftInt, TotalInt
    <2> QED BY <2>2, <2>3, <2>4
  <1>11. Total(Left(o, NoLines))' = Total(Left(o, NoLines)')
    BY DEF Total, Vat
  <1> QED BY <1>6, <1>7, <1>8, <1>9, <1>10, <1>11 DEF Accounted

(* The account of an invoice just issued: nothing credits it yet.           *)
LEMMA IssuedAccount ==
  ASSUME IInv, NEW t \in Slots, Commit(t), NEW d \in Invoices, d = slot[t].doc
  PROVE  Accounted(d)'
  <1>1. inv[d].status \notin Issued /\ d # slot[t].of
    BY CommitRows
  <1>2. IssuedNotes(d) = {}
    <2>1. d # NoInvoice
      BY ConstantFacts
    <2> QED BY <1>1, <2>1 DEF IInv, Rows, IssuedNotes
  <1>3. IssuedNotes(d)' = {}
    BY <1>1, <1>2, CommitNotes
  <1>4. \A r \in Rates : Credited(d, r)' = 0
    BY <1>3, SumOfNothing DEF Credited
  <1>5. inv'[d] \in Invoice /\ inv'[d].status = "ISSUED"
    BY CommitDoc
  <1>6. \A r \in Rates : inv'[d].lines.net[r] \in Int
    BY <1>5, RowFields DEF Lines
  <1>7. \A r \in Rates : Within(Credited(d, r)', inv'[d].lines.net[r])
    BY <1>4, <1>6 DEF Within
  <1> QED BY <1>3, <1>5, <1>7 DEF Accounted

(* The accounts after a commit. *)
LEMMA CommitAccounts ==
  ASSUME CInv, NEW t \in Slots, Commit(t), NEW q \in Invoices
  PROVE  Accounted(q)'
  <1>1. CASE q = slot[t].doc
    BY <1>1, IssuedAccount DEF CInv
  <1>2. CASE q = slot[t].of
    BY <1>2, CommitAccount DEF CInv
  <1>3. CASE q \notin {slot[t].doc, slot[t].of} /\ inv[q].status \in Issued
    <2>1. q # slot[t].copy
      BY <1>3, CommitRows, ConstantFacts DEF CInv
    <2>2. inv'[q] = inv[q]
      BY <1>3, <2>1, CommitRows DEF CInv
    <2>3. /\ IssuedNotes(q)' = IssuedNotes(q)
          /\ \A i \in IssuedNotes(q) : inv'[i].lines = inv[i].lines
      BY <1>3, CommitNotes DEF CInv
    <2> QED BY <1>3, <2>2, <2>3, SameAccount DEF CInv
  <1>4. CASE q \notin {slot[t].doc, slot[t].of} /\ inv[q].status \notin Issued
    BY <1>4, CommitIssues DEF CInv, Accounted
  <1> QED BY <1>1, <1>2, <1>3, <1>4

(* The three rates a document can need. *)
LEMMA WantedCases ==
  ASSUME NEW x, NEW l
  PROVE  LET w == Wanted(x, l)
         IN  /\ x.currency = "SEK" => w = NoRate /\ w.why = "none"
             /\ x.currency # "SEK" => w.currency = x.currency /\ w.why # "none"
             /\ x.currency # "SEK" /\ Vat(l.net) # 0 => w.why = "vat"
             /\ x.currency # "SEK" /\ Vat(l.net) = 0 => w.why = "book"
  <1>1. CASE x.currency = "SEK"
    BY <1>1 DEF Wanted, NoRate
  <1>2. CASE x.currency # "SEK" /\ Vat(l.net) # 0
    BY <1>2 DEF Wanted
  <1>3. CASE x.currency # "SEK" /\ Vat(l.net) = 0
    BY <1>3 DEF Wanted
  <1> QED BY <1>1, <1>2, <1>3

(* A document is issued with the rate the request made out for it.          *)
LEMMA CommitFx ==
  ASSUME IInv, NEW t \in Slots, Commit(t), NEW d, d = slot[t].doc
  PROVE  /\ inv'[d].fx = RateOf(t) /\ inv'[d].terms = Doc(t).terms /\ inv'[d].lines = Doc(t).lines
         /\ inv'[d].kind = Doc(t).kind /\ inv'[d].of = slot[t].of
         /\ Doc(t).kind = "INVOICE" <=> slot[t].of = NoInvoice
  <1>1. inv'[d] = IssuedDoc(t) /\ Busy(t)
    BY CommitRows
  <1>2. Doc(t) \in Invoice /\ (Doc(t).kind = "INVOICE" <=> slot[t].of = NoInvoice) /\ Doc(t).of = slot[t].of
    BY <1>1, DocOK
  <1> DEFINE fx == RateOf(t)
             b == IF slot[t].of = NoInvoice THEN client ELSE inv[slot[t].of].buyer
  <1>3. IssuedDoc(t) = [Doc(t) EXCEPT !.status = "ISSUED", !.number = slot[t].number, !.fx = fx, !.buyer = b]
    BY DEF IssuedDoc
  <1> HIDE DEF fx, b
  <1>4. IssuedDoc(t).fx = fx
    BY <1>2, <1>3, Zenon DEF Invoice
  <1> QED BY <1>1, <1>2, <1>4, IssuedDocOK DEF fx

(* An invoice's is the one its currency and day want.                       *)
LEMMA InvoiceRated ==
  ASSUME NEW t \in Slots, slot[t].of = NoInvoice, RateFits(t)
  PROVE  RateOf(t) = Wanted(Doc(t).terms, Doc(t).lines)
  <1> DEFINE D == Doc(t)
             w == Wanted(D.terms, D.lines)
  <1>1. CASE w.why = "none"
    <2>1. w = NoRate
      BY <1>1, WantedCases
    <2> QED BY <1>1, <2>1 DEF RateOf
  <1>2. CASE w.why # "none"
    BY <1>2 DEF RateOf, RateFits
  <1> QED BY <1>1, <1>2

(* A credit note's has the reason its own VAT gives, and its invoice's      *)
(* currency and day.                                                        *)
LEMMA NoteRated ==
  ASSUME CInv, NEW t \in Slots, NEW o \in Invoices, o = slot[t].of, RateFits(t),
         inv[o].status \in Issued, inv[o].kind = "INVOICE", Doc(t).terms = inv[o].terms
  PROVE  LET w == Wanted(Doc(t).terms, Doc(t).lines)
         IN  /\ RateOf(t).why = w.why
             /\ w.why # "none" => RateOf(t).currency = w.currency /\ RateOf(t).day = inv[o].fx.day
  <1> DEFINE D == Doc(t)
             w == Wanted(D.terms, D.lines)
             fx == inv[o].fx
  <1>1. o # NoInvoice /\ fx \in FxRate
    BY ConstantFacts, RowFields DEF CInv, IInv, TypeOK
  <1>2. fx = Wanted(inv[o].terms, inv[o].lines)
    BY DEF CInv, Rated
  <1>3. CASE D.terms.currency = "SEK"
    <2>1. RateOf(t) = NoRate
      BY <1>1, <1>3 DEF RateOf
    <2>2. w = NoRate /\ w.why = "none"
      BY <1>3, WantedCases
    <2> QED BY <2>1, <2>2
  <1>4. CASE D.terms.currency # "SEK" /\ Vat(D.lines.net) # 0
    <2>1. RateOf(t) = fx
      BY <1>1, <1>4 DEF RateOf
    <2>2. w.why = "vat" /\ w.currency = D.terms.currency
      BY <1>4, WantedCases
    <2>3. fx.why = "vat"
      BY <1>1, <2>2 DEF RateFits
    <2>4. fx.currency = D.terms.currency
      BY <1>2, <1>4, WantedCases
    <2> QED BY <2>1, <2>2, <2>3, <2>4
  <1>5. CASE D.terms.currency # "SEK" /\ Vat(D.lines.net) = 0
    <2>1. RateOf(t) = [fx EXCEPT !.why = "book"]
      BY <1>1, <1>5 DEF RateOf
    <2>2. w.why = "book" /\ w.currency = D.terms.currency
      BY <1>5, WantedCases
    <2>3. fx.currency = D.terms.currency
      BY <1>2, <1>5, WantedCases
    <2>4. RateOf(t).why = "book" /\ RateOf(t).currency = fx.currency /\ RateOf(t).day = fx.day
      <3> HIDE DEF fx
      <3> QED BY <1>1, <2>1 DEF FxRate
    <2> QED BY <2>2, <2>3, <2>4
  <1> QED BY <1>3, <1>4, <1>5

(* What a commit's credit note credits is an invoice, on whose terms it is. *)
LEMMA CommitTerms ==
  ASSUME CInv, NEW t \in Slots, Commit(t), slot[t].of # NoInvoice
  PROVE  /\ slot[t].of \in Invoices /\ inv[slot[t].of].status \in Issued
         /\ inv[slot[t].of].kind = "INVOICE"
         /\ Doc(t).terms = inv[slot[t].of].terms
  <1> DEFINE o == slot[t].of
             d == slot[t].doc
  <1>1. o \in Invoices /\ inv[o].status \in Issued /\ d \in Invoices
    BY CommitRows DEF CInv
  <1>2. CASE slot[t].act = "full"
    <2>1. Doc(t) = NoteFor(o) /\ inv[o].kind = "INVOICE"
      BY <1>2 DEF Doc, CInv, FullOf
    <2> QED BY <1>1, <2>1, CopiesOK DEF CInv, IInv
  <1>3. CASE slot[t].act = "issue"
    <2>1. Doc(t) = inv[d] /\ inv[d].of = o
      BY <1>3, CommitRows DEF CInv, Doc
    <2> QED BY <1>1, <2>1 DEF CInv, NotesOf
  <1> QED BY <1>2, <1>3, SlotFields DEF CInv, IInv, TypeOK

(* Every issued document has its rate after a commit.                       *)
LEMMA CommitRated ==
  ASSUME CInv, NEW t \in Slots, Commit(t), NEW i \in Invoices
  PROVE  Rated(i)'
  <1> DEFINE d == slot[t].doc
             o == slot[t].of
  <1>1. Kept
    BY CommitFreezes DEF CInv, Kept
  <1>2. CASE inv[i].status \in Issued
    BY <1>1, <1>2, KeptRated DEF CInv
  <1>3. CASE i = d
    <2>1. /\ inv'[d].fx = RateOf(t) /\ inv'[d].terms = Doc(t).terms /\ inv'[d].lines = Doc(t).lines
          /\ inv'[d].kind = Doc(t).kind /\ inv'[d].of = o
          /\ Doc(t).kind = "INVOICE" <=> o = NoInvoice
      BY CommitFx DEF CInv
    <2>2. slot[t].at = "numbered"
      BY DEF Commit
    <2>3. RateFits(t)
      BY <2>2 DEF CInv, RateStands, IInv, CheckStands
    <2> DEFINE w == Wanted(inv'[i].terms, inv'[i].lines)
    <2>4. w = Wanted(Doc(t).terms, Doc(t).lines)
      BY <1>3, <2>1
    <2>5. CASE o = NoInvoice
      <3>1. inv'[i].fx = w /\ inv'[i].kind = "INVOICE"
        BY <1>3, <2>1, <2>3, <2>4, <2>5, InvoiceRated
      <3> QED BY <3>1 DEF Rated, Wanted
    <2>6. CASE o # NoInvoice
      <3>1. /\ o \in Invoices /\ inv[o].status \in Issued /\ inv[o].kind = "INVOICE"
            /\ Doc(t).terms = inv[o].terms
        BY <2>6, CommitTerms
      <3>2. /\ inv'[i].fx.why = w.why
            /\ w.why # "none" => inv'[i].fx.currency = w.currency /\ inv'[i].fx.day = inv[o].fx.day
        BY <1>3, <2>1, <2>3, <2>4, <3>1, NoteRated
      <3>3. inv'[i].kind # "INVOICE" /\ inv'[i].of = o /\ inv'[o].fx = inv[o].fx
        BY <1>1, <1>3, <2>1, <2>6, <3>1 DEF Kept, Content
      <3> QED BY <3>2, <3>3 DEF Rated, Wanted
    <2> QED BY <2>5, <2>6
  <1>4. CASE i # d /\ inv[i].status \notin Issued
    BY <1>4, CommitIssues DEF CInv, Rated
  <1> QED BY <1>2, <1>3, <1>4

(* The commit keeps CInv. *)
LEMMA CommitKeeps ==
  ASSUME CInv, IInv', NEW t \in Slots, Commit(t)
  PROVE  CInv'
  <1> DEFINE d == slot[t].doc
             o == slot[t].of
             c == slot[t].copy
  <1>1. Kept
    BY CommitFreezes DEF CInv, Kept
  <1>2. slot'[t] = NoSlot /\ \A u \in Slots \ {t} : slot'[u] = slot[u]
    BY DEF Commit, Go, CInv, IInv, TypeOK
  <1>3. ASSUME NEW i \in Invoices
        PROVE  NoteRow(inv'[i])
    <2>1. CASE i = d
      <3>1. inv'[d].of = o /\ inv'[d].terms = Doc(t).terms
        BY CommitFx DEF CInv
      <3> QED BY <2>1, <3>1, CommitTerms DEF NoteRow
    <2>2. CASE i = c
      <3>1. inv'[i] = CopyOf(o) /\ o \in Invoices
        BY <2>2, CommitRows, ConstantFacts DEF CInv
      <3>2. CopyOf(o).of = NoInvoice
        BY <3>1, CopiesOK DEF CInv, IInv
      <3> QED BY <3>1, <3>2 DEF NoteRow
    <2>3. CASE i \notin {d, c} /\ inv[i].status \in Issued
      <3>1. inv'[i].of = inv[i].of /\ inv'[i].terms = inv[i].terms
        BY <1>1, <2>3 DEF Kept, Content
      <3>2. NoteRow(inv[i])
        BY RowsAreNotes DEF CInv
      <3> QED BY <3>1, <3>2 DEF NoteRow
    <2>4. CASE i \notin {d, c} /\ inv[i].status \notin Issued
      <3>1. i # o
        BY <2>4, CommitRows, ConstantFacts DEF CInv
      <3>2. inv'[i] = inv[i]
        BY <2>4, <3>1, CommitRows DEF CInv
      <3> QED BY <3>2, RowsAreNotes DEF CInv
    <2> QED BY <2>1, <2>2, <2>3, <2>4
  <1>4. NotesOf'
    BY <1>1, <1>3, NotesStay
  <1>5. FullOf'
    BY <1>1, <1>2, NoSlotOK, FullStays DEF CInv
  <1>6. RateStands'
    <2>1. ASSUME NEW u \in Slots, slot'[u].at \in {"checked", "numbered"}, slot'[u].of = NoInvoice
          PROVE  RateFits(u)'
      <3>1. u \in Slots \ {t} /\ slot'[u] = slot[u]
        BY <1>2, <2>1, NoSlotOK
      <3>2. Undisturbed(u)
        BY <3>1, CommitUndisturbs DEF CInv
      <3> QED BY <2>1, <3>1, <3>2, RateStays DEF CInv
    <2> QED BY <2>1 DEF RateStands
  <1>7. \A i \in Invoices : Accounted(i)' /\ Rated(i)'
    BY CommitAccounts, CommitRated
  <1> QED BY <1>4, <1>5, <1>6, <1>7 DEF CInv

-----------------------------------------------------------------------------
(* The theorems about the money *)

(* Nothing is issued to begin with. *)
LEMMA CreditInitOK == Init => CInv
  <1> SUFFICES ASSUME Init PROVE CInv
    OBVIOUS
  <1>1. \A i \in Invoices : inv[i].of = NoInvoice /\ inv[i].status \notin Issued
    BY ConstantFacts DEF Init, NoRow
  <1>2. \A t \in Slots : slot[t].at = "idle" /\ slot[t].act = "issue"
    BY NoSlotOK DEF Init
  <1>3. NotesOf /\ FullOf /\ RateStands
    BY <1>1, <1>2 DEF NotesOf, FullOf, RateStands
  <1>4. \A i \in Invoices : Accounted(i) /\ Rated(i)
    BY <1>1 DEF Accounted, Rated
  <1> QED BY <1>3, <1>4, InitOK DEF CInv

(* Every step keeps the invariant. *)
LEMMA CreditStepOK == CInv /\ [Next]_vars => CInv'
  <1> SUFFICES ASSUME CInv, [Next]_vars PROVE CInv'
    OBVIOUS
  <1>1. IInv'
    BY StepOK DEF CInv
  <1>2. CASE UNCHANGED vars \/ EditClient \/ \E n \in Firsts : SetFirst(n)
    BY <1>1, <1>2, AsideOK
  <1>3. ASSUME NEW i \in Invoices,
               NewDraft(i) \/ EditLines(i) \/ EditDetails(i) \/ DeleteDraft(i)
                 \/ \E o \in Invoices : NewCreditNote(i, o)
        PROVE  CInv'
    BY <1>3, DraftsOK
  <1>4. ASSUME NEW i \in Invoices, MarkSent(i) \/ MarkPaid(i) \/ MarkUnpaid(i)
        PROVE  CInv'
    <2>1. \E x : Marked(i, x)
      BY <1>4, MarkSentMarks, MarkPaidMarks, MarkUnpaidMarks DEF CInv
    <2> QED BY <2>1, MarksOK
  <1>5. ASSUME NEW t \in Slots,
               \/ Fetch(t) \/ LockOriginal(t) \/ LockDraft(t) \/ Check(t) \/ Number(t)
               \/ Abort(t) \/ \E i \in Invoices : Look(t, i) \/ BeginFull(t, i)
        PROVE  CInv'
    BY <1>1, <1>5, OwnStepsOK
  <1>6. ASSUME NEW t \in Slots, Commit(t)
        PROVE  CInv'
    BY <1>1, <1>6, CommitKeeps
  <1> QED BY <1>2, <1>3, <1>4, <1>5, <1>6, Zenon DEF Next

(* The invariant holds in every reachable state. *)
LEMMA CreditInvariance == Spec => []CInv
  BY CreditInitOK, CreditStepOK, PTL DEF Spec

(* However many credit notes of an invoice are issued, and whatever their   *)
(* requests race with, they take back between nothing and what it charged,  *)
(* at each VAT rate and with its sign.                                      *)
THEOREM CreditWithin == Spec => []NeverOverCredited
  <1>1. CInv => NeverOverCredited
    BY DEF CInv, Accounted, NeverOverCredited
  <1> QED BY <1>1, CreditInvariance, PTL

(* An invoice says CREDITED exactly when its credit notes cover it.         *)
THEOREM CreditCovers == Spec => []CreditedIffCovered
  <1>1. CInv => CreditedIffCovered
    BY DEF CInv, Accounted, CreditedIffCovered
  <1> QED BY <1>1, CreditInvariance, PTL

(* What is left of an invoice that is partly credited can itself be         *)
(* credited: creditOverRates and creditLeavesNegative strand nothing.       *)
THEOREM RestRemains == Spec => []RestIsCreditable
  <1>1. ASSUME CInv, NEW o \in Invoices, inv[o].kind = "INVOICE", inv[o].status \in Open, IssuedNotes(o) # {}
        PROVE  LET rest == [rates |-> inv[o].lines.rates, net |-> Left(o, NoLines)]
               IN  Total(rest.net) > 0 /\ CreditFits(o, rest)
    <2> DEFINE rest == [rates |-> inv[o].lines.rates, net |-> Left(o, NoLines)]
    <2>1. inv[o].status \in Issued /\ Accounted(o)
      BY <1>1 DEF CInv, Issued
    <2>2. Total(Left(o, NoLines)) > 0
      BY <1>1, <2>1 DEF Accounted
    <2>3. ASSUME NEW r \in Rates
          PROVE  /\ rest.net[r] = inv[o].lines.net[r] - Credited(o, r)
                 /\ Within(rest.net[r], inv[o].lines.net[r])
                 /\ Within(Credited(o, r) + rest.net[r], inv[o].lines.net[r])
      <3>1. Credited(o, r) \in Int /\ inv[o].lines.net[r] \in Int
        BY <1>1, NotesFinite, RowFields DEF CInv, IInv, TypeOK, Lines
      <3>2. rest.net[r] = inv[o].lines.net[r] - Credited(o, r)
        BY <3>1 DEF Left, NoLines
      <3>3. Within(Credited(o, r), inv[o].lines.net[r])
        BY <1>1, <2>1 DEF Accounted
      <3> HIDE DEF rest
      <3> QED BY <3>1, <3>2, <3>3 DEF Within
    <2>4. CreditFits(o, rest)
      <3>1. rest.rates = inv[o].lines.rates
        OBVIOUS
      <3> HIDE DEF rest
      <3> QED BY <2>3, <3>1 DEF CreditFits
    <2> QED BY <2>2, <2>4
  <1>2. CInv => RestIsCreditable
    BY <1>1 DEF RestIsCreditable
  <1> QED BY <1>2, CreditInvariance, PTL

(* An issued document's exchange rate is the one of its own currency and    *)
(* day, or its invoice's, however the draft was edited while the rate was   *)
(* fetched.                                                                 *)
THEOREM AtItsRate == Spec => []IssuedAtItsRate
  <1>1. CInv => IssuedAtItsRate
    BY DEF CInv, Rated, IssuedAtItsRate
  <1> QED BY <1>1, CreditInvariance, PTL

-----------------------------------------------------------------------------
(* The ledger implements InvoiceBook *)

Amounts == {0} \cup UNION {Nets[r] : r \in Rates}
Entries == [of: Nat, net: [Rates -> Amounts]]

(* Where an issued document stands in the book, and the book's variables as *)
(* the ledger maps them.                                                    *)
Size        == series.next - series.first
Position(i) == inv[i].number - series.first + 1
BookOf      == [n \in 1 .. Size |-> EntryOf(Numbered(series.first + n - 1))]
SettledOf   == {inv[i].number - series.first + 1 : i \in {j \in Invoices : inv[j].status = "CREDITED"}}

(* Numbers are taken from a series that has been set up. *)
FirstSet == \A t \in Slots : slot[t].at \in {"checked", "numbered"} => series.first # 0

(* Lines net to what a draft's lines may. *)
NetsIn == \A i \in Invoices : inv[i].lines.net \in [Rates -> Amounts]

(* What the book's credit notes take of an entry is what the ledger's do.   *)
TakenIsCredited ==
  \A r \in Rates, k \in Nat :
    /\ \A o \in Invoices : inv[o].kind = "INVOICE" /\ inv[o].status \in Issued /\ Position(o) = k =>
         Book!Taken(BookOf, k, r) = Credited(o, r)
    /\ k > Size => Book!Taken(BookOf, k, r) = 0

BInv ==
  /\ CInv
  /\ FirstSet
  /\ NetsIn
  /\ TakenIsCredited

(* Amounts are whole. *)
LEMMA AmountsInt == Amounts \subseteq Int
  BY LedgerAssumption DEF Amounts

(* A sequence as long as it is. *)
LEMMA SeqOfEntries ==
  ASSUME NEW n \in Nat, NEW S, NEW b \in [1 .. n -> S]
  PROVE  b \in Seq(S) /\ Len(b) = n
  <1>1. b \in Seq(S)
    BY SeqDef
  <1>2. Len(b) \in Nat /\ DOMAIN b = 1 .. Len(b)
    BY <1>1, LenProperties
  <1>3. 1 .. n = 1 .. Len(b)
    BY <1>2
  <1>4. Len(b) = n
    BY <1>2, <1>3
  <1> QED BY <1>1, <1>4

(* One entry more. *)
LEMMA AppendEntry ==
  ASSUME NEW n \in Nat, NEW S, NEW b \in [1 .. n -> S], NEW e \in S,
         NEW c \in [1 .. n + 1 -> S], \A i \in 1 .. n : c[i] = b[i], c[n + 1] = e
  PROVE  c = Append(b, e)
  <1>1. b \in Seq(S) /\ Len(b) = n
    BY SeqOfEntries
  <1>2. c \in Seq(S) /\ Len(c) = n + 1
    BY SeqOfEntries
  <1> DEFINE a == Append(b, e)
  <1>3. a \in Seq(S) /\ Len(a) = n + 1 /\ \A i \in 1 .. n + 1 : a[i] = IF i <= n THEN b[i] ELSE e
    BY <1>1, AppendProperties
  <1>4. \A i \in 1 .. Len(c) : c[i] = a[i]
    BY <1>2, <1>3
  <1> HIDE DEF a
  <1>5. c = a
    BY <1>2, <1>3, <1>4, SeqEqual
  <1> QED BY <1>5 DEF a

(* What each of n entries takes of entry k. *)
TakenBy(b, n, k, r) == [i \in 1 .. n |-> IF b[i].of = k THEN b[i].net[r] ELSE 0]

(* What a sequence of entries takes is the sum of it. *)
LEMMA TakenSum ==
  ASSUME NEW n \in Nat, NEW b \in [1 .. n -> Entries], NEW k, NEW r \in Rates
  PROVE  TakenBy(b, n, k, r) \in [1 .. n -> Int] /\ Book!Taken(b, k, r) = SumFunction(TakenBy(b, n, k, r))
  <1> DEFINE a == TakenBy(b, n, k, r)
             Run(P) == [i \in 0 .. n |-> IF i = 0 THEN 0 ELSE P[i - 1] + (IF b[i].of = k THEN b[i].net[r] ELSE 0)]
             P == CHOOSE P : P = Run(P)
  <1>1. Len(b) = n
    BY SeqOfEntries
  <1>2. a \in [1 .. n -> Int]
    <2>1. \A i \in 1 .. n : b[i].net \in [Rates -> Amounts]
      BY DEF Entries
    <2>2. \A i \in 1 .. n : b[i].net[r] \in Int
      BY <2>1, AmountsInt
    <2> QED BY <2>2 DEF TakenBy
  <1>3. \A Q : Run(Q) = [i \in 0 .. n |-> IF i = 0 THEN 0 ELSE Q[i - 1] + a[i]]
    BY DEF TakenBy
  <1>4. Book!Taken(b, k, r) = P[n]
    BY <1>1 DEF Book!Taken
  <1> HIDE DEF a, Run
  <1>5. P = Run(P)
    <2>1. \E Q : Q = Run(Q)
      BY <1>2, <1>3, RunningSum
    <2> QED BY <2>1
  <1> HIDE DEF P
  <1>6. P[n] = SumFunction(a)
    BY <1>2, <1>3, <1>5, RunningSum
  <1> QED BY <1>2, <1>4, <1>6 DEF a

(* What one entry more takes. *)
LEMMA TakenMore ==
  ASSUME NEW n \in Nat, NEW b \in [1 .. n -> Entries], NEW c \in [1 .. n + 1 -> Entries],
         \A i \in 1 .. n : c[i] = b[i], NEW k, NEW r \in Rates
  PROVE  Book!Taken(c, k, r) = Book!Taken(b, k, r) + (IF c[n + 1].of = k THEN c[n + 1].net[r] ELSE 0)
  <1> DEFINE g == TakenBy(c, n + 1, k, r)
             h == TakenBy(b, n, k, r)
             S == 1 .. n
  <1>1. g \in [1 .. n + 1 -> Int] /\ Book!Taken(c, k, r) = SumFunction(g)
    <2>1. n + 1 \in Nat
      OBVIOUS
    <2> QED BY <2>1, TakenSum
  <1>2. Book!Taken(b, k, r) = SumFunction(h)
    BY TakenSum
  <1>3. 1 .. n + 1 = S \cup {n + 1} /\ n + 1 \notin S
    OBVIOUS
  <1>4. IsFiniteSet(S)
    BY FS_Interval
  <1>5. h = [i \in S |-> g[i]]
    BY DEF TakenBy
  <1>6. g[n + 1] = IF c[n + 1].of = k THEN c[n + 1].net[r] ELSE 0
    BY DEF TakenBy
  <1> HIDE DEF g, h, S
  <1>7. SumFunction(g) = SumFunction([i \in S |-> g[i]]) + g[n + 1]
    BY <1>1, <1>3, <1>4, SumOneMore
  <1> QED BY <1>1, <1>2, <1>5, <1>6, <1>7

(* Every issued document has a place in the book. *)
LEMMA PlaceOf ==
  ASSUME IInv, NEW i \in Invoices, inv[i].status \in Issued
  PROVE  Numbered(inv[i].number) = i /\ Position(i) \in 1 .. Size
  <1>1. Numbered(inv[i].number) = i
    BY DEF Numbered, IInv, NumbersUnbroken
  <1>2. inv[i].number \in series.first .. series.next - 1
    BY DEF IInv, NumbersUnbroken
  <1>3. series.first \in Int /\ series.next \in Int
    BY DEF IInv, TypeOK
  <1> QED BY <1>1, <1>2, <1>3 DEF Position, Size

(* Every place has an issued document. *)
LEMMA AtPlace ==
  ASSUME IInv, NEW n \in 1 .. Size, NEW i, i = Numbered(series.first + n - 1)
  PROVE  i \in Invoices /\ inv[i].status \in Issued /\ inv[i].number = series.first + n - 1 /\ Position(i) = n
  <1>1. series.first \in Int /\ series.next \in Int
    BY DEF IInv, TypeOK
  <1>2. n \in Int /\ series.first + n - 1 \in series.first .. series.next - 1
    BY <1>1 DEF Size
  <1>3. \E j \in Invoices : inv[j].status \in Issued /\ inv[j].number = series.first + n - 1
    BY <1>2 DEF IInv, NumbersUnbroken
  <1>4. i \in Invoices /\ inv[i].status \in Issued /\ inv[i].number = series.first + n - 1
    BY <1>3 DEF Numbered
  <1> QED BY <1>1, <1>2, <1>4 DEF Position

(* What an entry is. *)
LEMMA EntryIs ==
  ASSUME IInv, NetsIn, NEW i \in Invoices, inv[i].status \in Issued
  PROVE  /\ EntryOf(i) \in Entries /\ EntryOf(i).of \in 0 .. Size
         /\ EntryOf(i).net = inv[i].lines.net
         /\ inv[i].kind = "INVOICE" => EntryOf(i).of = 0
         /\ inv[i].kind # "INVOICE" => inv[i].of \in Invoices /\ EntryOf(i).of = Position(inv[i].of)
  <1>1. inv[i].lines.net \in [Rates -> Amounts]
    BY DEF NetsIn
  <1>2. Size \in Nat
    BY DEF Size, IInv, TypeOK, OneNumber
  <1>3. CASE inv[i].kind = "INVOICE"
    BY <1>1, <1>2, <1>3 DEF EntryOf, Entries
  <1>4. CASE inv[i].kind # "INVOICE"
    <2>1. inv[i].of \in Invoices /\ inv[inv[i].of].status \in Issued
      BY <1>4, RowFields DEF IInv, Rows, TypeOK
    <2>2. Position(inv[i].of) \in 1 .. Size
      BY <2>1, PlaceOf
    <2>3. EntryOf(i) = [of |-> Position(inv[i].of), net |-> inv[i].lines.net]
      BY <1>4 DEF EntryOf, Position
    <2> QED BY <1>1, <1>2, <1>4, <2>1, <2>2, <2>3 DEF Entries
  <1> QED BY <1>3, <1>4

(* The book is a sequence of entries. *)
LEMMA BookTyped ==
  ASSUME IInv, NetsIn
  PROVE  /\ Size \in Nat /\ BookOf \in [1 .. Size -> Entries] /\ Len(BookOf) = Size
         /\ \A i \in Invoices : inv[i].status \in Issued => BookOf[Position(i)] = EntryOf(i)
  <1>1. Size \in Nat /\ series.first \in Int /\ series.next \in Int
    BY DEF Size, IInv, TypeOK, OneNumber
  <1>2. ASSUME NEW n \in 1 .. Size
        PROVE  EntryOf(Numbered(series.first + n - 1)) \in Entries
    BY AtPlace, EntryIs
  <1>3. BookOf \in [1 .. Size -> Entries]
    BY <1>2 DEF BookOf
  <1>4. ASSUME NEW i \in Invoices, inv[i].status \in Issued
        PROVE  BookOf[Position(i)] = EntryOf(i)
    <2>1. Position(i) \in 1 .. Size /\ Numbered(inv[i].number) = i /\ inv[i].number \in Int
      BY <1>4, PlaceOf, RowFields DEF IInv, TypeOK
    <2>2. series.first + Position(i) - 1 = inv[i].number
      BY <1>1, <2>1 DEF Position
    <2>3. BookOf[Position(i)] = EntryOf(Numbered(series.first + Position(i) - 1))
      BY <2>1 DEF BookOf
    <2> QED BY <2>1, <2>2, <2>3
  <1> QED BY <1>1, <1>3, <1>4, SeqOfEntries

(* An issued document keeps its place and its entry. *)
LEMMA PlaceStays ==
  ASSUME IInv, IInv', Kept, series'.first = series.first, NEW i \in Invoices, inv[i].status \in Issued
  PROVE  /\ Position(i)' = Position(i) /\ EntryOf(i)' = EntryOf(i)
         /\ \A n : n = inv[i].number => Numbered(n)' = i
  <1>1. /\ inv'[i].status \in Issued /\ inv'[i].number = inv[i].number /\ inv'[i].kind = inv[i].kind
        /\ inv'[i].of = inv[i].of /\ inv'[i].lines = inv[i].lines
    BY DEF Kept, Content
  <1>2. inv[i].kind # "INVOICE" => inv'[inv[i].of].number = inv[inv[i].of].number
    BY RowFields DEF IInv, Rows, TypeOK, Kept, Content
  <1>3. ASSUME NEW n, n = inv[i].number
        PROVE  Numbered(n)' = i
    BY <1>1, <1>3 DEF Numbered, IInv, NumbersUnbroken
  <1> QED BY <1>1, <1>2, <1>3 DEF Position, EntryOf

(* Nothing issued: the book is the same. *)
LEMMA BookStays ==
  ASSUME IInv, IInv', Settled, series' = series
  PROVE  BookOf' = BookOf /\ SettledOf' = SettledOf /\ Size' = Size
  <1>1. Size' = Size
    BY DEF Size
  <1>2. ASSUME NEW n \in 1 .. Size
        PROVE  EntryOf(Numbered(series.first + n - 1))' = EntryOf(Numbered(series.first + n - 1))
    <2> DEFINE m == series.first + n - 1
               i == Numbered(m)
    <2>1. i \in Invoices /\ inv[i].status \in Issued /\ inv[i].number = m
      BY AtPlace
    <2>2. Numbered(m)' = i /\ m' = m
      BY <2>1, PlaceStays DEF Settled
    <2>3. \A j \in Invoices : j = i => EntryOf(j)' = EntryOf(j)
      BY <2>1, PlaceStays DEF Settled
    <2> HIDE DEF m
    <2>4. EntryOf(Numbered(m))' = EntryOf(i)
      BY <2>1, <2>2, <2>3 DEF EntryOf
    <2> QED BY <2>4 DEF m
  <1>3. BookOf' = BookOf
    BY <1>1, <1>2 DEF BookOf
  <1>4. \A j \in Invoices : inv'[j].status = "CREDITED" <=> inv[j].status = "CREDITED"
    BY DEF Settled, Kept, Issued
  <1>5. \A j \in Invoices : inv[j].status = "CREDITED" => inv'[j].number = inv[j].number
    BY DEF Settled, Kept, Issued, Content
  <1>6. SettledOf' = SettledOf
    BY <1>4, <1>5 DEF SettledOf
  <1> QED BY <1>1, <1>3, <1>6

(* A commit leaves the series its first number. *)
LEMMA CommitSeries ==
  ASSUME IInv, NEW t \in Slots, Commit(t)
  PROVE  series'.first = series.first /\ series'.next = series.next + 1 /\ Size' = Size + 1
  <1>1. series \in [first: Nat, next: Nat] /\ slot[t].number = series.next
    BY DEF IInv, TypeOK, OneNumber, Commit
  <1>2. series' = [series EXCEPT !.next = series.next + 1]
    BY <1>1 DEF Commit
  <1>3. series'.first = series.first /\ series'.next = series.next + 1
    BY <1>1, <1>2
  <1> QED BY <1>1, <1>3 DEF Size

(* A number is taken only where there is a series. *)
LEMMA FirstSetOK ==
  ASSUME IInv, FirstSet, [Next]_vars
  PROVE  FirstSet'
  <1> SUFFICES ASSUME NEW u \in Slots, slot'[u].at \in {"checked", "numbered"} PROVE series'.first # 0
    BY DEF FirstSet
  <1>1. slot \in [Slots -> Slot] /\ NoSlot.at = "idle"
    BY NoSlotOK DEF IInv, TypeOK
  <1>2. CASE UNCHANGED <<series, slot>>
    BY <1>2 DEF FirstSet
  <1>3. CASE \E n \in Firsts : SetFirst(n)
    BY <1>3, LedgerAssumption DEF SetFirst
  <1>4. ASSUME NEW t \in Slots,
               \/ Fetch(t) \/ LockOriginal(t) \/ LockDraft(t) \/ Check(t) \/ Number(t) \/ Abort(t)
               \/ \E i \in Invoices : Look(t, i) \/ BeginFull(t, i)
        PROVE  series'.first # 0
    <2>1. series' = series
      BY <1>4 DEF Fetch, LockOriginal, LockDraft, Check, Number, Abort, Look, BeginFull
    <2>2. CASE u # t
      <3>1. slot'[u] = slot[u]
        BY <1>1, <1>4, <2>2 DEF Fetch, LockOriginal, LockDraft, Check, Number, Abort, Look, BeginFull, Go
      <3> QED BY <2>1, <3>1 DEF FirstSet
    <2>3. CASE u = t
      <3>1. Check(t) \/ Number(t)
        <4>1. slot[t] \in Slot
          BY <1>1
        <4>2. ~ Fetch(t) /\ ~ LockOriginal(t) /\ ~ LockDraft(t)
          BY <1>1, <2>3, <4>1 DEF Fetch, LockOriginal, LockDraft, Go, Slot
        <4>3. slot'[t].at \in {"checked", "numbered"}
          BY <2>3
        <4>4. ~ Abort(t)
          BY <1>1, <4>3 DEF Abort, Go
        <4>5. ASSUME NEW i \in Invoices, Look(t, i)
              PROVE  FALSE
          BY <1>1, <4>3, <4>5 DEF Look, Go, NoSlot
        <4>6. ASSUME NEW i \in Invoices, BeginFull(t, i)
              PROVE  FALSE
          <5>1. PICK j, c : slot' = [slot EXCEPT ![t] = [NoSlot EXCEPT !.at = "locked", !.act = "full",
                                                           !.doc = j, !.of = i, !.copy = c]]
            BY <4>6 DEF BeginFull, Go
          <5>2. slot'[t].at = "locked"
            BY <1>1, <5>1 DEF NoSlot
          <5> QED BY <4>3, <5>2
        <4> QED BY <1>4, <4>2, <4>4, <4>5, <4>6
      <3> QED BY <2>1, <3>1 DEF Check, Number, FirstSet
    <2> QED BY <2>2, <2>3
  <1>5. ASSUME NEW t \in Slots, Commit(t)
        PROVE  series'.first # 0
    <2>1. u # t /\ slot'[u] = slot[u]
      BY <1>1, <1>5 DEF Commit, Go
    <2> QED BY <1>5, <2>1, CommitSeries DEF FirstSet
  <1>6. \/ UNCHANGED <<series, slot>>
        \/ \E n \in Firsts : SetFirst(n)
        \/ \E t \in Slots :
             \/ Fetch(t) \/ LockOriginal(t) \/ LockDraft(t) \/ Check(t) \/ Number(t) \/ Abort(t)
             \/ \E i \in Invoices : Look(t, i) \/ BeginFull(t, i)
             \/ Commit(t)
    BY Steps DEF vars, EditClient, Drafted, Marked, Written
  <1> QED BY <1>2, <1>3, <1>4, <1>5, <1>6

(* Drafting keeps to what lines may net to. *)
LEMMA DraftNets ==
  ASSUME IInv, NetsIn, NEW i \in Invoices,
         NewDraft(i) \/ EditLines(i) \/ EditDetails(i) \/ DeleteDraft(i)
           \/ \E o \in Invoices : NewCreditNote(i, o)
  PROVE  inv'[i].lines.net \in [Rates -> Amounts]
  <1>1. inv \in [Invoices -> Invoice] /\ inv[i] \in Invoice /\ inv[i].lines \in Lines
    BY RowFields DEF IInv, TypeOK
  <1>2. 0 \in Amounts /\ \A r \in Rates : Nets[r] \subseteq Amounts
    BY DEF Amounts
  <1>3. NoRow.lines.net \in [Rates -> Amounts]
    BY <1>2 DEF NoRow, NoLines
  <1>4. inv[i].lines.net \in [Rates -> Amounts]
    BY DEF NetsIn
  <1>5. CASE NewDraft(i)
    BY <1>1, <1>3, <1>5 DEF NewDraft, NoRow
  <1>6. CASE EditLines(i)
    <2>1. PICK r \in Rates :
            \/ \E n \in Nets[r] : inv' = [inv EXCEPT ![i].lines.rates = @ \cup {r}, ![i].lines.net[r] = n]
            \/ inv' = [inv EXCEPT ![i].lines.rates = @ \ {r}, ![i].lines.net[r] = 0]
      BY <1>6 DEF EditLines
    <2>2. PICK n \in Amounts : inv'[i].lines.net = [inv[i].lines.net EXCEPT ![r] = n]
      BY <1>1, <1>2, <2>1 DEF Invoice, Lines
    <2> QED BY <1>4, <2>2
  <1>7. CASE EditDetails(i)
    <2>1. inv'[i].lines = inv[i].lines
      BY <1>1, <1>7 DEF EditDetails, Invoice
    <2> QED BY <1>4, <2>1
  <1>8. CASE DeleteDraft(i)
    BY <1>1, <1>3, <1>8 DEF DeleteDraft
  <1>9. ASSUME NEW o \in Invoices, NewCreditNote(i, o)
        PROVE  inv'[i].lines.net \in [Rates -> Amounts]
    <2>1. inv'[i] = NoteFor(o) /\ NoteFor(o).lines = inv[o].lines
      BY <1>1, <1>9, CopiesOK DEF NewCreditNote, IInv
    <2> QED BY <2>1 DEF NetsIn
  <1> QED BY <1>5, <1>6, <1>7, <1>8, <1>9

(* So does a commit. *)
LEMMA CommitNets ==
  ASSUME CInv, NetsIn, NEW t \in Slots, Commit(t)
  PROVE  NetsIn' /\ Doc(t).lines.net \in [Rates -> Amounts]
  <1> DEFINE d == slot[t].doc
             o == slot[t].of
             c == slot[t].copy
  <1>1. Doc(t).lines.net \in [Rates -> Amounts]
    <2>1. CASE slot[t].act = "full"
      <3>1. o \in Invoices
        BY <2>1, SlotFields DEF CInv, IInv, TypeOK, SlotOK, Crediting
      <3>2. Doc(t) = NoteFor(o) /\ NoteFor(o).lines = inv[o].lines
        BY <2>1, <3>1, CopiesOK DEF Doc, CInv, IInv
      <3> QED BY <3>1, <3>2 DEF NetsIn
    <2>2. CASE slot[t].act # "full"
      BY <2>2, CommitRows DEF Doc, NetsIn, CInv
    <2> QED BY <2>1, <2>2
  <1>2. ASSUME NEW i \in Invoices
        PROVE  inv'[i].lines.net \in [Rates -> Amounts]
    <2>1. CASE i = d
      BY <1>1, <2>1, CommitFx DEF CInv
    <2>2. CASE i = c
      <3>1. inv'[i] = CopyOf(o) /\ o \in Invoices
        BY <2>2, CommitRows, ConstantFacts DEF CInv
      <3>2. CopyOf(o).lines = inv[o].lines
        BY DEF CopyOf, NoRow
      <3> QED BY <3>1, <3>2 DEF NetsIn
    <2>3. CASE i \notin {d, c} /\ inv[i].status \in Issued
      BY <2>3, CommitFreezes DEF CInv, Content, NetsIn
    <2>4. CASE i \notin {d, c} /\ inv[i].status \notin Issued
      <3>1. i # o
        BY <2>4, CommitRows, ConstantFacts DEF CInv
      <3> QED BY <2>4, <3>1, CommitRows DEF CInv, NetsIn
    <2> QED BY <2>1, <2>2, <2>3, <2>4
  <1> QED BY <1>1, <1>2 DEF NetsIn

(* The entry of the document a commit issues. *)
NewEntry(t) ==
  [of  |-> IF slot[t].of = NoInvoice THEN 0 ELSE Position(slot[t].of),
   net |-> Doc(t).lines.net]

(* A commit adds that entry to the book. *)
LEMMA CommitBook ==
  ASSUME CInv, CInv', NetsIn, NEW t \in Slots, Commit(t)
  PROVE  /\ NewEntry(t) \in Entries /\ NewEntry(t).of \in 0 .. Size
         /\ BookOf' \in [1 .. Size + 1 -> Entries]
         /\ \A n \in 1 .. Size : BookOf'[n] = BookOf[n]
         /\ BookOf'[Size + 1] = NewEntry(t)
  <1> DEFINE d == slot[t].doc
             o == slot[t].of
             e == NewEntry(t)
  <1>1. /\ IInv /\ IInv' /\ Kept
        /\ series'.first = series.first /\ series'.next = series.next + 1 /\ Size' = Size + 1
    BY CommitFreezes, CommitSeries DEF CInv, Kept
  <1>2. /\ Size \in Nat /\ BookOf \in [1 .. Size -> Entries]
        /\ series.first \in Int /\ series.next \in Int
    BY <1>1, BookTyped DEF IInv, TypeOK
  <1>3. o = NoInvoice \/ (o \in Invoices /\ inv[o].status \in Issued)
    BY <1>1, CommitRows
  <1>4. e \in Entries /\ e.of \in 0 .. Size
    <2>1. Doc(t).lines.net \in [Rates -> Amounts]
      BY CommitNets
    <2>2. o # NoInvoice => Position(o) \in 1 .. Size
      BY <1>1, <1>3, PlaceOf
    <2> QED BY <1>2, <2>1, <2>2 DEF NewEntry, Entries
  <1>5. ASSUME NEW n \in 1 .. Size
        PROVE  EntryOf(Numbered(series.first + n - 1))' = BookOf[n]
    <2> DEFINE m == series.first + n - 1
               i == Numbered(m)
    <2>1. i \in Invoices /\ inv[i].status \in Issued /\ inv[i].number = m
      BY <1>1, AtPlace
    <2>2. Numbered(m)' = i /\ m' = m
      BY <1>1, <2>1, PlaceStays
    <2>3. \A j \in Invoices : j = i => EntryOf(j)' = EntryOf(j)
      BY <1>1, <2>1, PlaceStays
    <2>4. BookOf[n] = EntryOf(i)
      BY DEF BookOf
    <2> HIDE DEF m
    <2>5. EntryOf(Numbered(m))' = EntryOf(i)
      BY <2>1, <2>2, <2>3 DEF EntryOf
    <2> QED BY <2>4, <2>5 DEF m
  <1>6. ASSUME NEW n \in 1 .. Size + 1, n = Size + 1
        PROVE  EntryOf(Numbered(series.first + n - 1))' = e
    <2> SUFFICES ASSUME NEW i \in Invoices, i = d PROVE EntryOf(Numbered(series.first + n - 1))' = e
      BY <1>1, CommitRows
    <2>1. slot[t].number = series.next
      BY <1>1 DEF Commit, OneNumber, IInv
    <2>2. inv'[i].status \in Issued /\ inv'[i].number = series.next
      BY <1>1, <2>1, CommitDoc DEF Issued, Open
    <2>3. inv'[i].of = o /\ (inv'[i].kind = "INVOICE" <=> o = NoInvoice) /\ inv'[i].lines = Doc(t).lines
      BY <1>1, CommitDoc, CommitFx
    <2>4. \A m : m = series.next => Numbered(m)' = i
      BY <1>1, <2>2 DEF Numbered, IInv, NumbersUnbroken
    <2>5. o # NoInvoice => inv'[o].number = inv[o].number
      BY <1>1, <1>3 DEF Kept, Content
    <2>6. EntryOf(i)' = e
      BY <1>1, <2>3, <2>5 DEF EntryOf, NewEntry, Position
    <2>7. (series.first + n - 1)' = series.next
      BY <1>1, <1>2, <1>6 DEF Size
    <2>8. Numbered(series.first + n - 1)' = i
      BY <2>4, <2>7 DEF Numbered
    <2> QED BY <2>6, <2>8 DEF EntryOf
  <1>7. BookOf' = [n \in 1 .. Size + 1 |-> EntryOf(Numbered(series.first + n - 1))']
    BY <1>1 DEF BookOf
  <1>8. \A n \in 1 .. Size + 1 : n \in 1 .. Size \/ n = Size + 1
    BY <1>2
  <1>9. \A n \in 1 .. Size : n \in 1 .. Size + 1
    BY <1>2
  <1>10. Size + 1 \in 1 .. Size + 1
    BY <1>2
  <1>11. \A n \in 1 .. Size : BookOf'[n] = BookOf[n]
    BY <1>5, <1>7, <1>9
  <1>12. BookOf'[Size + 1] = e
    BY <1>6, <1>7, <1>10
  <1>13. \A n \in 1 .. Size + 1 : BookOf'[n] \in Entries
    BY <1>2, <1>4, <1>8, <1>11, <1>12
  <1>14. BookOf' \in [1 .. Size + 1 -> Entries]
    BY <1>7, <1>13
  <1> QED BY <1>4, <1>11, <1>12, <1>14

(* Two issued documents do not share a place. *)
LEMMA PlacesApart ==
  ASSUME IInv, NEW i \in Invoices, NEW j \in Invoices, inv[i].status \in Issued, inv[j].status \in Issued,
         Position(i) = Position(j)
  PROVE  i = j
  <1>1. inv[i].number \in Int /\ inv[j].number \in Int /\ series.first \in Int
    BY RowFields DEF IInv, TypeOK
  <1>2. inv[i].number = inv[j].number
    BY <1>1 DEF Position
  <1> QED BY <1>2 DEF IInv, NumbersUnbroken

(* The credit of an invoice and what the book takes of its entry grow by    *)
(* the same.                                                                *)
LEMMA CommitTaken ==
  ASSUME CInv, CInv', NetsIn, TakenIsCredited, NEW t \in Slots, Commit(t)
  PROVE  TakenIsCredited'
  <1> DEFINE o == slot[t].of
             e == NewEntry(t)
             more(k, r) == IF e.of = k THEN e.net[r] ELSE 0
  <1>1. /\ IInv /\ IInv' /\ Kept
        /\ series'.first = series.first /\ series'.next = series.next + 1 /\ Size' = Size + 1
        /\ slot[t].number = series.next
    BY CommitFreezes, CommitSeries DEF CInv, Kept, IInv, OneNumber, Commit
  <1>2. Size \in Nat /\ BookOf \in [1 .. Size -> Entries] /\ series.first \in Int /\ series.next \in Int
    BY <1>1, BookTyped DEF IInv, TypeOK
  <1>3. e.of \in 0 .. Size /\ e.net = Doc(t).lines.net /\ e.of = IF o = NoInvoice THEN 0 ELSE Position(o)
    BY CommitBook DEF NewEntry
  <1>4. ASSUME NEW r \in Rates, NEW k \in Nat
        PROVE  Book!Taken(BookOf', k, r) = Book!Taken(BookOf, k, r) + more(k, r)
    BY <1>2, CommitBook, TakenMore
  <1>5. ASSUME NEW r \in Rates, NEW k \in Nat
        PROVE  Book!Taken(BookOf, k, r)' = Book!Taken(BookOf', k, r)
    BY DEF Book!Taken
  <1>6. ASSUME NEW r \in Rates, NEW k \in Nat, k > Size'
        PROVE  Book!Taken(BookOf', k, r) = 0
    <2>1. Book!Taken(BookOf, k, r) = 0 /\ e.of # k
      BY <1>1, <1>2, <1>3, <1>6 DEF TakenIsCredited
    <2> QED BY <1>4, <2>1
  <1>7. ASSUME NEW r \in Rates, NEW k \in Nat, NEW q \in Invoices,
               inv'[q].kind = "INVOICE", inv'[q].status \in Issued, Position(q)' = k
        PROVE  Book!Taken(BookOf', k, r) = Credited(q, r)'
    <2>1. CASE q = slot[t].doc
      <3>1. inv'[q].number = series.next
        BY <1>1, <2>1, CommitDoc
      <3>2. k = Size + 1
        BY <1>1, <1>2, <1>7, <3>1 DEF Position, Size
      <3>3. Book!Taken(BookOf, k, r) = 0 /\ e.of # k
        BY <1>2, <1>3, <3>2 DEF TakenIsCredited
      <3>4. IssuedNotes(q)' = {}
        <4>1. inv[q].status \notin Issued /\ q # o /\ q # NoInvoice
          BY <1>1, <2>1, CommitRows, ConstantFacts
        <4>2. IssuedNotes(q) = {}
          BY <1>1, <4>1 DEF IInv, Rows, IssuedNotes
        <4> QED BY <1>1, <4>1, <4>2, CommitNotes
      <3>5. Credited(q, r)' = 0
        BY <3>4, SumOfNothing DEF Credited
      <3> QED BY <1>4, <3>3, <3>5
    <2>2. CASE q # slot[t].doc
      <3>1. inv[q].status \in Issued
        BY <1>1, <1>7, <2>2, CommitIssues
      <3>2. inv[q].kind = "INVOICE" /\ Position(q) = k
        BY <1>1, <1>7, <3>1, PlaceStays DEF Kept, Content
      <3>3. Book!Taken(BookOf, k, r) = Credited(q, r)
        BY <3>1, <3>2 DEF TakenIsCredited
      <3>4. CASE q = o
        <4>1. e.of = k
          BY <1>3, <3>2, <3>4, ConstantFacts
        <4>2. Credited(q, r)' = Credited(q, r) + Doc(t).lines.net[r]
          BY <1>1, <3>4, CommitCredits
        <4> QED BY <1>3, <1>4, <3>3, <4>1, <4>2
      <3>5. CASE q # o
        <4>1. Credited(q, r)' = Credited(q, r)
          BY <1>1, <3>5, CommitNotes, SameCredit
        <4>2. e.of # k
          <5>1. CASE o = NoInvoice
            BY <1>1, <1>3, <3>1, <3>2, <5>1, PlaceOf
          <5>2. CASE o # NoInvoice
            <6>1. o \in Invoices /\ inv[o].status \in Issued
              BY <1>1, <5>2, CommitRows
            <6> QED BY <1>1, <1>3, <3>1, <3>2, <3>5, <5>2, <6>1, PlacesApart
          <5> QED BY <5>1, <5>2
        <4>3. Credited(q, r) \in Int
          BY <1>1, NotesFinite
        <4> QED BY <1>4, <3>3, <4>1, <4>2, <4>3
      <3> QED BY <3>4, <3>5
    <2> QED BY <2>1, <2>2
  <1> QED BY <1>5, <1>6, <1>7 DEF TakenIsCredited

(* Steps that issue nothing leave both alone. *)
LEMMA SettledTaken ==
  ASSUME CInv, CInv', TakenIsCredited, Settled, series' = series
  PROVE  TakenIsCredited'
  <1>1. IInv /\ IInv' /\ BookOf' = BookOf /\ Size' = Size
    BY BookStays DEF CInv
  <1>2. ASSUME NEW r \in Rates, NEW k \in Nat
        PROVE  Book!Taken(BookOf, k, r)' = Book!Taken(BookOf, k, r)
    <2>1. Book!Taken(BookOf, k, r)' = Book!Taken(BookOf', k, r)
      BY DEF Book!Taken
    <2> QED BY <1>1, <2>1
  <1>3. ASSUME NEW r \in Rates, NEW k \in Nat, NEW q \in Invoices,
               inv'[q].kind = "INVOICE", inv'[q].status \in Issued, Position(q)' = k
        PROVE  Book!Taken(BookOf, k, r) = Credited(q, r)'
    <2>1. inv[q].status \in Issued
      BY <1>3 DEF Settled
    <2>2. inv[q].kind = "INVOICE" /\ Position(q) = k
      BY <1>1, <1>3, <2>1, PlaceStays DEF Settled, Kept, Content
    <2>3. IssuedNotes(q)' = IssuedNotes(q) /\ \A i \in IssuedNotes(q) : inv'[i].lines = inv[i].lines
      BY DEF Settled, Kept, Content, IssuedNotes
    <2>4. Credited(q, r)' = Credited(q, r)
      BY <2>3, SameCredit
    <2> QED BY <2>1, <2>2, <2>4 DEF TakenIsCredited
  <1> QED BY <1>1, <1>2, <1>3 DEF TakenIsCredited

(* The series is set up while the book is empty. *)
LEMMA StartBook ==
  ASSUME IInv, IInv', NEW n \in Firsts, SetFirst(n)
  PROVE  /\ BookOf = <<>> /\ BookOf' = <<>> /\ SettledOf = {} /\ SettledOf' = {}
         /\ Size = 0 /\ Size' = 0 /\ inv' = inv /\ \A i \in Invoices : inv[i].status \notin Issued
  <1>1. inv' = inv /\ series' = [first |-> n, next |-> n] /\ series.next = series.first
    BY DEF SetFirst
  <1>2. Size = 0 /\ Size' = 0
    BY <1>1, LedgerAssumption DEF Size, IInv, TypeOK
  <1>3. \A x : x \notin 1 .. Size /\ x \notin 1 .. Size'
    BY <1>2
  <1>4. BookOf = <<>> /\ BookOf' = <<>>
    BY <1>2 DEF BookOf
  <1>5. \A i \in Invoices : inv[i].status \notin Issued
    BY <1>3, PlaceOf
  <1>6. SettledOf = {} /\ SettledOf' = {}
    BY <1>1, <1>5 DEF SettledOf, Issued
  <1> QED BY <1>1, <1>2, <1>4, <1>5, <1>6

(* Nothing is taken of an empty book. *)
LEMMA StartTaken ==
  ASSUME CInv, CInv', TakenIsCredited, NEW n \in Firsts, SetFirst(n)
  PROVE  TakenIsCredited'
  <1>1. /\ BookOf' = BookOf /\ Size' = Size
        /\ \A i \in Invoices : inv'[i].status \notin Issued
    BY StartBook DEF CInv
  <1>2. ASSUME NEW r \in Rates, NEW k \in Nat
        PROVE  Book!Taken(BookOf, k, r)' = Book!Taken(BookOf, k, r)
    <2>1. Book!Taken(BookOf, k, r)' = Book!Taken(BookOf', k, r)
      BY DEF Book!Taken
    <2> QED BY <1>1, <2>1
  <1> QED BY <1>1, <1>2 DEF TakenIsCredited

(* Only the invoice a commit credits can become settled. *)
LEMMA CommitSettled ==
  ASSUME CInv, CInv', NEW t \in Slots, Commit(t)
  PROVE  SettledOf' = IF slot[t].of # NoInvoice /\ inv'[slot[t].of].status = "CREDITED"
                        THEN SettledOf \cup {Position(slot[t].of)} ELSE SettledOf
  <1> DEFINE d == slot[t].doc
             o == slot[t].of
             c == slot[t].copy
             C == {j \in Invoices : inv[j].status = "CREDITED"}
             D == {j \in Invoices : inv'[j].status = "CREDITED"}
  <1>1. IInv /\ Kept /\ series'.first = series.first
    BY CommitFreezes, CommitSeries DEF CInv, Kept
  <1>2. ASSUME NEW j \in Invoices, inv[j].status = "CREDITED"
        PROVE  inv'[j].status = "CREDITED" /\ inv'[j].number = inv[j].number
    BY <1>1, <1>2, CommitFreezes DEF Kept, Content, Issued
  <1>3. ASSUME NEW j \in Invoices, inv'[j].status = "CREDITED", j # o
        PROVE  inv[j].status = "CREDITED"
    <2>1. j # d
      BY <1>1, <1>3, CommitDoc
    <2>2. ASSUME j = c
          PROVE  FALSE
      <3>1. c # NoInvoice /\ o # NoInvoice /\ o \in Invoices /\ inv'[c] = CopyOf(o)
        BY <1>1, <2>2, CommitRows, ConstantFacts
      <3>2. CopyOf(o).status = "DRAFT"
        BY <1>1, <3>1, CopiesOK DEF IInv
      <3> QED BY <1>3, <2>2, <3>1, <3>2
    <2> QED BY <1>1, <1>3, <2>1, <2>2, CommitRows
  <1>4. CASE o # NoInvoice /\ inv'[o].status = "CREDITED"
    <2>1. o \in Invoices /\ inv'[o].number = inv[o].number
      BY <1>1, <1>4, CommitRows DEF Kept, Content
    <2>2. D = C \cup {o}
      BY <1>2, <1>3, <1>4, <2>1
    <2>3. SettledOf' = {inv'[j].number - series.first + 1 : j \in D}
      BY <1>1 DEF SettledOf
    <2>4. SettledOf' = {inv[j].number - series.first + 1 : j \in C \cup {o}}
      BY <1>2, <2>1, <2>2, <2>3
    <2> QED BY <1>4, <2>1, <2>4 DEF SettledOf, Position
  <1>5. CASE ~ (o # NoInvoice /\ inv'[o].status = "CREDITED")
    <2>1. D = C
      BY <1>2, <1>3, <1>5, ConstantFacts
    <2> QED BY <1>1, <1>2, <1>5, <2>1 DEF SettledOf
  <1> QED BY <1>4, <1>5

(* The ledger's variables, as the book sees them.                           *)
LEMMA BookVars ==
  /\ Book!bookVars = <<series.first, BookOf, SettledOf>>
  /\ Book!bookVars' = <<series'.first, BookOf', SettledOf'>>
  BY DEF Book!bookVars, BookOf, SettledOf, Size

(* A commit appends to the book. *)
LEMMA CommitAdds ==
  ASSUME BInv, BInv', NEW t \in Slots, Commit(t)
  PROVE  /\ series.first # 0 /\ series'.first = series.first
         /\ BookOf' = Append(BookOf, NewEntry(t))
         /\ NewEntry(t).net \in [Rates -> Amounts]
  <1>1. CInv /\ CInv' /\ NetsIn /\ IInv
    BY DEF BInv, CInv
  <1>2. series.first # 0
    BY DEF BInv, FirstSet, Commit
  <1>3. Size \in Nat /\ BookOf \in [1 .. Size -> Entries]
    BY <1>1, BookTyped
  <1>4. BookOf' = Append(BookOf, NewEntry(t))
    <2> DEFINE b == BookOf
               c == BookOf'
               e == NewEntry(t)
    <2>1. /\ e \in Entries /\ c \in [1 .. Size + 1 -> Entries]
          /\ \A n \in 1 .. Size : c[n] = b[n]
          /\ c[Size + 1] = e
      BY <1>1, CommitBook
    <2> HIDE DEF b, c, e
    <2>2. b \in [1 .. Size -> Entries]
      BY <1>3 DEF b
    <2>3. c = Append(b, e)
      BY <1>3, <2>1, <2>2, AppendEntry
    <2> QED BY <2>3 DEF b, c, e
  <1>5. NewEntry(t) \in Entries
    BY <1>1, CommitBook
  <1> QED BY <1>1, <1>2, <1>4, <1>5, CommitSeries DEF Entries

(* An invoice that is issued charges. *)
LEMMA ChargeMaps ==
  ASSUME BInv, BInv', NEW t \in Slots, Commit(t), slot[t].of = NoInvoice
  PROVE  Book!Next
  <1> DEFINE net == Doc(t).lines.net
  <1>1. NewEntry(t) = [of |-> 0, net |-> net]
    BY DEF NewEntry
  <1>2. /\ series.first # 0 /\ series'.first = series.first
        /\ BookOf' = Append(BookOf, [of |-> 0, net |-> net]) /\ net \in [Rates -> Amounts]
    BY <1>1, CommitAdds
  <1>3. SettledOf' = SettledOf
    BY CommitSettled DEF BInv
  <1> HIDE DEF net
  <1>4. Book!Charge(net)
    BY <1>2, <1>3 DEF Book!Charge, Book!Add, BookOf, SettledOf, Size
  <1> QED BY <1>2, <1>4 DEF Book!Next, Amounts

(* A credit note that is issued credits. *)
LEMMA CreditMaps ==
  ASSUME BInv, BInv', NEW t \in Slots, Commit(t), slot[t].of # NoInvoice
  PROVE  Book!Next
  <1> SUFFICES ASSUME NEW o \in Invoices, o = slot[t].of PROVE Book!Next
    BY CommitRows DEF BInv, CInv
  <1> SUFFICES ASSUME NEW k, k = Position(o), NEW net, net = Doc(t).lines.net PROVE Book!Next
    OBVIOUS
  <1>1. CInv /\ CInv' /\ IInv /\ IInv' /\ NetsIn /\ Kept
    BY CommitFreezes DEF BInv, CInv, Kept
  <1>2. o # NoInvoice /\ inv[o].status \in Open /\ inv[o].kind = "INVOICE"
    BY <1>1, ConstantFacts, CommitTerms DEF Commit, IInv, CheckStands, CreditAllowed
  <1>3. /\ inv[o].status \in Issued /\ inv'[o].status \in Issued
        /\ inv'[o].kind = "INVOICE" /\ inv'[o].lines = inv[o].lines
    BY <1>1, <1>2 DEF Issued, Kept, Content
  <1>4. k \in 1 .. Size /\ k \in Nat /\ Position(o)' = k
    <2>1. Size \in Nat
      BY <1>1, BookTyped
    <2>2. k \in 1 .. Size
      BY <1>1, <1>3, PlaceOf
    <2>3. Position(o)' = k
      BY <1>1, <1>3, CommitSeries, PlaceStays
    <2> QED BY <2>1, <2>2, <2>3
  <1>5. BookOf[k].of = 0 /\ BookOf[k].net = inv[o].lines.net
    <2>1. BookOf[k] = EntryOf(o)
      BY <1>1, <1>3, BookTyped
    <2> QED BY <1>2, <2>1 DEF EntryOf
  <1>6. k \notin SettledOf
    <2>1. ASSUME NEW j \in Invoices, inv[j].status = "CREDITED", inv[j].number - series.first + 1 = k
          PROVE  FALSE
      <3>1. j = o
        BY <1>1, <1>3, <2>1, PlacesApart DEF Position, Issued
      <3> QED BY <1>2, <2>1, <3>1 DEF Open
    <2> QED BY <2>1 DEF SettledOf
  <1>7. NewEntry(t) = [of |-> k, net |-> net]
    BY <1>2 DEF NewEntry
  <1>8. /\ series.first # 0 /\ series'.first = series.first
        /\ BookOf' = Append(BookOf, [of |-> k, net |-> net]) /\ net \in [Rates -> Amounts]
    BY <1>7, CommitAdds
  <1>9. ASSUME NEW r \in Rates
        PROVE  Book!Taken(BookOf', k, r) = Credited(o, r)'
    <2>1. Book!Taken(BookOf, k, r)' = Book!Taken(BookOf', k, r)
      BY DEF Book!Taken
    <2>2. Book!Taken(BookOf, k, r)' = Credited(o, r)'
      BY <1>3, <1>4 DEF BInv, TakenIsCredited
    <2> QED BY <2>1, <2>2
  <1>10. Accounted(o)' /\ IssuedNotes(o)' # {}
    BY <1>1, CommitNotes DEF CInv
  <1>11. \A r \in Rates : Within(Book!Taken(BookOf', k, r), BookOf[k].net[r])
    BY <1>3, <1>5, <1>9, <1>10 DEF Accounted
  <1>12. (\A r \in Rates : Book!Taken(BookOf', k, r) = BookOf[k].net[r]) <=> inv'[o].status = "CREDITED"
    BY <1>3, <1>5, <1>9, <1>10 DEF Accounted
  <1>13. SettledOf' = IF \A r \in Rates : Book!Taken(BookOf', k, r) = BookOf[k].net[r]
                        THEN SettledOf \cup {k} ELSE SettledOf
    BY <1>1, <1>2, <1>12, CommitSettled
  <1>14. k \in 1 .. Len(BookOf)
    BY <1>1, <1>4, BookTyped
  <1>15. Book!Credit(k, net)
    BY <1>5, <1>6, <1>8, <1>11, <1>13 DEF Book!Credit, Book!Add, BookOf, SettledOf, Size, Within
  <1> QED BY <1>8, <1>14, <1>15 DEF Book!Next, Amounts, BookOf, Size

(* Every step keeps what the mapping needs. *)
LEMMA BookStepOK == BInv /\ [Next]_vars => BInv'
  <1> SUFFICES ASSUME BInv, [Next]_vars PROVE BInv'
    OBVIOUS
  <1>1. CInv /\ IInv /\ NetsIn /\ TakenIsCredited /\ CInv' /\ IInv'
    BY CreditStepOK DEF BInv, CInv
  <1>2. FirstSet'
    BY <1>1, FirstSetOK DEF BInv
  <1>3. CASE Settled /\ series' = series /\ \A i \in Invoices : inv'[i].lines.net \in [Rates -> Amounts]
    BY <1>1, <1>2, <1>3, SettledTaken DEF BInv, NetsIn
  <1>4. CASE inv' = inv /\ series' = series
    <2>1. Settled /\ \A i \in Invoices : inv'[i].lines.net \in [Rates -> Amounts]
      BY <1>1, <1>4, SameRowsSettle DEF NetsIn
    <2> QED BY <1>3, <1>4, <2>1
  <1>5. ASSUME NEW n \in Firsts, SetFirst(n)
        PROVE  BInv'
    <2>1. inv' = inv
      BY <1>5 DEF SetFirst
    <2>2. NetsIn'
      BY <1>1, <2>1 DEF NetsIn
    <2> QED BY <1>1, <1>2, <1>5, <2>2, StartTaken DEF BInv
  <1>6. ASSUME NEW i \in Invoices,
               NewDraft(i) \/ EditLines(i) \/ EditDetails(i) \/ DeleteDraft(i)
                 \/ \E o \in Invoices : NewCreditNote(i, o)
        PROVE  BInv'
    <2>1. inv'[i].lines.net \in [Rates -> Amounts]
      BY <1>1, <1>6, DraftNets
    <2>2. PICK x : Drafted(i, x)
      BY <1>1, <1>6, NewDraftDrafts, EditLinesDrafts, EditDetailsDrafts, DeleteDraftDrafts, NewCreditNoteDrafts
    <2>3. Settled /\ \A j \in Invoices \ {i} : inv'[j] = inv[j]
      BY <1>1, <2>2, WrittenSettles
    <2>4. series' = series
      BY <2>2 DEF Drafted, Written
    <2>5. \A j \in Invoices : inv'[j].lines.net \in [Rates -> Amounts]
      BY <1>1, <2>1, <2>3 DEF NetsIn
    <2> QED BY <1>3, <2>3, <2>4, <2>5
  <1>7. ASSUME NEW i \in Invoices, MarkSent(i) \/ MarkPaid(i) \/ MarkUnpaid(i)
        PROVE  BInv'
    <2>1. PICK x : Marked(i, x)
      BY <1>1, <1>7, MarkSentMarks, MarkPaidMarks, MarkUnpaidMarks
    <2>2. Settled /\ inv'[i] = x /\ \A j \in Invoices \ {i} : inv'[j] = inv[j]
      BY <1>1, <2>1, WrittenSettles
    <2>3. series' = series /\ x.lines = inv[i].lines
      BY <2>1 DEF Marked, Written, Content
    <2>4. \A j \in Invoices : inv'[j].lines.net \in [Rates -> Amounts]
      BY <1>1, <2>2, <2>3 DEF NetsIn
    <2> QED BY <1>3, <2>2, <2>3, <2>4
  <1>8. ASSUME NEW t \in Slots,
               \/ Fetch(t) \/ LockOriginal(t) \/ LockDraft(t) \/ Check(t) \/ Number(t)
               \/ Abort(t) \/ \E i \in Invoices : Look(t, i) \/ BeginFull(t, i)
        PROVE  BInv'
    <2>1. inv' = inv /\ series' = series
      BY <1>8 DEF Fetch, LockOriginal, LockDraft, Check, Number, Abort, Look, BeginFull
    <2> QED BY <1>4, <2>1
  <1>9. ASSUME NEW t \in Slots, Commit(t)
        PROVE  BInv'
    BY <1>1, <1>2, <1>9, CommitNets, CommitTaken DEF BInv
  <1>10. CASE UNCHANGED vars \/ EditClient
    <2>1. inv' = inv /\ series' = series
      BY <1>10 DEF vars, EditClient
    <2> QED BY <1>4, <2>1
  <1> QED BY <1>5, <1>6, <1>7, <1>8, <1>9, <1>10, Zenon DEF Next

(* Every step of the ledger is one of the book, or nothing to it. *)
LEMMA StepMapsToBook == BInv /\ BInv' /\ [Next]_vars => [Book!Next]_(Book!bookVars)
  <1> SUFFICES ASSUME BInv, BInv', [Next]_vars PROVE Book!Next \/ Book!bookVars' = Book!bookVars
    OBVIOUS
  <1>1. CInv /\ IInv /\ IInv'
    BY DEF BInv, CInv
  <1>2. CASE Settled /\ series' = series
    BY <1>1, <1>2, BookStays, BookVars
  <1>3. CASE inv' = inv /\ series' = series
    BY <1>1, <1>2, <1>3, SameRowsSettle
  <1>4. ASSUME NEW n \in Firsts, SetFirst(n)
        PROVE  Book!Next
    <2>1. BookOf = <<>> /\ BookOf' = <<>> /\ SettledOf = {} /\ SettledOf' = {} /\ series'.first = n
      BY <1>1, <1>4, StartBook DEF SetFirst
    <2>2. Book!Start(n)
      BY <2>1 DEF Book!Start, BookOf, SettledOf, Size
    <2> QED BY <2>2 DEF Book!Next
  <1>5. ASSUME NEW i \in Invoices, NEW x, Drafted(i, x) \/ Marked(i, x)
        PROVE  Book!Next \/ Book!bookVars' = Book!bookVars
    <2>1. Settled /\ series' = series
      BY <1>1, <1>5, WrittenSettles DEF Drafted, Marked, Written
    <2> QED BY <1>2, <2>1
  <1>6. ASSUME NEW t \in Slots,
               \/ Fetch(t) \/ LockOriginal(t) \/ LockDraft(t) \/ Check(t) \/ Number(t)
               \/ Abort(t) \/ \E i \in Invoices : Look(t, i) \/ BeginFull(t, i)
        PROVE  Book!Next \/ Book!bookVars' = Book!bookVars
    <2>1. inv' = inv /\ series' = series
      BY <1>6 DEF Fetch, LockOriginal, LockDraft, Check, Number, Abort, Look, BeginFull
    <2> QED BY <1>3, <2>1
  <1>7. ASSUME NEW t \in Slots, Commit(t)
        PROVE  Book!Next
    BY <1>7, ChargeMaps, CreditMaps
  <1>8. CASE UNCHANGED vars \/ EditClient
    <2>1. inv' = inv /\ series' = series
      BY <1>8 DEF vars, EditClient
    <2> QED BY <1>3, <2>1
  <1> QED BY <1>1, <1>4, <1>5, <1>6, <1>7, <1>8, Steps

(* The book is empty to begin with. *)
LEMMA BookInitOK == Init => BInv /\ Book!Init
  <1> SUFFICES ASSUME Init PROVE BInv /\ Book!Init
    OBVIOUS
  <1>1. CInv /\ IInv
    BY CreditInitOK DEF CInv
  <1>2. /\ \A i \in Invoices : inv[i].status \notin Issued /\ inv[i].lines.net = [r \in Rates |-> 0]
        /\ series.first = 0 /\ series.next = 0
    BY ConstantFacts DEF Init, NoRow, NoLines, NoSeries
  <1>3. FirstSet
    BY NoSlotOK DEF Init, FirstSet
  <1>4. NetsIn
    BY <1>2 DEF NetsIn, Amounts
  <1>5. Size = 0 /\ 1 .. Size = {}
    BY <1>2 DEF Size
  <1>6. BookOf = <<>> /\ SettledOf = {}
    BY <1>2, <1>5 DEF BookOf, SettledOf, Issued
  <1>7. Book!Init
    BY <1>2, <1>6 DEF Book!Init, BookOf, SettledOf, Size
  <1>8. ASSUME NEW r \in Rates, NEW k \in Nat
        PROVE  Book!Taken(BookOf, k, r) = 0
    <2> DEFINE a == TakenBy(BookOf, 0, k, r)
    <2>1. BookOf \in [1 .. 0 -> Entries]
      BY <1>5, <1>6 DEF BookOf
    <2>2. Book!Taken(BookOf, k, r) = SumFunction(a)
      BY <2>1, TakenSum
    <2>3. DOMAIN a = {}
      BY DEF TakenBy
    <2> HIDE DEF a
    <2>4. SumFunction(a) = 0
      BY <2>3, EmptySum
    <2> QED BY <2>2, <2>4
  <1>9. TakenIsCredited
    BY <1>2, <1>8 DEF TakenIsCredited
  <1> QED BY <1>1, <1>3, <1>4, <1>7, <1>9 DEF BInv

(* The mapping's invariant holds in every reachable state. *)
LEMMA BookInvariance == Spec => []BInv
  BY BookInitOK, BookStepOK, PTL DEF Spec

(* Whatever is drafted, raced or given up, the issued documents are a book  *)
(* to which documents are only added, each with the next number, in which   *)
(* credit notes take back no more of an invoice than it charged.            *)
THEOREM ImplementsBook == Spec => ImplementsInvoiceBook
  BY BookInitOK, StepMapsToBook, BookInvariance, PTL DEF Spec, ImplementsInvoiceBook, Book!Spec
=============================================================================
