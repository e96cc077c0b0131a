# fortleva in TLA+

fortleva is a multi-tenant platform for agencies: Next.js server code over one
Postgres database, in which row-level security, triggers and row locks carry
most of the rules. There is no long-running process. Everything happens in
short-lived functions, called by a request, a cron entry or a person, that meet
only in the database's rows and at the services they call. What is hard in such
a system is not a single handler but what two of them do to the same rows, what
is left when one is killed, and what a lost answer means.

This directory models that transactional core, checks the models with TLC on
small instances and proves the main results with TLAPS for every instance.

- [Inventory](#inventory) of the system
- [Plan](#plan): modules, abstract specifications, runs, theorems
- [The email outbox](#the-email-outbox)
- [The invoice ledger](#the-invoice-ledger)
- [The nightly send to Fortnox](#the-nightly-send-to-fortnox)
- [Hours on invoices](#hours-on-invoices)
- [A member's timer](#a-members-timer)
- [Share links](#share-links)
- [Running it](#running-it)

## Inventory

Paths are below `src/src/`, the schema is `src/prisma/schema.prisma`, and the
triggers are in `src/prisma/migrations/`.

### How the parts meet

- **One transaction, one principal.** `db/with-tenant.ts` opens every
  transaction with the caller's principal in session variables; row-level
  security and the guard triggers read them there. A guard in a trigger is as
  much a part of an operation as the TypeScript that calls it, and is modelled
  with it.
- **Locks and claims.** Work that must not be done twice is claimed: a row
  lock (`FOR UPDATE`, `FOR SHARE`), an advisory lock, or a lease stamped by a
  conditional `UPDATE`. Calls to the outside are made outside transactions, so
  the lease has to outlive them or the writes after them have to be fenced.
- **Notifications and mail.** Producers insert outbox rows in their own
  transaction; a cron drains them. Push has a queue of its own.
- **Jobs.** Cron entries call `api/jobs/*`; a job may overlap with itself, with
  other jobs and with people, and is killed at its `maxDuration`.

### Components

| component | state | operations | what is hard | what makes it correct |
|---|---|---|---|---|
| email outbox | `email_outbox`, `email_suppression`; what a drain holds | enqueue, claim, recount, send, finalise, release, re-time, remake, block, lift | overlapping drains, kills, lost writes, timeouts of the transport | one holder of a row; sent again only after a lost acceptance; every mail closes; closed rows stay closed |
| push notifications | `push_delivery` rows, devices | claim, send, release, sweep | the claim is the stamp: a kill loses, never repeats | at most once; a release takes its own claim's rows |
| invoice ledger | `invoice`, `invoice_line`, `invoice_series` | drafts, issue, credit, number, paid/sent marks | two issues or two credits at once, edits under an open dialog, a rate fetched before the locks | numbers without gap or duplicate; never credited beyond the charge; what is issued is what was seen |
| Fortnox connection and nightly send | `integration_connection`, `invoice_export_delivery`; a run's memory; Fortnox's series | connect, disconnect, claim, reconcile, book, attach, make the night's file, settle; a person's decisions | lost answers, kills, lapsed leases, a disconnect or reconnect under a run | one voucher per entry, in order; the kill switch cuts off; every entry is booked in the end |
| hours on invoices | the marks of `time_entry`, the records `invoice_line_time_entry` | put on a draft, remove a line, discard, issue, credit, copy, return, set aside, split, delete | an hour split while its invoice is credited, a list shown before another draft took the hour | the record and the marks agree: no time is billed twice, none of an invoice's time is lost |
| renewal invoices | agreement terms, draft invoices | plan, make, skip | two jobs, terms edited meanwhile | one draft per service and term |
| sending an invoice | `invoice.sent_at`, mail | fetch the PDF, mail, record | the record lost after the mail | the mark follows a mail; repeated only by a person |
| bookkeeping files and year ends | `invoice_export`, entries | make, reverse, withdraw, book a year end | two makers, an event booked and withdrawn | each event is in one file |
| contracts and signing | `contract`, parties | send, sign, withdraw, expire | signatures racing a withdrawal | signed means all have signed what was sent |
| vault: share links | `credential_share_link`, `credential_item`, the switch | make, send a code, open, revoke; seal, remove the member, replace the secret, switch off | two openings at once, a link made while what ends links runs | a link opens once, is born alive and stays dead |
| vault: the rest | items, sealed requests, submissions, asks | reveal, hand in, ask, export, retain | a leaver's reads racing the removal | what a leaver knew is flagged |
| work: tasks, ranks, tree | `work_item`, ranks | create, move, triage, bin, repeat | lock order, rank collisions, the holder of a series moving | ranks are unique; each due copy is made once |
| time: timer and entries | `time_entry`, `project_time_summary` | start, stop, undo, type, correct, delete, automatic stop, recompute | the automatic stop, which takes no lock, against the person | one running entry; no instant counted twice; the project's sum is the sum |
| time: shifts | `shift`, `shift_break` | clock in and out, break, automatic stop | a break against the automatic stop | a break excludes work |
| documents, uploads, reports | `document`, stored objects | request, complete, expire, sign off | completion against expiry | a row without an object is removed, never the reverse |
| projects, portal gate | `project.portal_enabled` and its fan-out | open, close, portal writes | a close against a write under way | nothing is written through a closed portal |
| members, roles, invites | `member`, roles | invite, accept, change a role, remove | two demotions at once | an owner stays |
| authorization, sessions, crypto, search, storage, export, rate limits, entitlements, user interface | – | – | mostly pure decisions, library flows and I/O | – |

`PROJECT.json` lists every component with its files and why it is or is not
modelled, and every hazard with the line where it bites.

## Plan

| # | module | about | state |
|---|---|---|---|
| 1 | `Outbox` ⊑ `MailDelivery` | the mail queue | modelled, checked, proved |
| 2 | `InvoiceLedger` ⊑ `InvoiceBook` | issuing, numbering, crediting | modelled, checked, proved, the sums and the refinement included |
| 3 | `FortnoxSend` ⊑ `VoucherBook` | the nightly send | modelled, checked, proved, the order of the line and the refinement included |
| 4 | `BilledHours` ⊑ `HourBook` | what hours an invoice bills | modelled, checked, proved, the refinement and the absence of deadlock included |
| 5 | `Timer` | `timer.ts`, `settle.ts`, `entries.ts`, `summary.ts` | modelled, checked, proved, the sums included |
| 6 | `ShareLink` | a link's life in the vault | modelled, checked, proved |
| 7 | `PushClaim` | at most once, beside the outbox's at least once | planned |
| 8 | `InvoiceSend`, `Renewals`, `RepeatCopies` | a mail and its record; made once per term or date, by a job that may overlap with itself | planned |
| 9 | `RankLine`, `Uploads`, `ContractSigning`, `LastOwner`, `PortalGate` | short protocols on few rows | planned |

Abstract specifications are stated where a component promises something that
can be said without its mechanism: `MailDelivery` without leases and drains,
`InvoiceBook` without locks and drafts, `VoucherBook` without runs and answers,
`HourBook` without marks, records and requests.

Theorems: every safety property and every refinement the passing runs check has
one, for any values of the constants; of `MailDelivery` its safety part. What
only TLC checks is liveness (`EveryMailCloses`, `EveryEntryIsBooked`,
`EveryStopIsLifted`, and the liveness of `MailDelivery`).

### Conventions

- One action is one database transaction, one answer of an outside service, one
  person's act or one tick of a clock; a transaction whose locks are held across
  several waits is split where it waits.
- The set of values a decision may take is what the code can decide: what
  authorization and reading the client's data would answer is a choice.
- A crash, a lost write, a lost answer or a lying timeout costs one of
  `MaxFaults`; the models without a limit are those the theorems are about
  (`MaxFaults` is any natural number there).
- Clocks are relative (time left, or age up to the point where it no longer
  matters), so that models of timeouts stay finite.
- A definition named after another with a suffix and the comment "Mutant of" is
  a plausible slip in the code. It is used by no specification; each shows that
  a property is violated when the code is changed so.

## The email outbox

`Outbox`, `MailDelivery`, `MCOutbox`, `OutboxProofs`; code:
`jobs/outbox.ts`, `jobs/outbox-kick.ts`, `mailer/index.ts`, `notify/emit.ts`,
`notify/preferences.ts`, `documents/report-mail.ts`, `jobs/mail-feedback.ts`,
`jobs/lift-mail-block.ts`.

Producers insert rows of `email_outbox`. A *drain* claims due rows in one
transaction (`FOR UPDATE SKIP LOCKED`, status SENDING, a lease stamp) and
decides each there: unknown kind, unwanted, held for quiet hours, suppressed,
nothing to say, or to send. Rows for a client's person it asks once more
outside the claim, a *recount*. Then it sends one row after the other and
finalises each in a transaction of its own. Drains may overlap, be killed at
any point, and lose a write or an answer.

| state | code |
|---|---|
| `row[r]` | one row of `email_outbox`: status, attempts, time to `send_after`, age of `locked_at`, who stamped it |
| `drain[d]` | what a running `drainOutbox` holds in memory: rows to recount, ready, in hand; attempts read at the claim |
| `suppressed` | `email_suppression`, by row |
| `delivered`, `lost` | history: acceptances by the transport, and those never recorded |
| `faults` | crashes, lost writes, timeouts that lie, stalls |

| action | code |
|---|---|
| `Enqueue`, `Remake`, `Retime` | `emitNotification`; `enqueueReportMails` deleting and remaking a dropped report's mail; `retimeHeldMail` |
| `Block`, `Lift` | `recordMailFeedback`, `liftMailBlock` |
| `Claim` | the claim with its verdicts, all rows in one transaction; `LIMIT` and `SKIP LOCKED` leave any due rows behind |
| `RecountBegin`, `RecountEnd` | the recount loop and `finaliseUnsent` |
| `SendBegin`, `Answer`, `Finalise` | `send`: the second suppression lookup, the transport; `sendAndFinaliseRow` |
| `Release` | `releaseUnattempted`, past a budget or after failures in a row |
| `Crash`, `Tick` | the function ends; time passes while every running drain waits for a call |

**Runs.** A tick is two minutes.

| run | instance | shows |
|---|---|---|
| `outbox_report` | 2 rows (a client's summary, a report's mail), 2 drains, 3 tries, 2 faults | `TypeOK`; `HeldIsLeased`: what a drain holds is leased to it, exactly since its claim, and the attempts it read are the row's; `DeliveryAccount`: every acceptance is recorded, about to be, or lost by a fault; `NoOrphanWithoutFault`: without a fault no row waits out a lease nobody uses; `ClosedIsFinal` |
| `outbox_live` | 2 rows (work, summary), 1 drain, 1 fault (a crash, a lost write, or a call that stalls past the lease), the sends' budget longer than the recounts' | `EveryMailCloses`; `ImplementsMailDelivery` |
| `outbox_kick` (violation) | 2 rows (two reports' mails), 1 drain, no fault, one deadline for recounts and sends | `EveryMailCloses` fails, see below |

*Bounds.* Two drains are enough for a race on a row, two rows for a batch with
a rest. The kinds `plain` and `digest` decide as others do, `retired` only closes
the row; the theorems cover them, the runs leave them out. The lease is one tick longer than a budget and a call, the least for
which the code's own relation (4 and 8 minutes inside 10) holds.

*Fairness.* Time passes; a drain's own code goes on unless the function ends;
each due row is in the end among those claimed, because a cron calls every five
minutes and the claim takes the oldest first. Nothing is assumed of producers,
of feedback or of the transport's answers: a transport that always fails closes
a row as DEAD.

*What the runs found.* `drainOutboxKick`, through which all deployed drains are
called, gives recounts and sends the same deadline, one minute after the kick
began. If the recounts of a batch of reports take that minute, the batch is
counted and handed back unsent, by this kick and by every later one
(`outbox_kick`). It is said of reports, whose mails are never too late to send;
summaries in such a batch are closed as SKIPPED once they are four hours late. With
the drain's own two budgets every mail closes (`outbox_live`).

A drain stalled past its lease (`Stalls = TRUE`: in `outbox_live`, and excluded
by the `BudgetsInsideLease` of the theorems) finalises by the row's id alone and so writes over what the row's new holder wrote:
`ClosedIsFinal` and `DeliveryAccount` then do not hold. The functions' limit of
five minutes is shorter than the ten of the lease, so no deployed drain gets
there; the release compares the stamp all the same.

**Proofs** (`OutboxProofs`), for any rows, drains, kinds, limits and faults,
from `OutboxAssumption`. `Typed`: `TypeOK`. From `BudgetsInsideLease` (no call
stalls, budgets plus a call end before the lease): `Leases`, `Exclusive`,
`Accounted`, `AtLeastOnce`, `Retries`, `Final`. The heart is `HeldIsLeased`: a
drain's age stays below the lease because a call starts only inside a budget and
takes at most `CallTime`, so a row in hand is never due, so no claim takes it,
so what a drain writes by id is still its own row. `DeliveryAccount` and
`ClosedIsFinal` follow from it and from the attempts read at the claim being the
row's; so do three that no run asks for on its own, `OneHolder` (`Exclusive`: no
row is in two hands), `NoUnexplainedDuplicate` (`AtLeastOnce`: a mail is taken
again only after an acceptance went unrecorded) and `AttemptsBudget` (`Retries`).

`NoOrphan` (`NoOrphanWithoutFault`) and `KeepsMailDelivery` rest on `OInv`, which
adds that no row was made again while a drain held it (`NoneGone`) and that a
leased row has a drain to its name and, without a fault, is among what that
drain still has to do (`Owned`); each action's lemma is named for it.
`KeepsMailDelivery` is the safety part of `MailDelivery` (`SafeSpec`): a step of
the queue is one of the abstract queue's or changes none of its variables.
`EveryMailCloses` and with it the rest of `ImplementsMailDelivery` are liveness
and model-checked only.

**Not modelled.** What a mail says; which receiver a notification has; the
locale; the reply address; that one kick claims several batches (each is a
claim of the same or another drain).

## The invoice ledger

`InvoiceLedger`, `InvoiceBook`, `MCInvoiceLedger`, `InvoiceLedgerProofs`,
`SumTheorems`; code: `modules/invoicing/` `issue.ts`, `issue-check.ts`, `credit.ts`,
`credit-state.ts`, `drafts.ts`, `series.ts`, `fx.ts`, `money.ts`, `send.ts` and
`app.invoice_guard` of `20261018090000_renewal_invoices`.

A member looks at a draft, confirms, and the server issues it: the exchange
rate is fetched first where one is needed, then in one transaction the original
(of a credit note), the draft and the client are locked in this order, what was
seen is compared with what is there, the checks run, and the guard trigger
takes the series' row and gives the next number. Crediting in full makes the
credit note, issues it and may make the corrected copy, in one transaction.

| state | code |
|---|---|
| `inv[i]` | one row of `invoice` with its lines summed per VAT rate, its terms and the rate it was issued at |
| `series` | `invoice_series`: the first number, the next one |
| `client` | the client's details an invoice prints |
| `slot[s]` | what a request holds: the step it is at, what the dialog saw, the rate fetched, the row locks (until commit or abort) |

One action per wait: `Look` (the dialog), `Fetch`, `LockOriginal`, `LockDraft`,
`Check`, `Number`, `Commit`, and `Abort` at any of them; `BeginFull` starts a
credit in full. Edits of drafts, client, first number, and the paid and sent
marks are single transactions.

**Runs.** Deadlock is not checked: when every document is credited and paid the
ledger really has nothing left to do.

| run | instance | shows |
|---|---|---|
| `ledger_race` | 3 documents, 2 requests, one rate, nets 4 and 8 | `TypeOK`; `CheckStands`: what an issue's checks accepted still holds at its commit; `NumbersUnbroken`; `IssuedAsSeen`: what is issued is what the issuer looked at; `ImplementsInvoiceBook` |
| `ledger_discount` | 3 documents, 1 request, rates 0 and 25, a discount at rate 0, two currencies | `NeverOverCredited` at each rate with its sign, of notes issued one after the other; `CreditedIffCovered`; `RestIsCreditable`: no accepted credit note leaves a rest no credit note can take; `IssuedAtItsRate` |

*Bounds.* Three documents are an invoice and two partial credit notes, or an
invoice, its credit and the corrected copy. Two requests are enough for every
pair of transactions; a third could only wait. `ledger_discount` has one: what
two requests side by side may read is the question of `CheckStands` in
`ledger_race`, and that they over-credit nothing is `CreditWithin`, proved for
any number of them. A net of 4 carries a VAT of 1 at
25 percent, so that a rest of 4 and a discount of -5 come to nothing in total.
`ledger_discount` has the constraint `DiscountBounds`: no document is marked
sent (no sum or rate asks), and one in another currency nets 8 or nothing.
Texts, details, first numbers and work periods have one value each in the runs;
that more of them change nothing is what `Typed`, `Unbroken` and `AsSeen` prove.
"Today" is one fixed day. Symmetry is of
documents and requests, which no definition tells apart.

*A remark.* With the original's lock dropped, `NeverOverCredited` still holds,
because the trigger sums again under the series' lock; `CheckStands` does not,
and neither does the error the issuer sees.

**Proofs** (`InvoiceLedgerProofs`), from `LedgerAssumption`, for any documents,
requests, rates, currencies and texts: `Typed`, `Unbroken`, `Checked`, `AsSeen`,
and `Frozen` (`IssuedIsFrozen`, which no run asks for on its own: an issued
document keeps its content, and its credit). The inductive invariant is `IInv`: types, the shape of rows
(`Rows`: only a numbered document is issued, a credit note names an issued
original), of each request (`SlotOK`: which locks it has at which step), that
two requests hold no lock together (`Apart`, `Exclusive`: the series' row is
with one), that a number belongs to one document, and that what a request read
under its locks is what is there (`SeenStands`, `CheckStands`). None of the
properties is inductive without the locks.

Its second part adds the sums and the book: `CreditWithin`
(`NeverOverCredited`), `CreditCovers` (`CreditedIffCovered`), `RestRemains`
(`RestIsCreditable`), `AtItsRate` (`IssuedAtItsRate`) and `ImplementsBook`. The
invariant `CInv` adds to `IInv` that a credit note points at an invoice and a
full credit is of one (`NotesOf`, `FullOf`), that a request's fetched rate is
the one the draft it compared asks for (`RateStands`, `Rated`), and the account
`Accounted`: at each rate what the issued notes took lies between nothing and
the charge, with its sign, the invoice says CREDITED exactly when nothing is
left, and otherwise something is left in total. One commit adds one note to a
sum (`SumOneMore` of `SumTheorems`) and the series' lock keeps the sum the
trigger read what it is. `BInv` adds what the book's numbers need: a first
number under every lock of the series, amounts of the declared range, and that
what the book's entries took of an entry is what the notes took of its invoice
(`TakenIsCredited`), for which a sum along the sequence and a sum over the set of
notes are shown to be one (`RunningSum`). Each action then is one entry more, one
entry marked credited, or a stutter (`StepMapsToBook`).

`SumTheorems` gets by without the library's induction theorems, which take an
operator as a parameter: a function on the subsets of a finite set that is
additive element by element exists, because a set of fewest elements for which
it did not would have one element less (`LeastNumber`); the community modules'
sum is such a function, and two of them agree. The assumption that `Rates` is a
finite set of naturals is the schema's: a VAT rate is one of a short list.

**Not modelled.** The hours a line bills (they are `BilledHours`, which has
the ledger's statuses and its one credit), the PDF file, the mail, permissions, OCR numbers and texts.

## The nightly send to Fortnox

`FortnoxSend`, `VoucherBook`, `MCFortnoxSend`, `FortnoxSendProofs`,
`FortnoxLineProofs`; code: `modules/invoicing/`
`fortnox-send.ts`, `fortnox-people.ts`, `fortnox-connection.ts`,
`fortnox-acts.ts`, `bookkeeping.ts`, `jobs/fortnox-send.ts`,
`integrations/fortnox/live.ts` and the guards of `20261020090000_fortnox_send`
and `20261021090000_fortnox_people`.

A run claims the connection's lease, asks Fortnox which company it speaks to,
and takes the entries in their order: the intent (SENDING, with the next number
of the series) is committed before the voucher is asked for, the answer after.
An entry found SENDING is left for two minutes, then *reconciled*: the numbers
from the kept one are looked at for the entry's marker. Then come the PDFs still
owed, the night's file of new entries (and the line again), and what the run
says of the connection. Fortnox may act on a request whose answer nobody hears.
People may connect, reconnect, disconnect, and decide entries at any moment.

| state | code |
|---|---|
| `dv[e]` | `invoice_export_delivery` of the entry: state, connection, file, voucher number, `next_number`, time since it was asked for, PDF mark |
| `conn[c]` | `integration_connection`: status, stop reason, attempt, night, lease and holder |
| `run[r]` | what a `Sender` holds in memory, and the step it takes next |
| `series`, `late` | Fortnox: vouchers in the order of their numbers; requests it may still act on |
| `due` | how many entries the books have |

The actions follow `Sender.go` step by step: `Claim`, `Hello`, `ReadLine`,
`Book`, `Reconcile`, `Requeue`, `Send`, `Intent`, `Ask`, `Answer`,
`WriteBooked`, `ReadOwed`, `NextOwed`, `AttachPdf`, `KeepMark`, `ConnectFile`,
`WriteDone`, `Night`, `NightFile`, `CloseNight`, `Settle`, `WriteState`,
`Release`. Every write of a delivery may be refused by the guard (`Holds`: the
run is still the lease's holder, the lease is live, the connection not
disconnected), fail, or commit unheard (`Lost`). `Throw` is a read that fails,
`Crash` the end of the function, `Land` Fortnox acting on a request, `Tick` and
`DayPasses` the clock. A voucher has one PDF in the model, and `WriteDone` is
one write where the code keeps the connected mark and then the state DONE in two
transactions (`fortnox-send.ts:918-920` and `933`); after a cut between them the
next run takes the PDF as connected (`found`) and writes DONE.

**Runs.** A tick is half a minute. Deadlock is checked in all of them.

| run | instance | shows |
|---|---|---|
| `fortnox_once` | 1 entry, 2 runs that overlap once a lease lapses, 1 fault at any step, a reconnect | `TypeOK`; `OneVoucher`; `VouchersAccounted`: a delivery BOOKED names its own voucher, and a voucher is one the sender knows or will look for - the run id is a fence: a lapse is harmless; `PersonsStopStands`: a run of before a reconnect neither stops nor restores the connection after it, and none lifts a stop only a person mends |
| `fortnox_live` | 2 entries, 1 run at a time, 1 fault, one voucher of others | `WithinScan`: a voucher whose answer was lost is among the numbers a reconcile looks at; `CutOff`: after a disconnect at most the one voucher already asked for still comes; `ImplementsVoucherBook`: in the line's order, none passed over but by a person's word; `EveryEntryIsBooked`, `EveryStopIsLifted` |
| `fortnox_handover` (violation) | 1 entry, a disconnect, a slow answer | `HandedOverIsNotInFortnox` fails, see below |

*Bounds.* Two entries have an order, two runs a stale one and its successor; the
two questions do not need each other, so each has a run of its own. One more
voucher of somebody else's moves the numbers; one connection may be disconnected
and connected again (the theorems are for any number of them). Time is
coarse: a run's budget and Fortnox's slowest act are one tick each, and the two
minutes of a reconcile are their sum, the least the assumption allows.
`MaxSlow` counts ticks while a run is under way, `MaxFaults` everything that
goes wrong.

*Assumption.* `FortnoxAssumption`: a request Fortnox acts on at all it acts on
before the voucher is looked for (`Budget + Landing <= Unsure`), and others,
with what connections cut off still had under way, make fewer vouchers than a
reconcile looks at (`MaxOthers + LastConn <= Scan`). The code cannot
know either; its design document argues for both
(`docs/research/2026-10-12-slice-114-fortnox-connection-design.md:191`). Without
them an entry can be booked twice.

*Fairness.* A run's own steps, the cron, Fortnox's acts; strong fairness of
`Tick` and `DayPasses`, as time does not stand still because runs come and go.
Nothing is asked of people: `EveryEntryIsBooked` ends where a connection needs
one.

*What the runs found.* Once a connection is disconnected a person may say "Not
in Fortnox" of an entry whose request is seconds old, and truthfully so; it goes
back to QUEUED and can be handed over in a file, and then Fortnox acts on the
request (`fortnox_handover`). The sender itself waits two minutes for this
reason.

One remark from the code: a write refused in the voucher line ends the line,
but `go` still calls `attachOwed` before it looks at `quiet`
(`fortnox-send.ts:586-588`), so the PDFs owed of vouchers already made are
uploaded after a disconnect. The model does the same; no property forbids it.

**Proofs** (`FortnoxLineProofs`, on the lemmas of `FortnoxSendProofs`), from
`FortnoxAssumption`, for any entries, connections, runs, faults and lapses:
`ScanHolds` (`WithinScan`), `Once` (`OneVoucher`), `Accounted`
(`VouchersAccounted`), `Typed`, `Stands` (`PersonsStopStands`), `CutsOff`
(`CutOff`) and `Promised` (`ImplementsVoucherBook`).

`FortnoxSendProofs` has `IInv`, what a run may rely on, which each step keeps as
long as reconciles look far enough (`WithinScan`). It says of each entry that it
is *single* (a request is under way, or about to leave a run, only while there is
no voucher, and of one run) and what its delivery *tells*: nothing of a QUEUED
entry is in Fortnox or under way unless a person has said so; of a SENDING one
the number kept is not past its voucher, and the entry's age plus the time its
request may still take is bounded. Of each run it says what it may rely on *while
it holds the lease*: that an entry it read as SENDING is still the same, only
older, so that a reconcile that finds nothing after two minutes proves that
nothing will come. A run without its lease relies on nothing: its reads may be
stale, and the guards refuse its writes. Each action has a lemma named for it;
the lemmas before them sort the steps of a run by what they may disturb (`Calm`:
nothing it read is relied on more than before).

`FortnoxLineProofs` has `LInv`, which adds the books of the line and with them
`WithinScan` itself. Entries go to connections in order, and a connection comes
after those before it are cut off (`InOrder`, `InTurn`, `Known`). Of a
connection's entries one request is under way (`Alone`), and it has its turn:
every earlier entry is in the series or decided, and while the connection is open
it is the first owed (`Front`). That is kept because a run that holds the lease
has before it every entry still owed up to the last it read (`Line`). So from the
number an entry was given on, each connection has at most one voucher, those
under way counted (`Window`); with at most `MaxOthers` of others these are fewer
than `Scan` (`WindowSize`, `ScanEnough`), which is `WithinScan`. Of a connection
cut off, the vouchers and the one request under way are counted (`Counted`).
Neither invariant stands without the other, so `Invariant` proves both in one
induction. `Promised` follows step by step: the night's file entrusts entries,
`Land` is a voucher in its turn (`Front`), what people decide is a decision
(`DecidedIsPromised`), everything else is a stutter. `Stands` needs besides only
that a connection not yet made was never consented to and an ACTIVE one has no
stop (`Steady`). That entries get booked and stops lifted (liveness) is
model-checked only.

**Not modelled.** More than one financial year or series; several PDFs to a
voucher; the OAuth dance before the connection's row; mails to owners and
reminders; the bytes of the SIE file; how the night's file picks its entries
(here: all that are new).

## Hours on invoices

`BilledHours`, `HourBook`, `MCBilledHours`, `BilledHoursProofs`; code:
`modules/invoicing/` `hours.ts`, `hours-record.ts` and their callers in
`drafts.ts`, `issue.ts`, `credit.ts`; `splitEntry` and `deleteEntry` of
`modules/time/entries.ts`; the guards of `20261010180000_hours_onto_invoices`.

Two things say what was billed: an hour's *mark*, the line it is on now, and a
line's *record*, a snapshot of what it billed. A request locks its invoice, then
the hours one by one in the order of their ids; under the locks it looks again,
writes and commits. A split reads its hour's mark first, locks that invoice FOR
SHARE, then the hour, and is refused if the mark has changed.

| state | code |
|---|---|
| `units[h]` | the hour's interval, as a set of units, so that a split's halves differ |
| `mark[h]`, `gone[h]` | `invoice_line_id` or off the list; `deleted_at` |
| `on[l]`, `rec[l]` | the line's invoice; `invoice_line_time_entry` of the line |
| `status[i]`, `partly[i]` | the invoice: DRAFT, ISSUED (SENT and PAID with it), CREDITED; a part of it was credited |
| `req[r]` | a transaction: what it waits for, the mark it saw, the hours to lock and locked |
| `returned[i]` | history: time returned by hand from an invoice credited in part |

`Ask` begins what starts from the list of hours (put, set aside), `AskOfDraft`
what takes hours off a draft, `AskOfIssued` a credit or a return, `AskToSplit` a
split; `HoldInvoice`, `LockHour` and `GiveUp` are the locks; one action each ends
them: `CreateInvoiceFromHours`, `AddHoursToDraft`, `RemoveLine`, `DeleteDraft`,
`CreditPart`, `CreditWhole`, `CreditAndCopy` (the corrected copy takes over marks
and records), `ReturnHours`, `MarkHours`, `ClearHourMarks`, `SplitEntry`.
`IssueInvoice` and `DeleteEntry` wait for nothing they would hold. A request
begins at its lock of the invoice; one split at a time, by the member's lock; the
kind of a credit is settled when it ends. A line or draft that was deleted may
come to be again under its name, which no definition can tell.

| run | instance | shows |
|---|---|---|
| `hours` | an hour of 2 units, 2 invoices of 3 lines, 2 overlapping requests | `TypeOK` (no hour is locked twice); `HoursAccounted`: what was recorded on a live invoice, less what was returned, is the time marked on it; `IssueNeverMismatched`: the trigger's refusal `INVOICE_HOURS_MISMATCH` is never met; `NoDeadlock`; `ImplementsHourBook` |

*Bounds.* The hour can be split once, so two hours stand on up to two lines of
two invoices (an original and its copy). Deadlock of the model is not checked
(every hour may be deleted, and then nothing is left to do): `NoDeadlock` says of
the requests that one of them can go on without giving up. No liveness: a lock
timeout may end any request. Larger instances checked once by hand: 4 lines;
3 invoices; 3 hours of 3 units with nothing set aside or deleted.

**Proofs** (`BilledHoursProofs`), from `BilledAssumption`, for any hours, lines,
invoices and requests: `Typed`, `Accounted`, `NeverMismatched`, `NeverStuck`,
`Implements`. The invariant `IInv` says of the rows that a line's
record and the marks on it tell the same for every hour that was not returned,
and of each request that what it saw under its locks still stands (`Relies`):
the hours it holds are only its own to change. `NeverStuck` needs besides that
each request holds only hours before those it waits for (`Ordered`): of the
requests waiting for an hour the one that holds the last hour can go on, and who
waits for an invoice waits for one of these. `Implements` maps an hour's units
to where its mark is, action by action.

**Not modelled.** The amounts of `hours-lines.ts` and the printed breakdown; an
edit that changes an hour's length, client or project; permissions.

## A member's timer

`Timer`, `MCTimer`, `TimerProofs`; code: `modules/time/` `timer.ts`, `settle.ts`,
`entries.ts`, `summary.ts`.

Each call of a member is up to two transactions: a pass that stops what ran past
its bound, without a lock (the cron makes the same pass), and the act itself,
whose writes stand under the member's advisory lock. Both recompute the sums of
the projects they touched in one statement, whose sum is of its snapshot while
its upsert may wait.

| state | code |
|---|---|
| `entry[e]` | one row of `time_entry` |
| `summary[p]` | `project_time_summary` of a project and month |
| `lock` | the member's advisory lock |
| `call[c]` | a transaction: the row as it read it (`saw`), its uncommitted writes (`w`), the sums it wrote and whose commits these wait for |
| `hand`, `crossed`, `typed` | history: a person's own interval; two sums of one project met; a bound |

`Begin` and `SettleWrite`, `SettleMissed`, `SettleRefused`, `SettleCommit` are
the pass; `LockMember` reads what the act reads under the lock (`BeginOn` what
`updateEntry` and `deleteEntry` read before it); `StartTimer`, `StopTimer`,
`UndoStart`, `CreateEntry`, `MoveEntry`, `Retime`, `DeleteEntry` write and
`Commit` commits. `Fail` ends a call that finds nothing to undo or to delete; one
that fails elsewhere writes nothing either and has no action of its own.

| run | instance | shows |
|---|---|---|
| `timer` | 2 entries, 2 projects, 2 calls, 4 instants, a bound of 2 and an undo of 1, 2 typed acts | `TypeOK`; `OneRunning`, without the unique index that would refuse a second; `TimerOverlapImpossible`: no instant is counted by two entries left to the timer; `AutoStopOnce`; `DeletedStays`; `SummaryIsTotalUnlessCrossed` |
| `timer_summary` (violation) | as above, 3 instants | `SummaryIsTotal` fails, see below |

*Bounds.* Two entries are one stopped and one started; four instants let an entry
pass its bound beside one that did not. One member: no call touches another
member's entries, only the sums are shared. CHECK_DEADLOCK is off: at the last
instant with every entry used nothing has to happen.

*What the runs found.* `recomputeProjectMonth` reads its sum in the snapshot of
its statement and waits for the row's lock only then. When two transactions that
touch one project and month overlap, the later writes a sum without the other's
entry, and it stays short until the month is touched again (`timer_summary`: an
automatic stop beside a typed entry; two members of one project meet the same
way). `SummaryIsTotalUnlessCrossed` says that this and an entry that changes its
project under a delete that had read it are the only ways.

**Proofs** (`TimerProofs`), from `TimerAssumption`, for any entries, projects,
calls and instants: `OneRuns`, `NoOverlap`, `StopsOnce`, `StaysDeleted`, `Typed`,
`SumsStand`. `IInv`
says that rows under a pending write are that write's alone (`RowsApart`); that a
pass's entry still runs with the start it read, and that the row an act read
under the lock can since have been stopped by a pass and no more; and that the
rows as they are, and as they will be with the lock holder's writes, are *good*:
at most one runs and no two of the timer's overlap. `Typed` and `SumsStand`
(`SummaryIsTotalUnlessCrossed`) have `TInv`, which adds that rows have a project
and an end not before their start, that a sum under way is that of the rows with
its transaction's writes (`SumOK`), that those writes touch no project it does not
sum (`Within`), and, until something crossed, that no two sums of a project are
under way. A commit then leaves every other sum what it was, because the rows it
changes are not counted there (`SecondsSame`); that `recomputeProjectMonth`'s sum
depends on the counted rows alone comes from `SumTheorems`. The assumption that
`Entries` is finite is a table's.

**Not modelled.** Shifts and breaks (their automatic stop, and a break started
beside it); imports; rates; approvals; the audit rows. An entry an automatic
stop ended may be reopened by a correction, as in the code (`Retime`).

## Share links

`ShareLink`, `MCShareLink`, `ShareLinkProofs`; code: `modules/vault/` `share-links.ts`,
`share-open.ts`, `share-token.ts`, `seal.ts`, `offboarding.ts`; `suspendMember`
of `members/admin.ts`, `replaceCredentialSecret` and `deleteCredential` of
`items.ts`, the switch in `preferences/service.ts`.

A member makes a link for one secret of a login. Whoever has it is mailed a code,
types it and sees the secret, once. Five things end links while others make and
open them: a revocation, a seal of the login, the removal of the member, a new
secret, and the workspace's switch. Four kinds of locks keep them apart: the
switch's advisory lock (shared by those who make links), the member's reveal key,
the login's row, the link's row, taken in this order.

| state | code |
|---|---|
| `login[g]` | `credential_item`: the version of its secret, sealed, deleted |
| `link[l]` | `credential_share_link` |
| `on`, `stoppedAt` | `vault.allowExternalShareLinks` and the stamp of the last switch-off |
| `active[m]` | the member's status |
| `req[r]` | a transaction: which lock it waits for, logins and links to lock and locked, the link as it read it, its clock |
| `wrong`, `shown` | history: wrong codes answered, secrets shown |

| action | code |
|---|---|
| `AskMake`, `HoldSwitch`, `HoldKey`, `MakeLink` | `createShareLink`: before its first lock, under the switch's, under the member's key, under the login's |
| `Visit`, `LockLink`, `ReadPreferences`, `ReadLogin` | `liveLink`: the row's lock, then a read each, as READ COMMITTED reads |
| `SendCode`, `WrongCode`, `ShowSecret` | the ends of `sendShareCode` and `openShareLink` |
| `RevokeLink` | `revokeShareLink` |
| `AskSeal`, `AskRemove`, `HoldLeaversKey`, `LockRow`, `BeginRevoking`, `RevokeNext`, `Seal`, `Remove` | `sealLogin`; `suspendMember` with `flagLoginsKnownBy` and `revokeShareLinksMadeBy`: one statement picks the open links as it begins and locks them one after the other |
| `AskReplace`, `ReplaceSecret`, `Unseal`, `DeleteLogin`, `Reactivate` | `replaceCredentialSecret`, `unsealLogin`, `deleteCredential`, `reactivateMember` |
| `StampOff`, `SwitchOff`, `SwitchOn` | the switch |
| `GiveUp`, `Tick` | any failure, the bounded wait included; the clock |

A transaction's clock is its start (`now()`); a stamp of a switch-off is read
under the lock (`clock_timestamp()`).

| run | instance | shows |
|---|---|---|
| `share` | 2 links of 1 login and 1 member, 2 overlapping requests, 2 of what ends links, 2 tries, 1 code, 2 instants | `TypeOK` (no row is locked twice); `OpenedOnce`: the secret is shown once, the one the link was made for, and every answer about a code is counted; `LinkLifetime`: no link outlives a switch-off, a seal or a removal, none is born dead and none comes back; `NoDeadlock` |

*Bounds.* Two links of one login are what a seal and a removal could lock in
opposite orders; two requests are every pair of transactions. `MaxChanges`
bounds the seals, removals, new secrets, deletions and switch-offs begun: two are
an end beside an end, or one before a link's making and one beside it.
`OneCoded`: a code is mailed for one of the two links (without it checked once by
hand, 2.5 million states). Larger instances checked once by hand: three changes with one try; any number
with one try, also with links that last two instants. Deadlock of the model is
not checked (with every link used nothing is left to do); `NoDeadlock` is about
the requests. No liveness: the wait for a lock is bounded and any request may
fail.

**Proofs** (`ShareLinkProofs`), from `ShareAssumption`, for any links, logins,
members, requests, lives and limits: `Typed`, `Opened`, `Lifetime`, `NeverStuck`.
`IInv` says of each request what it may rely on at each of its waits: a visitor's
link is as it was read, the maker of a link has the switch on since before it
began and is still there, and a seal or a removal has or will have every login
whose links it must end, each of those links being on its list or over
(`Revoking`). `Apart` says of two requests that they hold no lock in common and
that a switch-off runs beside nobody who makes a link; `EndedLinks` that whatever
seals a login, removes a member or turns the switch off leaves no link of it in
date and open. A step that changes rows must leave to every other request what
that one relies on (`Spared`, `StillOK`). `Lifetime` follows with one lemma per
kind of step (`StaysDead`): a link that is dead and whose row stays as it was can
only live again by a seal lifted or the switch turned on, and then it is over or
was stopped. `NeverStuck`: who holds a link's row shares its login's row with
nobody, so nobody is kept from a link; of those at logins' rows who waits while
it holds is the one removal, which nobody keeps off.

**Not modelled.** The spacing of codes, the mail budget of an address, the
reveal budget, permissions and MFA; the page's preview, which writes nothing; the
mail; the module's pause; retention's deletes. `RevokeLink` sees at its write that
the login is not deleted, where the code has read it just before; `SharedBy` has
no window of 90 days, as no link lives longer than 168 hours. A field removed from a login (a
new version ends its links in any case).

## Running it

`tlc -config MCOutboxReport.cfg MCOutbox` and alike: a configuration's prefix is
its module. `tlapm OutboxProofs.tla` and alike
(`InvoiceLedgerProofs`, `SumTheorems`, `FortnoxSendProofs`, `FortnoxLineProofs`,
`BilledHoursProofs`, `TimerProofs`, `ShareLinkProofs`; the ledger's and the
line's take some minutes each) check the proofs. Liveness
and `ENABLED` are beyond the prover and stay with TLC; the library's induction
theorems are too, so where a proof needs induction over data (`SumTheorems`) it
argues from a least counterexample.
