------------------------------ MODULE ShareLink ------------------------------
(***************************************************************************)
(* The vault's share links (src/src/modules/vault): made by a member for   *)
(* one secret of a login (share-links.ts), opened once with a mailed code  *)
(* (share-open.ts), and ended by a revocation, by a seal of the login      *)
(* (seal.ts), by the removal of the member (offboarding.ts), by a change   *)
(* of the secret (items.ts) and by the workspace's switch                  *)
(* (src/src/preferences/service.ts).                                       *)
(*                                                                         *)
(* A request is one transaction under READ COMMITTED.  Its clock (now() in *)
(* the code) is its start; a switch-off and a revocation are stamped with  *)
(* the clock as it is then.  A request is split where it waits for a lock  *)
(* and between two reads that no lock of its own protects; its last read,  *)
(* its writes and its commit are one step.  A code is the one last mailed, *)
(* and whether a visitor types it is a choice.                             *)
(***************************************************************************)
EXTENDS Integers, Sequences

CONSTANTS
  Links,      \* bound: rows of credential_share_link
  Logins,     \* credential_item
  Members,
  Requests,   \* transactions that may overlap
  NoLink, NoLogin, NoMember,
  Life,       \* how long a link lasts
  CodeLife,   \* SHARE_CODE_TTL_MS
  MaxCodes,   \* SHARE_MAX_CODES
  MaxAttempts,\* SHARE_MAX_CODE_ATTEMPTS
  MaxNow,     \* bound: the last instant
  MaxVersion, \* bound: secrets a login has in turn
  MaxChanges  \* bound: seals, removals, new secrets, deletions and switch-offs begun

ASSUME ShareAssumption ==
  /\ {Life, CodeLife, MaxCodes, MaxAttempts} \subseteq Nat \ {0}
  /\ {MaxNow, MaxVersion, MaxChanges} \subseteq Nat
  /\ NoLink \notin Links /\ NoLogin \notin Logins /\ NoMember \notin Members

VARIABLES
  now,
  login,     \* version of its secret, sealed_at, deleted_at
  link,
  on,        \* vault.allowExternalShareLinks
  stoppedAt, \* vault.shareLinksStoppedAt
  active,    \* a member's status
  req,       \* the transactions under way
  changes,   \* bound: those begun that may end a link
  wrong,     \* history: wrong codes answered, of each link
  shown      \* history: the secrets shown through it, by version

vars == <<now, login, link, on, stoppedAt, active, req, changes, wrong, shown>>

Never == -1

Unmade == [st |-> "none", login |-> NoLogin, by |-> NoMember, version |-> 0, made |-> 0,
           codeUntil |-> Never, sent |-> 0, tries |-> 0, viewed |-> FALSE, revoked |-> FALSE]

(* want, rows: logins to lock, and locked; ends, links: links to lock, and  *)
(* locked; saw: the link as read under its lock; began: its clock.          *)
Idle == [pc |-> "idle", op |-> "open", m |-> NoMember, g |-> NoLogin, l |-> NoLink, began |-> 0,
         want |-> {}, rows |-> {}, ends |-> {}, links |-> {}, saw |-> Unmade]

LinkRows == [st : {"none", "made"}, login : Logins \cup {NoLogin}, by : Members \cup {NoMember},
             version : 0 .. MaxVersion, made : 0 .. MaxNow, codeUntil : Nat \cup {Never},
             sent : 0 .. MaxCodes, tries : 0 .. MaxAttempts, viewed : BOOLEAN, revoked : BOOLEAN]

TypeOK ==
  /\ now \in 0 .. MaxNow
  /\ login \in [Logins -> [version : 0 .. MaxVersion, sealed : BOOLEAN, gone : BOOLEAN]]
  /\ link \in [Links -> LinkRows]
  /\ on \in BOOLEAN
  /\ stoppedAt \in 0 .. MaxNow \cup {Never}
  /\ active \in [Members -> BOOLEAN]
  /\ req \in [Requests ->
       [pc : {"idle", "switch", "key", "rows", "links", "link", "prefs", "login", "code", "stamped"},
        op : {"make", "open", "send", "seal", "replace", "remove", "off"},
        m : Members \cup {NoMember}, g : Logins \cup {NoLogin}, l : Links \cup {NoLink}, began : 0 .. MaxNow,
        want : SUBSET Logins, rows : SUBSET Logins, ends : SUBSET Links, links : SUBSET Links, saw : LinkRows]]
  /\ \A r, q \in Requests : r # q => req[r].rows \cap req[q].rows = {} /\ req[r].links \cap req[q].links = {}
  /\ changes \in 0 .. MaxChanges
  /\ wrong \in [Links -> Nat]
  /\ shown \in [Links -> Seq(Nat)]

Init ==
  /\ now = 0
  /\ login = [g \in Logins |-> [version |-> 0, sealed |-> FALSE, gone |-> FALSE]]
  /\ link = [l \in Links |-> Unmade]
  /\ on = TRUE
  /\ stoppedAt = Never
  /\ active = [m \in Members |-> TRUE]
  /\ req = [r \in Requests |-> Idle]
  /\ changes = 0
  /\ wrong = [l \in Links |-> 0]
  /\ shown = [l \in Links |-> <<>>]

-----------------------------------------------------------------------------
(* shareLinkStatus: what leaves a link "waiting", at an instant; CodesSpent *)
(* when the last code that may be mailed has lapsed.                        *)
Expires(k) == k.made + Life
CodesSpent(k, at) == k.sent >= MaxCodes /\ k.codeUntil <= at
Stopped(k) == k.made <= stoppedAt /\ (CodesSpent(k, stoppedAt) \/ Expires(k) > stoppedAt)

Lives(k, at) ==
  /\ ~k.viewed /\ ~k.revoked
  /\ k.tries < MaxAttempts
  /\ ~Stopped(k)
  /\ ~CodesSpent(k, at)
  /\ at < Expires(k)

Waiting(k, version, at) == Lives(k, at) /\ version = k.version

(* A link neither opened nor revoked, and one still in date.                *)
Made == {l \in Links : link[l] # Unmade}
Unended(l) == ~link[l].viewed /\ ~link[l].revoked
InDate(l)  == now < Expires(link[l])

-----------------------------------------------------------------------------
(* The locks: a link's row, a login's row, a member's reveal key, and the   *)
(* switch's, shared by the requests that make a link.  A link being made    *)
(* takes its login FOR SHARE and commits; nothing else shares that row.     *)
(* Mutants of LinkFree and LoginFree: the row is read without its lock.     *)
LinkFreeUnlocked(r, l) == TRUE
LinkFree(r, l)  == \A q \in Requests \ {r} : l \notin req[q].links
LoginFreeUnlocked(r, g) == TRUE
LoginFree(r, g) == \A q \in Requests \ {r} : g \notin req[q].rows
KeyFree(r, m)   == \A q \in Requests \ {r} : ~(req[q].m = m /\ req[q].pc \in {"rows", "links"})
Switching(q)    == req[q].pc = "stamped"
Sharing(q)      == req[q].op = "make" /\ req[q].pc \in {"key", "rows"}
Removing        == \E q \in Requests : req[q].pc # "idle" /\ req[q].op = "remove"

UnlockedLink(l)  == \A q \in Requests : l \notin req[q].links
UnlockedLogin(g) == \A q \in Requests : g \notin req[q].rows

(* Only the requests that make, open or stop links use their clock.         *)
Clocked == {"make", "open", "send", "off"}

Asked(pc, op, m, g, l) ==
  [Idle EXCEPT !.pc = pc, !.op = op, !.m = m, !.g = g, !.l = l, !.began = IF op \in Clocked THEN now ELSE 0]

Changes == changes < MaxChanges /\ changes' = changes + 1

Ask(r, k) ==
  /\ req[r].pc = "idle"
  /\ req' = [req EXCEPT ![r] = k]
  /\ IF k.op \in {"make", "open", "send"} THEN UNCHANGED changes ELSE Changes
  /\ UNCHANGED <<now, login, link, on, stoppedAt, active, wrong, shown>>

At(r, ops, pc) == req[r].op \in ops /\ req[r].pc = pc
Go(r, pc)      == req' = [req EXCEPT ![r].pc = pc]
End(r)         == req' = [req EXCEPT ![r] = Idle]

(* Refused, a lock waited for too long, a failure: nothing is written.      *)
GiveUp(r) ==
  /\ req[r].pc # "idle"
  /\ End(r)
  /\ UNCHANGED <<now, login, link, on, stoppedAt, active, changes, wrong, shown>>

-----------------------------------------------------------------------------
(* createShareLink: the switch's lock, the member's key, the login's row;   *)
(* what each protects is read under it.                                     *)
AskMake(r, m, g) ==
  /\ active[m]
  /\ ~login[g].gone /\ ~login[g].sealed
  /\ Ask(r, Asked("switch", "make", m, g, NoLink))

(* Begun before the last switch-off, or at it: a link stopped at birth.     *)
(* Mutant of BegunSince: the clock is not compared.                         *)
BegunAnyTime(r) == TRUE
BegunSince(r) == stoppedAt < req[r].began

HoldSwitch(r) ==
  /\ At(r, {"make"}, "switch")
  /\ \A q \in Requests : ~Switching(q)
  /\ on /\ BegunSince(r)
  /\ Go(r, "key")
  /\ UNCHANGED <<now, login, link, on, stoppedAt, active, changes, wrong, shown>>

(* lockRevealBudget, lockSecretWrite: the member is still there.            *)
HoldKey(r) ==
  /\ At(r, {"make", "replace"}, "key")
  /\ KeyFree(r, req[r].m)
  /\ active[req[r].m]
  /\ Go(r, "rows")
  /\ UNCHANGED <<now, login, link, on, stoppedAt, active, changes, wrong, shown>>

MakeLink(r, l) ==
  LET g == req[r].g IN
    /\ At(r, {"make"}, "rows")
    /\ LoginFree(r, g)
    /\ ~login[g].gone /\ ~login[g].sealed
    /\ link[l] = Unmade
    /\ link' = [link EXCEPT ![l] =
         [st |-> "made", login |-> g, by |-> req[r].m, version |-> login[g].version, made |-> req[r].began,
          codeUntil |-> Never, sent |-> 0, tries |-> 0, viewed |-> FALSE, revoked |-> FALSE]]
    /\ End(r)
    /\ UNCHANGED <<now, login, on, stoppedAt, active, changes, wrong, shown>>

-----------------------------------------------------------------------------
(* liveLink: the link's row first, then a read each of the switch and of    *)
(* the login.                                                               *)
Visit(r, op, l) == l \in Made /\ Ask(r, Asked("link", op, NoMember, NoLogin, l))

LockLink(r) ==
  LET l == req[r].l IN
    /\ At(r, {"open", "send"}, "link")
    /\ LinkFree(r, l)
    /\ req' = [req EXCEPT ![r].pc = "prefs", ![r].links = {l}, ![r].saw = link[l]]
    /\ UNCHANGED <<now, login, link, on, stoppedAt, active, changes, wrong, shown>>

ReadPreferences(r) ==
  /\ At(r, {"open", "send"}, "prefs")
  /\ on /\ Lives(req[r].saw, req[r].began)
  /\ Go(r, "login")
  /\ UNCHANGED <<now, login, link, on, stoppedAt, active, changes, wrong, shown>>

ReadLogin(r) ==
  LET g == login[req[r].saw.login] IN
    /\ At(r, {"open", "send"}, "login")
    /\ g.version = req[r].saw.version /\ ~g.gone /\ ~g.sealed
    /\ Go(r, "code")
    /\ UNCHANGED <<now, login, link, on, stoppedAt, active, changes, wrong, shown>>

(* sendShareCode: the earlier code dies with the new one.                   *)
SendCode(r) ==
  LET saw == req[r].saw IN
    /\ At(r, {"send"}, "code")
    /\ saw.sent < MaxCodes
    /\ link' = [link EXCEPT ![req[r].l].sent = @ + 1, ![req[r].l].codeUntil = req[r].began + CodeLife]
    /\ End(r)
    /\ UNCHANGED <<now, login, on, stoppedAt, active, changes, wrong, shown>>

(* openShareLink: a check of a live code counts, whatever its answer.       *)
CodeLives(r) == req[r].saw.codeUntil > req[r].began

WrongCode(r) ==
  /\ At(r, {"open"}, "code")
  /\ CodeLives(r)
  /\ link' = [link EXCEPT ![req[r].l].tries = req[r].saw.tries + 1]
  /\ wrong' = [wrong EXCEPT ![req[r].l] = @ + 1]
  /\ End(r)
  /\ UNCHANGED <<now, login, on, stoppedAt, active, changes, shown>>

(* The secret is read with its version again, and shown if the link is      *)
(* still as it was: of several openings one.                                *)
StillTheOne(r) ==
  LET k == link[req[r].l] IN ~k.viewed /\ ~k.revoked /\ k.sent = req[r].saw.sent

ShowSecret(r) ==
  LET saw == req[r].saw IN
    /\ At(r, {"open"}, "code")
    /\ CodeLives(r)
    /\ login[saw.login].version = saw.version
    /\ StillTheOne(r)
    /\ link' = [link EXCEPT ![req[r].l].tries = saw.tries + 1, ![req[r].l].viewed = TRUE,
                            ![req[r].l].codeUntil = Never]
    /\ shown' = [shown EXCEPT ![req[r].l] = Append(@, login[saw.login].version)]
    /\ End(r)
    /\ UNCHANGED <<now, login, on, stoppedAt, active, changes, wrong>>

(* revokeShareLink.                                                         *)
RevokeLink(l) ==
  /\ l \in Made /\ Unended(l)
  /\ ~login[link[l].login].gone
  /\ UnlockedLink(l)
  /\ link' = [link EXCEPT ![l].revoked = TRUE]
  /\ UNCHANGED <<now, login, on, stoppedAt, active, req, changes, wrong, shown>>

-----------------------------------------------------------------------------
(* A seal locks its login and then the login's links; a removal locks the   *)
(* member's key, every login the member may know, and then the links the    *)
(* member made.  Both take the links that are open and in date as the       *)
(* statement begins, one after the other, and skip one that was opened or   *)
(* revoked while they waited for it.                                        *)
AskSeal(r, g) ==
  Ask(r, [Asked("rows", "seal", NoMember, g, NoLink) EXCEPT !.want = {g}])

(* The tenant's row is locked first: one removal at a time.                 *)
AskRemove(r, m) ==
  /\ active[m]
  /\ ~Removing
  /\ Ask(r, Asked("key", "remove", m, NoLogin, NoLink))

(* flagLoginsKnownBy: the logins they shared, and what else they did.       *)
(* Mutant of SharedBy: only what else they did.                             *)
SharedByNone(m) == {}
SharedBy(m) == {link[l].login : l \in {k \in Made : link[k].by = m}}

HoldLeaversKey(r) ==
  /\ At(r, {"remove"}, "key")
  /\ KeyFree(r, req[r].m)
  /\ \E also \in SUBSET Logins :
       req' = [req EXCEPT ![r].pc = "rows", ![r].want = SharedBy(req[r].m) \cup also]
  /\ UNCHANGED <<now, login, link, on, stoppedAt, active, changes, wrong, shown>>

(* In any order here; by id in the code.                                    *)
LockRow(r, g) ==
  /\ At(r, {"seal", "remove"}, "rows")
  /\ g \in req[r].want
  /\ LoginFree(r, g)
  /\ req' = [req EXCEPT ![r].want = @ \ {g}, ![r].rows = @ \cup {g}]
  /\ UNCHANGED <<now, login, link, on, stoppedAt, active, changes, wrong, shown>>

Ends(r, l) ==
  /\ l \in Made /\ Unended(l) /\ InDate(l)
  /\ IF req[r].op = "seal" THEN link[l].login = req[r].g ELSE link[l].by = req[r].m

BeginRevoking(r) ==
  /\ At(r, {"seal", "remove"}, "rows")
  /\ req[r].want = {}
  /\ req[r].op = "seal" => ~login[req[r].g].gone /\ ~login[req[r].g].sealed
  /\ req' = [req EXCEPT ![r].pc = "links", ![r].ends = {l \in Links : Ends(r, l)}]
  /\ UNCHANGED <<now, login, link, on, stoppedAt, active, changes, wrong, shown>>

RevokeNext(r, l) ==
  /\ At(r, {"seal", "remove"}, "links")
  /\ l \in req[r].ends
  /\ LinkFree(r, l)
  /\ req' = [req EXCEPT ![r].ends = @ \ {l}, ![r].links = IF Unended(l) THEN @ \cup {l} ELSE @]
  /\ UNCHANGED <<now, login, link, on, stoppedAt, active, changes, wrong, shown>>

Revoked(r) == link' = [l \in Links |-> IF l \in req[r].links THEN [link[l] EXCEPT !.revoked = TRUE] ELSE link[l]]

Seal(r) ==
  /\ At(r, {"seal"}, "links")
  /\ req[r].ends = {}
  /\ login' = [login EXCEPT ![req[r].g].sealed = TRUE]
  /\ Revoked(r)
  /\ End(r)
  /\ UNCHANGED <<now, on, stoppedAt, active, changes, wrong, shown>>

Remove(r) ==
  /\ At(r, {"remove"}, "links")
  /\ req[r].ends = {}
  /\ active' = [active EXCEPT ![req[r].m] = FALSE]
  /\ Revoked(r)
  /\ End(r)
  /\ UNCHANGED <<now, login, on, stoppedAt, changes, wrong, shown>>

-----------------------------------------------------------------------------
(* replaceCredentialSecret: the member's key, then the row.                 *)
AskReplace(r, m, g) == active[m] /\ Ask(r, Asked("key", "replace", m, g, NoLink))

ReplaceSecret(r) ==
  LET g == req[r].g IN
    /\ At(r, {"replace"}, "rows")
    /\ LoginFree(r, g)
    /\ ~login[g].gone
    /\ login[g].version < MaxVersion
    /\ login' = [login EXCEPT ![g].version = @ + 1]
    /\ End(r)
    /\ UNCHANGED <<now, link, on, stoppedAt, active, changes, wrong, shown>>

(* The switch: under its lock alone; off is stamped, and then commits.      *)
SwitchFree == \A q \in Requests : ~Switching(q) /\ ~Sharing(q)

StampOff(r) == on /\ SwitchFree /\ Ask(r, Asked("stamped", "off", NoMember, NoLogin, NoLink))

SwitchOff(r) ==
  /\ At(r, {"off"}, "stamped")
  /\ on' = FALSE /\ stoppedAt' = req[r].began
  /\ End(r)
  /\ UNCHANGED <<now, login, link, active, changes, wrong, shown>>

SwitchOn ==
  /\ ~on /\ SwitchFree
  /\ on' = TRUE
  /\ UNCHANGED <<now, login, link, stoppedAt, active, req, changes, wrong, shown>>

(* unsealLogin, deleteCredential (which clears a seal), reactivateMember.   *)
Unseal(g) ==
  /\ login[g].sealed /\ UnlockedLogin(g)
  /\ login' = [login EXCEPT ![g].sealed = FALSE]
  /\ UNCHANGED <<now, link, on, stoppedAt, active, req, changes, wrong, shown>>

DeleteLogin(g) ==
  /\ ~login[g].gone /\ UnlockedLogin(g)
  /\ login' = [login EXCEPT ![g].gone = TRUE, ![g].sealed = FALSE]
  /\ Changes
  /\ UNCHANGED <<now, link, on, stoppedAt, active, req, wrong, shown>>

Reactivate(m) ==
  /\ ~active[m] /\ ~Removing
  /\ active' = [active EXCEPT ![m] = TRUE]
  /\ UNCHANGED <<now, login, link, on, stoppedAt, req, changes, wrong, shown>>

Tick ==
  /\ now < MaxNow
  /\ now' = now + 1
  /\ UNCHANGED <<login, link, on, stoppedAt, active, req, changes, wrong, shown>>

-----------------------------------------------------------------------------
Asks(r) ==
  \/ \E m \in Members, g \in Logins : AskMake(r, m, g) \/ AskReplace(r, m, g)
  \/ \E op \in {"open", "send"}, l \in Links : Visit(r, op, l)
  \/ \E g \in Logins : AskSeal(r, g)
  \/ \E m \in Members : AskRemove(r, m)
  \/ StampOff(r)

Steps(r) ==
  \/ GiveUp(r)
  \/ HoldSwitch(r) \/ HoldKey(r) \/ \E l \in Links : MakeLink(r, l)
  \/ LockLink(r) \/ ReadPreferences(r) \/ ReadLogin(r) \/ SendCode(r) \/ WrongCode(r) \/ ShowSecret(r)
  \/ HoldLeaversKey(r) \/ (\E g \in Logins : LockRow(r, g)) \/ BeginRevoking(r)
  \/ (\E l \in Links : RevokeNext(r, l)) \/ Seal(r) \/ Remove(r)
  \/ ReplaceSecret(r) \/ SwitchOff(r)

Next ==
  \/ Tick \/ SwitchOn
  \/ \E r \in Requests : Asks(r) \/ Steps(r)
  \/ \E l \in Links : RevokeLink(l)
  \/ \E g \in Logins : Unseal(g) \/ DeleteLogin(g)
  \/ \E m \in Members : Reactivate(m)

Spec == Init /\ [][Next]_vars

-----------------------------------------------------------------------------
(* However many visitors open a link at once, it shows its secret once, the *)
(* secret it was made for, and every answer about a code is counted: five   *)
(* guesses in all (share.dbtest.ts:397 and :410, one after the other).      *)
OpenedOnce ==
  \A l \in Links :
    /\ shown[l] = IF link[l].viewed THEN <<link[l].version>> ELSE <<>>
    /\ link[l].tries = wrong[l] + Len(shown[l])
    /\ ~(link[l].viewed /\ link[l].revoked)

(* A link that still waits is of a workspace that shares, of a login that   *)
(* is not sealed and of a member who is there: a switch-off, a seal and a   *)
(* removal end every link, those being made or opened beside them included. *)
NoneLeftOpen ==
  \A l \in Made :
    Waiting(link[l], login[link[l].login].version, now) =>
      on /\ ~login[link[l].login].sealed /\ active[link[l].by]

(* What liveLink says of a link.                                            *)
Alive(l, at) ==
  LET g == login[link[l].login] IN
    on /\ ~g.sealed /\ ~g.gone /\ Waiting(link[l], g.version, at)

(* The life of a link: it is born alive, whatever switch-off, seal, removal *)
(* or new secret its making waited for; once it is dead nothing revives it, *)
(* neither the switch turned on again nor an unsealing nor a new code; and  *)
(* none outlives what ends it.                                              *)
LinkLifetime ==
  /\ []NoneLeftOpen
  /\ [][\A l \in Links :
          IF l \in Made THEN ~Alive(l, now) => ~Alive(l, now)'
                        ELSE l \in Made' => Alive(l, link[l].made)' /\ active'[link'[l].by]]_vars

(* The switch, then a member's key, then logins, then links: the requests   *)
(* under way never wait on each other in a circle.                          *)
CanGoOn(r) ==
  /\ req[r].pc = "switch" => \A q \in Requests : ~Switching(q)
  /\ req[r].pc = "key" => KeyFree(r, req[r].m)
  /\ At(r, {"make", "replace"}, "rows") => LoginFree(r, req[r].g)
  /\ At(r, {"seal", "remove"}, "rows") => \A g \in req[r].want : LoginFree(r, g)
  /\ req[r].pc = "link" => LinkFree(r, req[r].l)
  /\ req[r].pc = "links" => \A l \in req[r].ends : LinkFree(r, l)

NoDeadlock ==
  (\E r \in Requests : req[r].pc # "idle") => \E r \in Requests : req[r].pc # "idle" /\ CanGoOn(r)
=============================================================================
