--------------------------- MODULE ShareLinkProofs ---------------------------
(***************************************************************************)
(* Proofs about ShareLink, for any links, logins, members, requests, lives *)
(* and limits: no row is locked twice, a link is opened once, none is born *)
(* dead, none outlives what ends it and none comes back, and the requests  *)
(* never wait on each other in a circle.                                   *)
(***************************************************************************)
EXTENDS ShareLink, TLAPS

Pcs == {"idle", "switch", "key", "rows", "links", "link", "prefs", "login", "code", "stamped"}
OpNames == {"make", "open", "send", "seal", "replace", "remove", "off"}

ReqRows ==
  [pc : Pcs, op : OpNames,
   m : Members \cup {NoMember}, g : Logins \cup {NoLogin}, l : Links \cup {NoLink}, began : 0 .. MaxNow,
   want : SUBSET Logins, rows : SUBSET Logins, ends : SUBSET Links, links : SUBSET Links, saw : LinkRows]

(* Over for good: opened, revoked, or out of date.                          *)
Ended(l) == ~Unended(l) \/ ~InDate(l)

(* What a request is at each of its waits.                                  *)
Shaped(k) ==
  /\ k.pc = "idle" => k.op = "open"
  /\ k.pc = "switch" => k.op = "make"
  /\ k.pc = "key" => k.op \in {"make", "replace", "remove"}
  /\ k.pc = "rows" => k.op \in {"make", "replace", "seal", "remove"}
  /\ k.pc = "links" => k.op \in {"seal", "remove"}
  /\ k.pc \in {"link", "prefs", "login", "code"} => k.op \in {"open", "send"} /\ k.l \in Made
  /\ k.pc = "stamped" => k.op = "off"
  /\ k.op \in {"make", "replace", "remove"} => k.m \in Members
  /\ k.op \in {"make", "replace", "seal"} => k.g \in Logins
  /\ k.op = "seal" => k.m = NoMember
  /\ k.pc \notin {"rows", "links"} => k.rows = {} /\ k.want = {}
  /\ k.op \notin {"seal", "remove"} => k.rows = {}
  /\ k.pc \notin {"links", "prefs", "login", "code"} => k.links = {}
  /\ k.pc # "links" => k.ends = {}

(* A visitor's request: the link it read is as it is, and may be shown.     *)
Opening(k) ==
  /\ k.pc \in {"prefs", "login", "code"} => k.links = {k.l} /\ k.saw = link[k.l]
  /\ k.pc \in {"login", "code"} => ~k.saw.viewed /\ ~k.saw.revoked /\ k.saw.tries < MaxAttempts

(* What ends links holds, or will, the logins of all it may have to end;    *)
(* once it has begun, a link of its own is on its list, locked or over.     *)
Mine(k, l) == IF k.op = "seal" THEN link[l].login = k.g ELSE link[l].by = k.m

Revoking(k) ==
  k.op \in {"seal", "remove"} =>
    /\ k.op = "seal" /\ k.pc \in {"rows", "links"} => k.want \cup k.rows = {k.g}
    /\ k.pc \in {"rows", "links"} => \A l \in Made : Mine(k, l) => link[l].login \in k.want \cup k.rows
    /\ k.pc = "links" =>
         /\ k.want = {}
         /\ \A l \in k.ends \cup k.links : l \in Made /\ Mine(k, l)
         /\ \A l \in k.links : Unended(l)
         /\ \A l \in Made : Mine(k, l) => l \in k.ends \cup k.links \/ Ended(l)

(* A link's maker: links are on, since before it began; it is still there.  *)
Making(k) ==
  k.op = "make" =>
    /\ k.pc \in {"key", "rows"} => on /\ stoppedAt < k.began
    /\ k.pc = "rows" => active[k.m]

(* A switch-off: stamped later than every link was made.                    *)
Stamped(k) == k.pc = "stamped" => \A l \in Made : link[l].made <= k.began

ReqOK(k) == Shaped(k) /\ Opening(k) /\ Revoking(k) /\ Making(k) /\ Stamped(k) /\ k.began <= now

(* Two requests: one holds a row, a key, the switch; one removal.           *)
Apart(k, j) ==
  /\ k.rows \cap j.rows = {} /\ k.links \cap j.links = {}
  /\ k.pc \in {"rows", "links"} /\ j.pc \in {"rows", "links"} => k.m # j.m \/ k.m = NoMember
  /\ ~(k.pc # "idle" /\ j.pc # "idle" /\ k.op = "remove" /\ j.op = "remove")
  /\ k.pc = "stamped" => j.pc # "stamped" /\ ~(j.op = "make" /\ j.pc \in {"key", "rows"})

(* A link's row, and what it has shown.                                     *)
LinkOK(l) ==
  /\ link[l] = Unmade \/ link[l].st = "made"
  /\ l \in Made => /\ link[l].login \in Logins /\ link[l].by \in Members
                   /\ link[l].made <= now
                   /\ link[l].version <= login[link[l].login].version
  /\ shown[l] = IF link[l].viewed THEN <<link[l].version>> ELSE <<>>
  /\ link[l].tries = wrong[l] + Len(shown[l])
  /\ ~(link[l].viewed /\ link[l].revoked)

(* What has ended a workspace's, a login's or a member's links.             *)
EndedLinks ==
  /\ stoppedAt <= now
  /\ ~on => \A l \in Made : link[l].made <= stoppedAt
  /\ \A l \in Made : login[link[l].login].sealed => Ended(l)
  /\ \A l \in Made : ~active[link[l].by] => Ended(l)

Requested == \A r \in Requests : ReqOK(req[r])
Separate  == \A r, q \in Requests : r # q => Apart(req[r], req[q])
Linked    == \A l \in Links : LinkOK(l)

IInv == TypeOK /\ Requested /\ Separate /\ Linked /\ EndedLinks

-----------------------------------------------------------------------------
(* The rows: of a request, of a link.                                       *)
LEMMA Types ==
  ASSUME TypeOK
  PROVE  /\ req \in [Requests -> ReqRows] /\ link \in [Links -> LinkRows]
         /\ now \in 0 .. MaxNow /\ stoppedAt \in 0 .. MaxNow \cup {Never}
  BY DEF TypeOK, ReqRows, Pcs, OpNames

LEMMA Typed2 ==
  ASSUME TypeOK, req' \in [Requests -> ReqRows], Separate',
         now' \in 0 .. MaxNow,
         login' \in [Logins -> [version : 0 .. MaxVersion, sealed : BOOLEAN, gone : BOOLEAN]],
         link' \in [Links -> LinkRows], on' \in BOOLEAN, stoppedAt' \in 0 .. MaxNow \cup {Never},
         active' \in [Members -> BOOLEAN], changes' \in 0 .. MaxChanges, wrong' \in [Links -> Nat],
         shown' \in [Links -> Seq(Nat)]
  PROVE  TypeOK'
  BY DEF TypeOK, ReqRows, Pcs, OpNames, Separate, Apart

LEMMA IdleRow ==
  /\ Unmade \in LinkRows /\ Idle \in ReqRows
  /\ Idle.pc = "idle" /\ Idle.op = "open" /\ Idle.m = NoMember /\ Idle.g = NoLogin /\ Idle.l = NoLink /\ Idle.began = 0
  /\ Idle.want = {} /\ Idle.rows = {} /\ Idle.ends = {} /\ Idle.links = {} /\ Idle.saw = Unmade
  <1>1. 0 \in 0 .. MaxVersion /\ 0 \in 0 .. MaxNow /\ 0 \in 0 .. MaxCodes /\ 0 \in 0 .. MaxAttempts /\ Never \in Nat \cup {Never}
    BY ShareAssumption DEF Never
  <1>2. Unmade \in LinkRows
    BY <1>1, Zenon DEF Unmade, LinkRows
  <1>3. Idle \in ReqRows
    BY <1>1, <1>2, Zenon DEF Idle, ReqRows, Pcs, OpNames
  <1> QED BY <1>2, <1>3 DEF Idle

LEMMA Columns ==
  ASSUME NEW k \in ReqRows
  PROVE  /\ k = [pc |-> k.pc, op |-> k.op, m |-> k.m, g |-> k.g, l |-> k.l, began |-> k.began,
                 want |-> k.want, rows |-> k.rows, ends |-> k.ends, links |-> k.links, saw |-> k.saw]
         /\ k.pc \in Pcs /\ k.op \in OpNames /\ k.m \in Members \cup {NoMember} /\ k.g \in Logins \cup {NoLogin}
         /\ k.l \in Links \cup {NoLink} /\ k.began \in 0 .. MaxNow
         /\ k.want \in SUBSET Logins /\ k.rows \in SUBSET Logins
         /\ k.ends \in SUBSET Links /\ k.links \in SUBSET Links /\ k.saw \in LinkRows
  BY DEF ReqRows

(* A request at its next wait, and with what it read or locked there.      *)
ToPc(k, pc) == [k EXCEPT !.pc = pc]
ToRead(k, pc, links, saw) == [k EXCEPT !.pc = pc, !.links = links, !.saw = saw]
ToWant(k, pc, want) == [k EXCEPT !.pc = pc, !.want = want]
ToEnds(k, pc, ends) == [k EXCEPT !.pc = pc, !.ends = ends]
ToRows(k, want, rows) == [k EXCEPT !.want = want, !.rows = rows]
ToLinks(k, ends, links) == [k EXCEPT !.ends = ends, !.links = links]

LEMMA ToPcRow ==
  ASSUME NEW k \in ReqRows, NEW pc \in Pcs
  PROVE  LET j == ToPc(k, pc)
         IN  /\ j \in ReqRows
             /\ j.pc = pc /\ j.op = k.op /\ j.m = k.m /\ j.g = k.g /\ j.l = k.l /\ j.began = k.began
             /\ j.want = k.want /\ j.rows = k.rows /\ j.ends = k.ends /\ j.links = k.links /\ j.saw = k.saw
  BY DEF ToPc, ReqRows

LEMMA ToReadRow ==
  ASSUME NEW k \in ReqRows, NEW pc \in Pcs, NEW links \in SUBSET Links, NEW saw \in LinkRows
  PROVE  LET j == ToRead(k, pc, links, saw)
         IN  /\ j \in ReqRows
             /\ j.pc = pc /\ j.op = k.op /\ j.m = k.m /\ j.g = k.g /\ j.l = k.l /\ j.began = k.began
             /\ j.want = k.want /\ j.rows = k.rows /\ j.ends = k.ends /\ j.links = links /\ j.saw = saw
  BY DEF ToRead, ReqRows

LEMMA ToWantRow ==
  ASSUME NEW k \in ReqRows, NEW pc \in Pcs, NEW want \in SUBSET Logins
  PROVE  LET j == ToWant(k, pc, want)
         IN  /\ j \in ReqRows
             /\ j.pc = pc /\ j.op = k.op /\ j.m = k.m /\ j.g = k.g /\ j.l = k.l /\ j.began = k.began
             /\ j.want = want /\ j.rows = k.rows /\ j.ends = k.ends /\ j.links = k.links /\ j.saw = k.saw
  BY DEF ToWant, ReqRows

LEMMA ToEndsRow ==
  ASSUME NEW k \in ReqRows, NEW pc \in Pcs, NEW ends \in SUBSET Links
  PROVE  LET j == ToEnds(k, pc, ends)
         IN  /\ j \in ReqRows
             /\ j.pc = pc /\ j.op = k.op /\ j.m = k.m /\ j.g = k.g /\ j.l = k.l /\ j.began = k.began
             /\ j.want = k.want /\ j.rows = k.rows /\ j.ends = ends /\ j.links = k.links /\ j.saw = k.saw
  BY DEF ToEnds, ReqRows

LEMMA ToRowsRow ==
  ASSUME NEW k \in ReqRows, NEW want \in SUBSET Logins, NEW rows \in SUBSET Logins
  PROVE  LET j == ToRows(k, want, rows)
         IN  /\ j \in ReqRows
             /\ j.pc = k.pc /\ j.op = k.op /\ j.m = k.m /\ j.g = k.g /\ j.l = k.l /\ j.began = k.began
             /\ j.want = want /\ j.rows = rows /\ j.ends = k.ends /\ j.links = k.links /\ j.saw = k.saw
  BY DEF ToRows, ReqRows

LEMMA ToLinksRow ==
  ASSUME NEW k \in ReqRows, NEW ends \in SUBSET Links, NEW links \in SUBSET Links
  PROVE  LET j == ToLinks(k, ends, links)
         IN  /\ j \in ReqRows
             /\ j.pc = k.pc /\ j.op = k.op /\ j.m = k.m /\ j.g = k.g /\ j.l = k.l /\ j.began = k.began
             /\ j.want = k.want /\ j.rows = k.rows /\ j.ends = ends /\ j.links = links /\ j.saw = k.saw
  BY DEF ToLinks, ReqRows

-----------------------------------------------------------------------------
(* A request goes on to k, and no row changes.                              *)
SameRows == UNCHANGED <<now, login, link, on, stoppedAt, active, wrong, shown>>

LEMMA GoesOnOK ==
  ASSUME IInv, SameRows, changes' \in 0 .. MaxChanges, NEW r \in Requests, NEW k \in ReqRows,
         req' = [req EXCEPT ![r] = k], ReqOK(k),
         \A q \in Requests \ {r} : Apart(k, req[q]) /\ Apart(req[q], k)
  PROVE  IInv'
  <1>1. req \in [Requests -> ReqRows] /\ req'[r] = k /\ \A q \in Requests \ {r} : req'[q] = req[q]
    BY Types DEF IInv
  <1>2. req' \in [Requests -> ReqRows]
    BY <1>1
  <1>3. Separate'
    <2> SUFFICES ASSUME NEW p \in Requests, NEW q \in Requests, p # q PROVE Apart(req'[p], req'[q])
      BY DEF Separate, Apart
    <2>1. CASE p = r
      BY <1>1, <2>1
    <2>2. CASE q = r
      BY <1>1, <2>2
    <2>3. CASE p # r /\ q # r
      BY <1>1, <2>3 DEF IInv, Separate
    <2> QED BY <2>1, <2>2, <2>3
  <1>4. Requested'
    <2> SUFFICES ASSUME NEW q \in Requests PROVE ReqOK(req[q])'
      BY DEF Requested
    <2>1. ReqOK(req'[q])
      BY <1>1 DEF IInv, Requested
    <2> QED BY <2>1 DEF SameRows, ReqOK, Shaped, Opening, Revoking, Making, Stamped, Made, Mine, Unended, InDate, Ended, Expires
  <1>5. Linked' /\ EndedLinks'
    BY DEF IInv, SameRows, Linked, LinkOK, EndedLinks, Made, Ended, Unended, InDate, Expires
  <1>6. TypeOK'
    <2>1. TypeOK
      BY DEF IInv
    <2> QED BY <1>2, <1>3, <2>1, Typed2 DEF SameRows, TypeOK
  <1> QED BY <1>3, <1>4, <1>5, <1>6 DEF IInv

-----------------------------------------------------------------------------
(* A request begins, goes on or gives up.                                   *)
LEMMA IdleOK ==
  ASSUME TypeOK
  PROVE  ReqOK(Idle) /\ \A j : Apart(Idle, j) /\ Apart(j, Idle)
  <1>1. ReqOK(Idle)
    BY IdleRow, ShareAssumption DEF ReqOK, Shaped, Opening, Revoking, Making, Stamped, TypeOK
  <1>2. \A j : Apart(Idle, j) /\ Apart(j, Idle)
    BY IdleRow DEF Apart
  <1> QED BY <1>1, <1>2

LEMMA GiveUpOK ==
  ASSUME IInv, NEW r \in Requests, GiveUp(r)
  PROVE  IInv'
  <1>1. SameRows /\ changes' \in 0 .. MaxChanges /\ req' = [req EXCEPT ![r] = Idle]
    BY DEF GiveUp, End, SameRows, IInv, TypeOK
  <1> QED BY <1>1, IdleRow, IdleOK, GoesOnOK DEF IInv

LEMMA AskedRow ==
  ASSUME TypeOK, NEW pc \in Pcs, NEW op \in OpNames, NEW m \in Members \cup {NoMember},
         NEW g \in Logins \cup {NoLogin}, NEW l \in Links \cup {NoLink}
  PROVE  LET k == Asked(pc, op, m, g, l)
         IN  /\ k \in ReqRows /\ k.pc = pc /\ k.op = op /\ k.m = m /\ k.g = g /\ k.l = l
             /\ k.began \in 0 .. now /\ (op \in Clocked => k.began = now)
             /\ k.want = {} /\ k.rows = {} /\ k.ends = {} /\ k.links = {}
  <1> DEFINE at == IF op \in Clocked THEN now ELSE 0
             k  == [Idle EXCEPT !.pc = pc, !.op = op, !.m = m, !.g = g, !.l = l, !.began = at]
  <1>1. at \in 0 .. MaxNow /\ at \in 0 .. now /\ (op \in Clocked => at = now)
    BY ShareAssumption DEF TypeOK
  <1>2. /\ k.pc = pc /\ k.op = op /\ k.m = m /\ k.g = g /\ k.l = l /\ k.began = at
        /\ k.want = {} /\ k.rows = {} /\ k.ends = {} /\ k.links = {}
    BY DEF Idle
  <1> HIDE DEF at
  <1>3. k \in ReqRows
    BY <1>1, IdleRow, Zenon DEF Idle, ReqRows
  <1> QED BY <1>1, <1>2, <1>3 DEF Asked, at

LEMMA AskOK ==
  ASSUME IInv, NEW r \in Requests, NEW k \in ReqRows, Ask(r, k), ReqOK(k),
         \A q \in Requests \ {r} : Apart(k, req[q]) /\ Apart(req[q], k)
  PROVE  IInv'
  <1>1. SameRows /\ req' = [req EXCEPT ![r] = k]
    BY DEF Ask, SameRows
  <1>2. changes' \in 0 .. MaxChanges
    BY ShareAssumption DEF Ask, Changes, IInv, TypeOK
  <1> QED BY <1>1, <1>2, GoesOnOK

LEMMA AsksOK ==
  ASSUME IInv, NEW r \in Requests, Asks(r)
  PROVE  IInv'
  <1> USE DEF Pcs, OpNames
  <1>0. TypeOK /\ now \in 0 .. MaxNow
    BY DEF IInv, TypeOK
  <1>1. CASE \E m \in Members, g \in Logins : AskMake(r, m, g) \/ AskReplace(r, m, g)
    <2>1. PICK m \in Members, g \in Logins : \/ Ask(r, Asked("switch", "make", m, g, NoLink))
                                             \/ Ask(r, Asked("key", "replace", m, g, NoLink))
      BY <1>1 DEF AskMake, AskReplace
    <2>2. ASSUME NEW pc \in Pcs, NEW op \in OpNames, (pc = "switch" /\ op = "make") \/ (pc = "key" /\ op = "replace"),
                 Ask(r, Asked(pc, op, m, g, NoLink))
          PROVE  IInv'
      <3> DEFINE k == Asked(pc, op, m, g, NoLink)
      <3>1. k \in ReqRows /\ k.pc = pc /\ k.op = op /\ k.m = m /\ k.g = g /\ k.began \in 0 .. now
            /\ k.want = {} /\ k.rows = {} /\ k.ends = {} /\ k.links = {}
        BY <1>0, AskedRow
      <3> HIDE DEF k
      <3>2. ReqOK(k)
        BY <1>0, <2>2, <3>1 DEF ReqOK, Shaped, Opening, Revoking, Making, Stamped
      <3>3. \A q \in Requests \ {r} : Apart(k, req[q]) /\ Apart(req[q], k)
        BY <2>2, <3>1 DEF Apart
      <3> QED BY <2>2, <3>1, <3>2, <3>3, AskOK DEF k
    <2>3. CASE Ask(r, Asked("switch", "make", m, g, NoLink))
      <3>1. "switch" \in Pcs /\ "make" \in OpNames
        OBVIOUS
      <3> QED BY <2>2, <2>3, <3>1
    <2>4. CASE Ask(r, Asked("key", "replace", m, g, NoLink))
      <3>1. "key" \in Pcs /\ "replace" \in OpNames
        OBVIOUS
      <3> QED BY <2>2, <2>4, <3>1
    <2> QED BY <2>1, <2>3, <2>4
  <1>2. CASE \E op \in {"open", "send"}, l \in Links : Visit(r, op, l)
    <2>1. PICK op \in {"open", "send"}, l \in Links : l \in Made /\ Ask(r, Asked("link", op, NoMember, NoLogin, l))
      BY <1>2 DEF Visit
    <2> DEFINE k == Asked("link", op, NoMember, NoLogin, l)
    <2>2. k \in ReqRows /\ k.pc = "link" /\ k.op = op /\ k.l = l /\ k.began \in 0 .. now
          /\ k.want = {} /\ k.rows = {} /\ k.ends = {} /\ k.links = {}
      BY <1>0, AskedRow
    <2> HIDE DEF k
    <2>3. ReqOK(k)
      BY <1>0, <2>1, <2>2 DEF ReqOK, Shaped, Opening, Revoking, Making, Stamped
    <2>4. \A q \in Requests \ {r} : Apart(k, req[q]) /\ Apart(req[q], k)
      BY <2>2 DEF Apart
    <2> QED BY <2>1, <2>2, <2>3, <2>4, AskOK DEF k
  <1>3. CASE \E g \in Logins : AskSeal(r, g)
    <2>1. PICK g \in Logins : Ask(r, [Asked("rows", "seal", NoMember, g, NoLink) EXCEPT !.want = {g}])
      BY <1>3 DEF AskSeal
    <2> DEFINE i == Asked("rows", "seal", NoMember, g, NoLink)
               k == [i EXCEPT !.want = {g}]
    <2>2. i \in ReqRows /\ i.pc = "rows" /\ i.op = "seal" /\ i.m = NoMember /\ i.g = g /\ i.began \in 0 .. now
          /\ i.rows = {} /\ i.ends = {} /\ i.links = {}
      BY <1>0, AskedRow
    <2> HIDE DEF i
    <2>3. k \in ReqRows /\ k.pc = "rows" /\ k.op = "seal" /\ k.m = NoMember /\ k.g = g /\ k.began \in 0 .. now
          /\ k.want = {g} /\ k.rows = {} /\ k.ends = {} /\ k.links = {}
      BY <2>2 DEF ReqRows
    <2> HIDE DEF k
    <2>4. ReqOK(k)
      BY <1>0, <2>3 DEF ReqOK, Shaped, Opening, Revoking, Making, Stamped, Mine
    <2>5. \A q \in Requests \ {r} : Apart(k, req[q]) /\ Apart(req[q], k)
      BY <2>3 DEF Apart
    <2> QED BY <2>1, <2>3, <2>4, <2>5, AskOK DEF k, i
  <1>4. CASE \E m \in Members : AskRemove(r, m)
    <2>1. PICK m \in Members : ~Removing /\ Ask(r, Asked("key", "remove", m, NoLogin, NoLink))
      BY <1>4 DEF AskRemove
    <2> DEFINE k == Asked("key", "remove", m, NoLogin, NoLink)
    <2>2. k \in ReqRows /\ k.pc = "key" /\ k.op = "remove" /\ k.m = m /\ k.began \in 0 .. now
          /\ k.want = {} /\ k.rows = {} /\ k.ends = {} /\ k.links = {}
      BY <1>0, AskedRow
    <2> HIDE DEF k
    <2>3. ReqOK(k)
      BY <1>0, <2>2 DEF ReqOK, Shaped, Opening, Revoking, Making, Stamped
    <2>4. \A q \in Requests \ {r} : Apart(k, req[q]) /\ Apart(req[q], k)
      BY <2>1, <2>2 DEF Apart, Removing
    <2> QED BY <2>1, <2>2, <2>3, <2>4, AskOK DEF k
  <1>5. CASE StampOff(r)
    <2>1. SwitchFree /\ Ask(r, Asked("stamped", "off", NoMember, NoLogin, NoLink))
      BY <1>5 DEF StampOff
    <2> DEFINE k == Asked("stamped", "off", NoMember, NoLogin, NoLink)
    <2>2. k \in ReqRows /\ k.pc = "stamped" /\ k.op = "off" /\ k.began = now
          /\ k.want = {} /\ k.rows = {} /\ k.ends = {} /\ k.links = {}
      BY <1>0, AskedRow DEF Clocked
    <2> HIDE DEF k
    <2>3. \A l \in Made : link[l].made <= now
      BY DEF IInv, Linked, LinkOK, Made
    <2>4. ReqOK(k)
      BY <1>0, <2>2, <2>3 DEF ReqOK, Shaped, Opening, Revoking, Making, Stamped
    <2>5. \A q \in Requests \ {r} : Apart(k, req[q]) /\ Apart(req[q], k)
      BY <2>1, <2>2 DEF Apart, SwitchFree, Switching, Sharing
    <2> QED BY <2>1, <2>2, <2>4, <2>5, AskOK DEF k
  <1> QED BY <1>1, <1>2, <1>3, <1>4, <1>5 DEF Asks

(* The locks of one who makes a link or replaces a secret.                  *)
LEMMA GoOK ==
  ASSUME IInv, NEW r \in Requests, NEW pc \in Pcs, Go(r, pc), SameRows, UNCHANGED changes,
         ReqOK(ToPc(req[r], pc)),
         \A q \in Requests \ {r} : Apart(ToPc(req[r], pc), req[q]) /\ Apart(req[q], ToPc(req[r], pc))
  PROVE  IInv'
  <1>1. req[r] \in ReqRows /\ changes' \in 0 .. MaxChanges
    BY Types DEF IInv, TypeOK
  <1>2. ToPc(req[r], pc) \in ReqRows
    BY <1>1, ToPcRow
  <1>3. req' = [req EXCEPT ![r] = ToPc(req[r], pc)]
    BY DEF Go, ToPc
  <1> QED BY <1>1, <1>2, <1>3, GoesOnOK

LEMMA HoldSwitchOK ==
  ASSUME IInv, NEW r \in Requests, HoldSwitch(r)
  PROVE  IInv'
  <1> DEFINE k == ToPc(req[r], "key")
  <1>1. /\ req[r].op = "make" /\ req[r].pc = "switch" /\ \A q \in Requests : req[q].pc # "stamped"
        /\ on /\ stoppedAt < req[r].began /\ Go(r, "key") /\ SameRows /\ UNCHANGED changes
    BY DEF HoldSwitch, At, Switching, BegunSince, SameRows
  <1>2. ReqOK(req[r]) /\ req[r] \in ReqRows /\ "key" \in Pcs
    BY Types DEF IInv, Requested, Pcs
  <1>3. k.pc = "key" /\ k.op = req[r].op /\ k.m = req[r].m /\ k.g = req[r].g /\ k.l = req[r].l /\ k.began = req[r].began
        /\ k.want = req[r].want /\ k.rows = req[r].rows /\ k.ends = req[r].ends /\ k.links = req[r].links /\ k.saw = req[r].saw
    BY <1>2, ToPcRow
  <1> HIDE DEF k
  <1>4. ReqOK(k)
    BY <1>1, <1>2, <1>3 DEF ReqOK, Shaped, Opening, Revoking, Making, Stamped
  <1>5. \A q \in Requests \ {r} : Apart(k, req[q]) /\ Apart(req[q], k)
    BY <1>1, <1>3 DEF Apart, IInv, Separate
  <1> QED BY <1>1, <1>2, <1>4, <1>5, GoOK DEF k

LEMMA HoldKeyOK ==
  ASSUME IInv, NEW r \in Requests, HoldKey(r)
  PROVE  IInv'
  <1> DEFINE k == ToPc(req[r], "rows")
  <1>1. /\ req[r].op \in {"make", "replace"} /\ req[r].pc = "key" /\ KeyFree(r, req[r].m) /\ active[req[r].m]
        /\ Go(r, "rows") /\ SameRows /\ UNCHANGED changes
    BY DEF HoldKey, At, SameRows
  <1>2. ReqOK(req[r]) /\ req[r] \in ReqRows /\ "rows" \in Pcs
    BY Types DEF IInv, Requested, Pcs
  <1>3. k.pc = "rows" /\ k.op = req[r].op /\ k.m = req[r].m /\ k.g = req[r].g /\ k.l = req[r].l /\ k.began = req[r].began
        /\ k.want = req[r].want /\ k.rows = req[r].rows /\ k.ends = req[r].ends /\ k.links = req[r].links /\ k.saw = req[r].saw
    BY <1>2, ToPcRow
  <1> HIDE DEF k
  <1>4. ReqOK(k)
    BY <1>1, <1>2, <1>3 DEF ReqOK, Shaped, Opening, Revoking, Making, Stamped
  <1>5. \A q \in Requests \ {r} : Apart(k, req[q]) /\ Apart(req[q], k)
    BY <1>1, <1>3 DEF Apart, IInv, Separate, KeyFree
  <1> QED BY <1>1, <1>2, <1>4, <1>5, GoOK DEF k

(* A visitor locks the link, and then reads.                                *)
LEMMA LockLinkOK ==
  ASSUME IInv, NEW r \in Requests, LockLink(r)
  PROVE  IInv'
  <1> DEFINE l == req[r].l
             k == ToRead(req[r], "prefs", {l}, link[l])
  <1>1. /\ req[r].op \in {"open", "send"} /\ req[r].pc = "link" /\ LinkFree(r, l)
        /\ req' = [req EXCEPT ![r].pc = "prefs", ![r].links = {l}, ![r].saw = link[l]] /\ SameRows /\ UNCHANGED changes
    BY DEF LockLink, At, SameRows
  <1>2. ReqOK(req[r]) /\ req[r] \in ReqRows /\ "prefs" \in Pcs /\ req \in [Requests -> ReqRows] /\ changes' \in 0 .. MaxChanges
    BY <1>1, Types DEF IInv, TypeOK, Requested, Pcs
  <1>3. l \in Made /\ l \in Links /\ link[l] \in LinkRows
    BY <1>1, <1>2, Types DEF IInv, ReqOK, Shaped, Made
  <1>4. {l} \in SUBSET Links
    BY <1>3
  <1>5. k \in ReqRows /\ k.pc = "prefs" /\ k.op = req[r].op /\ k.m = req[r].m /\ k.g = req[r].g /\ k.l = l
        /\ k.began = req[r].began /\ k.want = req[r].want /\ k.rows = req[r].rows /\ k.ends = req[r].ends
        /\ k.links = {l} /\ k.saw = link[l]
    BY <1>2, <1>3, <1>4, ToReadRow
  <1>6. req' = [req EXCEPT ![r] = k]
    BY <1>1, <1>2 DEF ToRead
  <1> HIDE DEF k
  <1>7. ReqOK(k)
    BY <1>1, <1>2, <1>3, <1>5 DEF ReqOK, Shaped, Opening, Revoking, Making, Stamped
  <1>8. \A q \in Requests \ {r} : Apart(k, req[q]) /\ Apart(req[q], k)
    BY <1>1, <1>5 DEF Apart, IInv, Separate, LinkFree
  <1> QED BY <1>1, <1>2, <1>5, <1>6, <1>7, <1>8, GoesOnOK

LEMMA ReadsOK ==
  ASSUME IInv, NEW r \in Requests, ReadPreferences(r) \/ ReadLogin(r)
  PROVE  IInv'
  <1>1. PICK pc \in Pcs :
          /\ req[r].op \in {"open", "send"} /\ Go(r, pc) /\ SameRows /\ UNCHANGED changes
          /\ \/ req[r].pc = "prefs" /\ pc = "login" /\ Lives(req[r].saw, req[r].began)
             \/ req[r].pc = "login" /\ pc = "code"
    BY DEF ReadPreferences, ReadLogin, At, SameRows, Pcs
  <1> DEFINE k == ToPc(req[r], pc)
  <1>2. ReqOK(req[r]) /\ req[r] \in ReqRows
    BY Types DEF IInv, Requested
  <1>3. k.pc = pc /\ k.op = req[r].op /\ k.m = req[r].m /\ k.g = req[r].g /\ k.l = req[r].l /\ k.began = req[r].began
        /\ k.want = req[r].want /\ k.rows = req[r].rows /\ k.ends = req[r].ends /\ k.links = req[r].links /\ k.saw = req[r].saw
    BY <1>2, ToPcRow
  <1> HIDE DEF k
  <1>4. ReqOK(k)
    BY <1>1, <1>2, <1>3 DEF ReqOK, Shaped, Opening, Revoking, Making, Stamped, Lives
  <1>5. \A q \in Requests \ {r} : Apart(k, req[q]) /\ Apart(req[q], k)
    BY <1>1, <1>3 DEF Apart, IInv, Separate
  <1> QED BY <1>1, <1>4, <1>5, GoOK DEF k

(* What ends links: its key, its rows, its links.                           *)
LEMMA HoldLeaversKeyOK ==
  ASSUME IInv, NEW r \in Requests, HoldLeaversKey(r)
  PROVE  IInv'
  <1>1. PICK also \in SUBSET Logins :
          req' = [req EXCEPT ![r].pc = "rows", ![r].want = SharedBy(req[r].m) \cup also]
    BY DEF HoldLeaversKey
  <1> DEFINE want == SharedBy(req[r].m) \cup also
             k == ToWant(req[r], "rows", want)
  <1>2. req[r].op = "remove" /\ req[r].pc = "key" /\ KeyFree(r, req[r].m) /\ SameRows /\ UNCHANGED changes
    BY DEF HoldLeaversKey, At, SameRows
  <1>3. ReqOK(req[r]) /\ req[r] \in ReqRows /\ "rows" \in Pcs /\ req \in [Requests -> ReqRows] /\ changes' \in 0 .. MaxChanges
    BY <1>2, Types DEF IInv, TypeOK, Requested, Pcs
  <1>4. want \in SUBSET Logins /\ \A l \in Made : link[l].by = req[r].m => link[l].login \in want
    BY DEF SharedBy, IInv, Linked, LinkOK, Made
  <1> HIDE DEF want
  <1>5. k \in ReqRows /\ k.pc = "rows" /\ k.op = req[r].op /\ k.m = req[r].m /\ k.g = req[r].g /\ k.l = req[r].l
        /\ k.began = req[r].began /\ k.want = want /\ k.rows = req[r].rows /\ k.ends = req[r].ends
        /\ k.links = req[r].links /\ k.saw = req[r].saw
    BY <1>3, <1>4, ToWantRow
  <1>6. req' = [req EXCEPT ![r] = k]
    BY <1>1, <1>3 DEF ToWant, want
  <1> HIDE DEF k
  <1>7. ReqOK(k)
    BY <1>2, <1>3, <1>4, <1>5 DEF ReqOK, Shaped, Opening, Revoking, Making, Stamped, Mine
  <1>8. \A q \in Requests \ {r} : Apart(k, req[q]) /\ Apart(req[q], k)
    BY <1>2, <1>5 DEF Apart, IInv, Separate, KeyFree
  <1> QED BY <1>2, <1>3, <1>5, <1>6, <1>7, <1>8, GoesOnOK

LEMMA LockRowOK ==
  ASSUME IInv, NEW r \in Requests, NEW g \in Logins, LockRow(r, g)
  PROVE  IInv'
  <1> DEFINE want == req[r].want \ {g}
             rows == req[r].rows \cup {g}
             k == ToRows(req[r], want, rows)
  <1>1. /\ req[r].op \in {"seal", "remove"} /\ req[r].pc = "rows" /\ g \in req[r].want /\ LoginFree(r, g)
        /\ req' = [req EXCEPT ![r].want = @ \ {g}, ![r].rows = @ \cup {g}] /\ SameRows /\ UNCHANGED changes
    BY DEF LockRow, At, SameRows
  <1>2. ReqOK(req[r]) /\ req[r] \in ReqRows /\ req \in [Requests -> ReqRows] /\ changes' \in 0 .. MaxChanges
    BY <1>1, Types DEF IInv, TypeOK, Requested
  <1>3. want \in SUBSET Logins /\ rows \in SUBSET Logins /\ want \cup rows = req[r].want \cup req[r].rows
    BY <1>1, <1>2 DEF ReqRows
  <1>4. req' = [req EXCEPT ![r] = k]
    BY <1>1, <1>2 DEF ToRows
  <1>5. \A q \in Requests \ {r} : rows \cap req[q].rows = {}
    BY <1>1 DEF LoginFree, IInv, Separate, Apart
  <1> HIDE DEF want, rows
  <1>6. k \in ReqRows /\ k.pc = "rows" /\ k.op = req[r].op /\ k.m = req[r].m /\ k.g = req[r].g /\ k.l = req[r].l
        /\ k.began = req[r].began /\ k.want = want /\ k.rows = rows /\ k.ends = req[r].ends
        /\ k.links = req[r].links /\ k.saw = req[r].saw
    BY <1>1, <1>2, <1>3, ToRowsRow
  <1> HIDE DEF k
  <1>7. ReqOK(k)
    BY <1>1, <1>2, <1>3, <1>6 DEF ReqOK, Shaped, Opening, Revoking, Making, Stamped, Mine
  <1>8. \A q \in Requests \ {r} : Apart(k, req[q]) /\ Apart(req[q], k)
    BY <1>1, <1>5, <1>6 DEF Apart, IInv, Separate
  <1> QED BY <1>1, <1>2, <1>4, <1>6, <1>7, <1>8, GoesOnOK

LEMMA BeginRevokingOK ==
  ASSUME IInv, NEW r \in Requests, BeginRevoking(r)
  PROVE  IInv'
  <1> DEFINE ends == {l \in Links : Ends(r, l)}
             k == ToEnds(req[r], "links", ends)
  <1>1. /\ req[r].op \in {"seal", "remove"} /\ req[r].pc = "rows" /\ req[r].want = {}
        /\ req' = [req EXCEPT ![r].pc = "links", ![r].ends = ends] /\ SameRows /\ UNCHANGED changes
    BY DEF BeginRevoking, At, SameRows
  <1>2. ReqOK(req[r]) /\ req[r] \in ReqRows /\ "links" \in Pcs /\ req \in [Requests -> ReqRows] /\ changes' \in 0 .. MaxChanges
    BY <1>1, Types DEF IInv, TypeOK, Requested, Pcs
  <1>3. /\ ends \in SUBSET Links /\ \A l \in ends : l \in Made /\ Mine(req[r], l)
        /\ \A l \in Made : Mine(req[r], l) => l \in ends \/ Ended(l)
    BY DEF Ends, Mine, Ended, Made
  <1>4. req' = [req EXCEPT ![r] = k]
    BY <1>1, <1>2 DEF ToEnds
  <1> HIDE DEF ends
  <1>5. k \in ReqRows /\ k.pc = "links" /\ k.op = req[r].op /\ k.m = req[r].m /\ k.g = req[r].g /\ k.l = req[r].l
        /\ k.began = req[r].began /\ k.want = req[r].want /\ k.rows = req[r].rows /\ k.ends = ends
        /\ k.links = req[r].links /\ k.saw = req[r].saw
    BY <1>2, <1>3, ToEndsRow
  <1> HIDE DEF k
  <1>6. \A l : Mine(k, l) <=> Mine(req[r], l)
    BY <1>5 DEF Mine
  <1>7. ReqOK(k)
    BY <1>1, <1>2, <1>3, <1>5, <1>6 DEF ReqOK, Shaped, Opening, Revoking, Making, Stamped
  <1>8. \A q \in Requests \ {r} : Apart(k, req[q]) /\ Apart(req[q], k)
    BY <1>1, <1>5 DEF Apart, IInv, Separate
  <1> QED BY <1>1, <1>2, <1>4, <1>5, <1>7, <1>8, GoesOnOK

LEMMA RevokeNextOK ==
  ASSUME IInv, NEW r \in Requests, NEW l \in Links, RevokeNext(r, l)
  PROVE  IInv'
  <1> DEFINE ends  == req[r].ends \ {l}
             links == IF Unended(l) THEN req[r].links \cup {l} ELSE req[r].links
             k == ToLinks(req[r], ends, links)
  <1>1. /\ req[r].op \in {"seal", "remove"} /\ req[r].pc = "links" /\ l \in req[r].ends /\ LinkFree(r, l)
        /\ req' = [req EXCEPT ![r].ends = @ \ {l}, ![r].links = IF Unended(l) THEN @ \cup {l} ELSE @]
        /\ SameRows /\ UNCHANGED changes
    BY DEF RevokeNext, At, SameRows
  <1>2. ReqOK(req[r]) /\ req[r] \in ReqRows /\ req \in [Requests -> ReqRows] /\ changes' \in 0 .. MaxChanges
    BY <1>1, Types DEF IInv, TypeOK, Requested
  <1>3. /\ ends \in SUBSET Links /\ links \in SUBSET Links
        /\ \A i : i \in ends \cup links => i \in req[r].ends \cup req[r].links
        /\ \A i : i \in req[r].ends \cup req[r].links => i \in ends \cup links \/ ~Unended(i)
        /\ \A i \in links : i \in req[r].links \/ Unended(i)
    BY <1>1, <1>2 DEF ReqRows
  <1>4. req' = [req EXCEPT ![r] = k]
    BY <1>1, <1>2 DEF ToLinks
  <1>5. \A q \in Requests \ {r} : links \cap req[q].links = {}
    BY <1>1 DEF LinkFree, IInv, Separate, Apart
  <1> HIDE DEF ends, links
  <1>6. k \in ReqRows /\ k.pc = "links" /\ k.op = req[r].op /\ k.m = req[r].m /\ k.g = req[r].g /\ k.l = req[r].l
        /\ k.began = req[r].began /\ k.want = req[r].want /\ k.rows = req[r].rows /\ k.ends = ends
        /\ k.links = links /\ k.saw = req[r].saw
    BY <1>1, <1>2, <1>3, ToLinksRow
  <1> HIDE DEF k
  <1>7. \A i : Mine(k, i) <=> Mine(req[r], i)
    BY <1>6 DEF Mine
  <1>8. Revoking(k)
    BY <1>1, <1>2, <1>3, <1>6, <1>7 DEF ReqOK, Revoking, Ended
  <1>9. ReqOK(k)
    BY <1>1, <1>2, <1>6, <1>8 DEF ReqOK, Shaped, Opening, Making, Stamped
  <1>10. \A q \in Requests \ {r} : Apart(k, req[q]) /\ Apart(req[q], k)
    BY <1>1, <1>5, <1>6 DEF Apart, IInv, Separate
  <1> QED BY <1>1, <1>2, <1>4, <1>6, <1>9, <1>10, GoesOnOK

-----------------------------------------------------------------------------
(* What a step that changes rows must leave to the requests under way.      *)

(* A link that was made is made still, by the same one, and stays over.     *)
Kept(l) ==
  /\ link'[l] # Unmade /\ link'[l].login = link[l].login /\ link'[l].by = link[l].by /\ link'[l].made = link[l].made
  /\ Ended(l) => Ended(l)'

(* A link being made is none that q has to end, nor stamped before.         *)
Unseen(q, l) ==
  /\ req[q].pc # "stamped"
  /\ req[q].op = "seal" /\ req[q].pc = "links" => link'[l].login # req[q].g
  /\ req[q].op = "remove" /\ req[q].pc \in {"rows", "links"} => link'[l].by # req[q].m

Spared(q) ==
  /\ \A l \in Made : Kept(l)
  /\ \A l \in req[q].links : link'[l] = link[l]
  /\ \A l \in Links \ Made : link'[l] # Unmade => Unseen(q, l)
  /\ now <= now' /\ now' \in Nat
  /\ Sharing(q) => on' = on /\ stoppedAt' = stoppedAt
  /\ req[q].op = "make" /\ req[q].pc = "rows" /\ active[req[q].m] => active'[req[q].m]

LEMMA StillOK ==
  ASSUME IInv, NEW q \in Requests, req'[q] = req[q], Spared(q)
  PROVE  ReqOK(req[q])'
  <1> DEFINE k == req[q]
  <1>1. ReqOK(k) /\ k \in ReqRows /\ now \in Nat
    BY ShareAssumption, Types DEF IInv, Requested
  <1>2. /\ \A l \in Made : l \in Made' /\ Kept(l)
        /\ \A l \in Made' : l \in Made \/ (l \in Links \ Made /\ Unseen(q, l))
        /\ \A l \in k.links : link'[l] = link[l]
    BY DEF Spared, Kept, Made
  <1>3. Shaped(req[q])'
    BY <1>1, <1>2 DEF ReqOK, Shaped
  <1>4. Opening(req[q])'
    BY <1>1, <1>2 DEF ReqOK, Opening
  <1>5. Making(req[q])'
    BY <1>1 DEF ReqOK, Making, Spared, Sharing
  <1>6. Stamped(req[q])'
    BY <1>1, <1>2 DEF ReqOK, Stamped, Unseen, Kept
  <1>7. k.began <= now'
    BY <1>1 DEF ReqOK, Spared, ReqRows
  <1>8. ASSUME k.op \in {"seal", "remove"} PROVE Revoking(req[q])'
    <2>1. ASSUME NEW l \in Made PROVE (Mine(k, l) <=> Mine(k, l)') /\ link'[l].login = link[l].login
      BY <1>2 DEF Kept, Mine
    <2>2. ASSUME NEW l \in Made', l \notin Made, k.pc \in {"rows", "links"}, Mine(req[q], l)'
          PROVE  k.op = "seal" /\ k.pc = "rows" /\ link'[l].login = k.g
      BY <1>2, <1>8, <2>2 DEF Unseen, Mine
    <2>3. k.op = "seal" /\ k.pc \in {"rows", "links"} => k.want \cup k.rows = {k.g}
      BY <1>1, <1>8 DEF ReqOK, Revoking
    <2>4. ASSUME NEW l \in Made', k.pc \in {"rows", "links"}, Mine(req[q], l)'
          PROVE  link'[l].login \in k.want \cup k.rows
      <3>1. CASE l \in Made
        BY <1>1, <1>8, <2>1, <2>4, <3>1 DEF ReqOK, Revoking
      <3>2. CASE l \notin Made
        BY <2>2, <2>3, <2>4, <3>2
      <3> QED BY <3>1, <3>2
    <2>5. ASSUME k.pc = "links"
          PROVE  /\ k.want = {}
                 /\ \A l \in k.ends \cup k.links : l \in Made' /\ Mine(req[q], l)'
                 /\ \A l \in k.links : Unended(l)'
                 /\ \A l \in Made' : Mine(req[q], l)' => l \in k.ends \cup k.links \/ Ended(l)'
      <3>1. /\ k.want = {} /\ \A l \in k.ends \cup k.links : l \in Made /\ Mine(k, l)
            /\ \A l \in k.links : Unended(l)
            /\ \A l \in Made : Mine(k, l) => l \in k.ends \cup k.links \/ Ended(l)
        BY <1>1, <1>8, <2>5 DEF ReqOK, Revoking
      <3>2. \A l \in k.ends \cup k.links : l \in Made' /\ Mine(req[q], l)'
        BY <1>2, <2>1, <3>1
      <3>3. \A l \in k.links : Unended(l)'
        BY <1>2, <3>1 DEF Unended
      <3>4. ASSUME NEW l \in Made', Mine(req[q], l)' PROVE l \in k.ends \cup k.links \/ Ended(l)'
        <4>1. l \in Made
          BY <2>2, <2>5, <3>4
        <4> QED BY <1>2, <2>1, <3>1, <3>4, <4>1 DEF Kept
      <3> QED BY <3>1, <3>2, <3>3, <3>4
    <2> QED BY <1>8, <2>3, <2>4, <2>5 DEF Revoking
  <1>9. Revoking(req[q])'
    BY <1>8 DEF Revoking
  <1> QED BY <1>3, <1>4, <1>5, <1>6, <1>7, <1>9 DEF ReqOK

(* A request that ends, and the others.                                     *)
LEMMA EndOK ==
  ASSUME IInv, NEW r \in Requests, End(r), now' \in Nat, \A q \in Requests \ {r} : Spared(q)
  PROVE  req' \in [Requests -> ReqRows] /\ Requested' /\ Separate'
  <1>1. req \in [Requests -> ReqRows] /\ req'[r] = Idle /\ \A q \in Requests \ {r} : req'[q] = req[q]
    BY Types DEF IInv, End
  <1>2. req' \in [Requests -> ReqRows]
    BY <1>1, IdleRow DEF End
  <1>3. Separate'
    BY <1>1, IdleRow DEF IInv, Separate, Apart
  <1>4. Requested'
    <2> SUFFICES ASSUME NEW q \in Requests PROVE ReqOK(req[q])'
      BY DEF Requested
    <2>1. CASE q = r
      BY <1>1, <2>1, IdleRow DEF ReqOK, Shaped, Opening, Revoking, Making, Stamped
    <2>2. CASE q # r
      BY <1>1, <2>2, StillOK
    <2> QED BY <2>1, <2>2
  <1> QED BY <1>2, <1>3, <1>4

(* A step of none of them.                                                  *)
LEMMA NoneOK ==
  ASSUME IInv, UNCHANGED req, \A q \in Requests : Spared(q)
  PROVE  req' \in [Requests -> ReqRows] /\ Requested' /\ Separate'
  <1>1. \A q \in Requests : req'[q] = req[q]
    OBVIOUS
  <1>2. Requested'
    BY <1>1, StillOK DEF Requested
  <1> QED BY <1>2, Types DEF IInv, Separate, Apart

(* The links are left alone.                                                *)
LEMMA SameLinks ==
  ASSUME IInv, UNCHANGED <<link, wrong, shown>>, now <= now', now' \in Nat,
         \A g \in Logins : login'[g].version >= login[g].version /\ login'[g].version \in Nat
  PROVE  /\ Linked' /\ link' \in [Links -> LinkRows] /\ wrong' \in [Links -> Nat] /\ shown' \in [Links -> Seq(Nat)]
         /\ \A l \in Made : Kept(l)
         /\ \A l \in Links \ Made : link'[l] = Unmade
         /\ Made' = Made /\ \A l \in Made : Ended(l) => Ended(l)'
  <1>1. link \in [Links -> LinkRows] /\ now \in Nat
    BY Types, ShareAssumption DEF IInv
  <1>2. \A l \in Links : link[l].made \in Nat /\ link[l].version \in Nat
    BY <1>1, ShareAssumption DEF LinkRows
  <1>3. \A g \in Logins : login[g].version \in Nat
    BY ShareAssumption DEF IInv, TypeOK
  <1>4. \A l \in Made : Ended(l) => Ended(l)'
    BY <1>1, <1>2, ShareAssumption DEF Ended, Unended, InDate, Expires, Made
  <1>5. Linked'
    BY <1>1, <1>2, <1>3 DEF IInv, Linked, LinkOK, Made
  <1> QED BY <1>1, <1>4, <1>5 DEF Kept, Made, IInv, TypeOK

-----------------------------------------------------------------------------
(* Links that change: the ones in S do, and keep their maker.               *)
LEMMA SomeLinks ==
  ASSUME IInv, NEW S \in SUBSET Links, link' \in [Links -> LinkRows], UNCHANGED now,
         \A l \in S : /\ l \in Made /\ link'[l].st = "made"
                      /\ link'[l].login = link[l].login /\ link'[l].by = link[l].by /\ link'[l].made = link[l].made
                      /\ link'[l].version = link[l].version
                      /\ (link[l].viewed => link'[l].viewed) /\ (link[l].revoked => link'[l].revoked),
         \A l \in Links \ S : link'[l] = link[l]
  PROVE  /\ \A l \in Made : Kept(l)
         /\ \A l \in Links \ Made : link'[l] = Unmade
         /\ Made' = Made
         /\ \A l \in Made : Ended(l) => Ended(l)'
  <1>1. Unmade.st = "none"
    BY DEF Unmade
  <1>2. \A l \in Made : link'[l] # Unmade
    BY <1>1 DEF Made
  <1>3. \A l \in Made : link'[l].login = link[l].login /\ link'[l].by = link[l].by /\ link'[l].made = link[l].made
    BY DEF Made
  <1>4. \A l \in Made : Ended(l) => Ended(l)'
    BY <1>3 DEF Ended, Unended, InDate, Expires, Made
  <1>5. \A l \in Links \ Made : link'[l] = Unmade
    BY DEF Made
  <1> QED BY <1>2, <1>3, <1>4, <1>5 DEF Kept, Made

(* One row of a link, changed.                                              *)
ToSent(k, s, u) == [k EXCEPT !.sent = s, !.codeUntil = u]
ToTries(k, n) == [k EXCEPT !.tries = n]
ToViewed(k, n, u) == [k EXCEPT !.tries = n, !.viewed = TRUE, !.codeUntil = u]
ToRevoked(k) == [k EXCEPT !.revoked = TRUE]

LEMMA ToSentRow ==
  ASSUME NEW k \in LinkRows, NEW s \in 0 .. MaxCodes, NEW u \in Nat \cup {Never}
  PROVE  LET j == ToSent(k, s, u)
         IN  /\ j \in LinkRows /\ j.sent = s /\ j.codeUntil = u /\ j.tries = k.tries
             /\ j.st = k.st /\ j.login = k.login /\ j.by = k.by /\ j.version = k.version /\ j.made = k.made
             /\ j.viewed = k.viewed /\ j.revoked = k.revoked
  BY DEF ToSent, LinkRows

LEMMA ToTriesRow ==
  ASSUME NEW k \in LinkRows, NEW n \in 0 .. MaxAttempts
  PROVE  LET j == ToTries(k, n)
         IN  /\ j \in LinkRows /\ j.sent = k.sent /\ j.codeUntil = k.codeUntil /\ j.tries = n
             /\ j.st = k.st /\ j.login = k.login /\ j.by = k.by /\ j.version = k.version /\ j.made = k.made
             /\ j.viewed = k.viewed /\ j.revoked = k.revoked
  BY DEF ToTries, LinkRows

LEMMA ToRevokedRow ==
  ASSUME NEW k \in LinkRows
  PROVE  LET j == ToRevoked(k)
         IN  /\ j \in LinkRows /\ j.sent = k.sent /\ j.codeUntil = k.codeUntil /\ j.tries = k.tries
             /\ j.st = k.st /\ j.login = k.login /\ j.by = k.by /\ j.version = k.version /\ j.made = k.made
             /\ j.viewed = k.viewed /\ j.revoked = TRUE
  BY DEF ToRevoked, LinkRows

(* What the rows say of themselves, when the switch, the logins and the     *)
(* members are left alone.                                                  *)
LEMMA StillEnded ==
  ASSUME IInv, UNCHANGED <<now, login, on, stoppedAt, active>>, \A l \in Made : Kept(l), Made' = Made
  PROVE  EndedLinks'
  BY DEF IInv, EndedLinks, Kept

(* Of the links in S each still answers for what it has shown.              *)
LEMMA LinksOK ==
  ASSUME IInv, NEW S \in SUBSET Links, link' \in [Links -> LinkRows], UNCHANGED now,
         \A g \in Logins : login'[g].version = login[g].version,
         \A l \in S : /\ l \in Made /\ link'[l].st = "made"
                      /\ link'[l].login = link[l].login /\ link'[l].by = link[l].by /\ link'[l].made = link[l].made
                      /\ link'[l].version = link[l].version
                      /\ (link[l].viewed => link'[l].viewed) /\ (link[l].revoked => link'[l].revoked)
                      /\ shown'[l] = (IF link'[l].viewed THEN <<link'[l].version>> ELSE <<>>)
                      /\ link'[l].tries = wrong'[l] + Len(shown'[l])
                      /\ ~(link'[l].viewed /\ link'[l].revoked),
         \A l \in Links \ S : link'[l] = link[l] /\ wrong'[l] = wrong[l] /\ shown'[l] = shown[l]
  PROVE  /\ Linked' /\ Made' = Made
         /\ \A l \in Made : Kept(l)
         /\ \A l \in Links \ Made : link'[l] = Unmade
         /\ \A l \in Made : Ended(l) => Ended(l)'
  <1>1. /\ \A l \in Made : Kept(l)
        /\ \A l \in Links \ Made : link'[l] = Unmade
        /\ Made' = Made
        /\ \A l \in Made : Ended(l) => Ended(l)'
    BY SomeLinks
  <1>2. ASSUME NEW l \in Links PROVE LinkOK(l)'
    <2>1. LinkOK(l) /\ (l \in Made => link[l].login \in Logins)
      BY DEF IInv, Linked, LinkOK
    <2>2. CASE l \in S
      <3>1. link'[l].login \in Logins /\ link'[l].by \in Members /\ link'[l].made <= now' /\ link'[l].st = "made"
            /\ link'[l].version <= login'[link'[l].login].version
        BY <2>1, <2>2 DEF LinkOK
      <3> QED BY <2>2, <3>1 DEF LinkOK
    <2>3. CASE l \notin S
      <3>1. l \in Made' <=> l \in Made
        BY <1>1
      <3> QED BY <2>1, <2>3, <3>1 DEF LinkOK
    <2> QED BY <2>2, <2>3
  <1> QED BY <1>1, <1>2 DEF Linked

(* A visitor's request ends, and writes the link it has locked.             *)
LEMMA VisitEnds ==
  ASSUME IInv, NEW r \in Requests, At(r, {"open", "send"}, "code"), End(r), NEW k \in LinkRows,
         link' = [link EXCEPT ![req[r].l] = k],
         wrong' \in [Links -> Nat], shown' \in [Links -> Seq(Nat)],
         \A l \in Links \ {req[r].l} : wrong'[l] = wrong[l] /\ shown'[l] = shown[l],
         UNCHANGED <<now, login, on, stoppedAt, active, changes>>,
         k.st = req[r].saw.st, k.login = req[r].saw.login, k.by = req[r].saw.by, k.made = req[r].saw.made,
         k.version = req[r].saw.version, k.revoked = req[r].saw.revoked, req[r].saw.viewed => k.viewed,
         shown'[req[r].l] = IF k.viewed THEN <<k.version>> ELSE <<>>,
         k.tries = wrong'[req[r].l] + Len(shown'[req[r].l])
  PROVE  IInv'
  <1> DEFINE x == req[r].l
             S == {x}
  <1>1. ReqOK(req[r]) /\ req[r].pc = "code" /\ req[r].op \in {"open", "send"}
    BY DEF IInv, Requested, At
  <1>2. x \in Made /\ x \in Links /\ req[r].links = {x} /\ link[x] = req[r].saw /\ ~req[r].saw.viewed /\ ~req[r].saw.revoked
    BY <1>1 DEF ReqOK, Shaped, Opening, Made
  <1>3. link' \in [Links -> LinkRows] /\ link'[x] = k /\ \A l \in Links \ {x} : link'[l] = link[l]
    BY <1>2, Types DEF IInv
  <1>4. link[x].st = "made"
    BY <1>2 DEF IInv, Linked, LinkOK, Made
  <1>5. \A l \in S : /\ l \in Made /\ link'[l].st = "made"
                     /\ link'[l].login = link[l].login /\ link'[l].by = link[l].by /\ link'[l].made = link[l].made
                     /\ link'[l].version = link[l].version
                     /\ (link[l].viewed => link'[l].viewed) /\ (link[l].revoked => link'[l].revoked)
                     /\ shown'[l] = (IF link'[l].viewed THEN <<link'[l].version>> ELSE <<>>)
                     /\ link'[l].tries = wrong'[l] + Len(shown'[l])
                     /\ ~(link'[l].viewed /\ link'[l].revoked)
    BY <1>2, <1>3, <1>4
  <1>6. S \in SUBSET Links /\ \A l \in Links \ S : link'[l] = link[l] /\ wrong'[l] = wrong[l] /\ shown'[l] = shown[l]
    BY <1>2, <1>3
  <1> HIDE DEF S
  <1>7. Linked' /\ Made' = Made /\ (\A l \in Made : Kept(l)) /\ \A l \in Links \ Made : link'[l] = Unmade
    BY <1>3, <1>5, <1>6, LinksOK
  <1>8. EndedLinks'
    BY <1>7, StillEnded
  <1>9. ASSUME NEW q \in Requests \ {r} PROVE Spared(q)
    <2>1. x \notin req[q].links /\ req[q].links \subseteq Links
      BY <1>2, Types DEF IInv, Separate, Apart, ReqRows
    <2>2. now \in Nat
      BY ShareAssumption, Types DEF IInv
    <2> QED BY <1>3, <1>7, <2>1, <2>2 DEF Spared
  <1>10. req' \in [Requests -> ReqRows] /\ Requested' /\ Separate'
    <2>1. now' \in Nat
      BY ShareAssumption, Types DEF IInv
    <2> QED BY <1>9, <2>1, EndOK
  <1>11. TypeOK'
    BY <1>3, <1>10, Typed2 DEF IInv, TypeOK
  <1> QED BY <1>7, <1>8, <1>10, <1>11 DEF IInv

(* A code is mailed, a wrong one answered, the secret shown.                *)
LEMMA Opened2 ==
  ASSUME IInv, NEW r \in Requests, At(r, {"open", "send"}, "code")
  PROVE  /\ req[r].l \in Links /\ link[req[r].l] = req[r].saw /\ req[r].saw \in LinkRows /\ link \in [Links -> LinkRows]
         /\ ~req[r].saw.viewed /\ ~req[r].saw.revoked /\ req[r].saw.tries < MaxAttempts
         /\ shown[req[r].l] = <<>> /\ req[r].saw.tries = wrong[req[r].l] /\ req[r].began \in Nat
         /\ req[r].saw.sent \in Nat /\ req[r].saw.tries \in Nat /\ req[r].saw.version \in Nat
  <1>1. ReqOK(req[r]) /\ req[r] \in ReqRows /\ req[r].pc = "code" /\ req[r].op \in {"open", "send"}
    BY Types DEF IInv, Requested, At
  <1>2. req[r].l \in Links /\ link[req[r].l] = req[r].saw /\ ~req[r].saw.viewed /\ ~req[r].saw.revoked /\ req[r].saw.tries < MaxAttempts
    BY <1>1 DEF ReqOK, Shaped, Opening, Made
  <1>3. shown[req[r].l] = <<>> /\ link[req[r].l].tries = wrong[req[r].l] + Len(shown[req[r].l])
    BY <1>2 DEF IInv, Linked, LinkOK
  <1>4. wrong[req[r].l] \in Nat
    BY <1>2 DEF IInv, TypeOK
  <1>5. req[r].saw.tries = wrong[req[r].l]
    BY <1>2, <1>3, <1>4
  <1>6. req[r].saw \in LinkRows /\ link \in [Links -> LinkRows] /\ req[r].began \in 0 .. MaxNow
    BY <1>1, Types DEF IInv, ReqRows
  <1>7. req[r].saw.sent \in 0 .. MaxCodes /\ req[r].saw.tries \in 0 .. MaxAttempts /\ req[r].saw.version \in 0 .. MaxVersion
    BY <1>6 DEF LinkRows
  <1> QED BY <1>2, <1>3, <1>5, <1>6, <1>7

LEMMA SendCodeOK ==
  ASSUME IInv, NEW r \in Requests, SendCode(r)
  PROVE  IInv'
  <1> DEFINE x == req[r].l
             u == req[r].began + CodeLife
             s == req[r].saw.sent + 1
             k == ToSent(req[r].saw, s, u)
  <1>1. At(r, {"open", "send"}, "code") /\ req[r].saw.sent < MaxCodes /\ End(r)
        /\ UNCHANGED <<now, login, on, stoppedAt, active, changes, wrong, shown>>
    BY DEF SendCode, At
  <1>2. /\ x \in Links /\ link[x] = req[r].saw /\ req[r].saw \in LinkRows /\ link \in [Links -> LinkRows]
        /\ ~req[r].saw.viewed /\ ~req[r].saw.revoked
        /\ shown[x] = <<>> /\ req[r].saw.tries = wrong[x] /\ req[r].began \in Nat /\ req[r].saw.sent \in Nat
    BY <1>1, Opened2
  <1>3. u \in Nat \cup {Never} /\ s \in 0 .. MaxCodes
    <2>1. CodeLife \in Nat /\ MaxCodes \in Nat
      BY ShareAssumption
    <2>2. u \in Nat
      BY <1>2, <2>1
    <2>3. s \in 0 .. MaxCodes
      BY <1>1, <1>2, <2>1
    <2> QED BY <2>2, <2>3
  <1>4. wrong[x] \in Nat
    BY <1>2 DEF IInv, TypeOK
  <1>5. link' = [link EXCEPT ![x] = k]
    BY <1>2 DEF SendCode, ToSent
  <1> HIDE DEF u, s
  <1>6. /\ k \in LinkRows /\ k.tries = req[r].saw.tries /\ k.st = req[r].saw.st /\ k.login = req[r].saw.login
        /\ k.by = req[r].saw.by /\ k.version = req[r].saw.version /\ k.made = req[r].saw.made
        /\ k.viewed = req[r].saw.viewed /\ k.revoked = req[r].saw.revoked
    BY <1>2, <1>3, ToSentRow
  <1> HIDE DEF k
  <1>7. k.tries = wrong'[x] + Len(shown'[x]) /\ shown'[x] = IF k.viewed THEN <<k.version>> ELSE <<>>
    BY <1>1, <1>2, <1>4, <1>6
  <1>8. wrong' \in [Links -> Nat] /\ shown' \in [Links -> Seq(Nat)]
    BY <1>1 DEF IInv, TypeOK
  <1> QED BY <1>1, <1>5, <1>6, <1>7, <1>8, VisitEnds

LEMMA WrongCodeOK ==
  ASSUME IInv, NEW r \in Requests, WrongCode(r)
  PROVE  IInv'
  <1> DEFINE x == req[r].l
             n == req[r].saw.tries + 1
             k == ToTries(req[r].saw, n)
  <1>1. At(r, {"open", "send"}, "code") /\ End(r) /\ wrong' = [wrong EXCEPT ![x] = @ + 1]
        /\ UNCHANGED <<now, login, on, stoppedAt, active, changes, shown>>
    BY DEF WrongCode, At
  <1>2. /\ x \in Links /\ link[x] = req[r].saw /\ req[r].saw \in LinkRows /\ link \in [Links -> LinkRows]
        /\ ~req[r].saw.viewed /\ ~req[r].saw.revoked /\ req[r].saw.tries < MaxAttempts
        /\ shown[x] = <<>> /\ req[r].saw.tries = wrong[x] /\ req[r].saw.tries \in Nat
    BY <1>1, Opened2
  <1>3. n \in 0 .. MaxAttempts
    BY <1>2, ShareAssumption
  <1>4. link' = [link EXCEPT ![x] = k]
    BY <1>2 DEF WrongCode, ToTries
  <1>5. /\ wrong' \in [Links -> Nat] /\ wrong'[x] = wrong[x] + 1 /\ wrong[x] \in Nat /\ shown' \in [Links -> Seq(Nat)]
        /\ \A l \in Links \ {x} : wrong'[l] = wrong[l]
    BY <1>1, <1>2 DEF IInv, TypeOK
  <1>6. n = wrong'[x] + 0
    BY <1>2, <1>5
  <1> HIDE DEF n
  <1>7. /\ k \in LinkRows /\ k.tries = n /\ k.st = req[r].saw.st /\ k.login = req[r].saw.login
        /\ k.by = req[r].saw.by /\ k.version = req[r].saw.version /\ k.made = req[r].saw.made
        /\ k.viewed = req[r].saw.viewed /\ k.revoked = req[r].saw.revoked
    BY <1>2, <1>3, ToTriesRow
  <1> HIDE DEF k
  <1>8. k.tries = wrong'[x] + Len(shown'[x]) /\ shown'[x] = IF k.viewed THEN <<k.version>> ELSE <<>>
    BY <1>1, <1>2, <1>6, <1>7
  <1> QED BY <1>1, <1>4, <1>5, <1>7, <1>8, VisitEnds

LEMMA ShowSecretOK ==
  ASSUME IInv, NEW r \in Requests, ShowSecret(r)
  PROVE  IInv'
  <1> DEFINE x == req[r].l
             n == req[r].saw.tries + 1
             k == ToViewed(req[r].saw, n, Never)
  <1>1. At(r, {"open", "send"}, "code") /\ End(r) /\ login[req[r].saw.login].version = req[r].saw.version
        /\ shown' = [shown EXCEPT ![x] = Append(@, req[r].saw.version)]
        /\ UNCHANGED <<now, login, on, stoppedAt, active, changes, wrong>>
    BY DEF ShowSecret, At
  <1>2. /\ x \in Links /\ link[x] = req[r].saw /\ req[r].saw \in LinkRows /\ link \in [Links -> LinkRows]
        /\ ~req[r].saw.viewed /\ ~req[r].saw.revoked /\ req[r].saw.tries < MaxAttempts
        /\ shown[x] = <<>> /\ req[r].saw.tries = wrong[x] /\ req[r].saw.tries \in Nat /\ req[r].saw.version \in Nat
    BY <1>1, Opened2
  <1>3. n \in 0 .. MaxAttempts /\ Never \in Nat \cup {Never}
    BY <1>2, ShareAssumption
  <1>4. link' = [link EXCEPT ![x] = k]
    BY <1>2 DEF ShowSecret, ToViewed
  <1>5. /\ shown' \in [Links -> Seq(Nat)] /\ shown'[x] = <<req[r].saw.version>> /\ wrong[x] \in Nat /\ wrong' \in [Links -> Nat]
        /\ \A l \in Links \ {x} : shown'[l] = shown[l]
    BY <1>1, <1>2, <1>3 DEF IInv, TypeOK
  <1>6. n = wrong'[x] + 1 /\ Len(shown'[x]) = 1
    BY <1>1, <1>2, <1>5
  <1> HIDE DEF n
  <1>7. /\ k \in LinkRows /\ k.tries = n /\ k.st = req[r].saw.st /\ k.login = req[r].saw.login
        /\ k.by = req[r].saw.by /\ k.version = req[r].saw.version /\ k.made = req[r].saw.made
        /\ k.viewed = TRUE /\ k.revoked = req[r].saw.revoked
    <2>1. ASSUME NEW w \in LinkRows, NEW u \in Nat \cup {Never}
          PROVE  /\ ToViewed(w, n, u) \in LinkRows /\ ToViewed(w, n, u).tries = n
                 /\ ToViewed(w, n, u).st = w.st /\ ToViewed(w, n, u).login = w.login
                 /\ ToViewed(w, n, u).by = w.by /\ ToViewed(w, n, u).version = w.version /\ ToViewed(w, n, u).made = w.made
                 /\ ToViewed(w, n, u).viewed = TRUE /\ ToViewed(w, n, u).revoked = w.revoked
      BY <1>3 DEF ToViewed, LinkRows
    <2> QED BY <1>2, <1>3, <2>1, Zenon
  <1> HIDE DEF k
  <1>8. k.tries = wrong'[x] + Len(shown'[x]) /\ shown'[x] = IF k.viewed THEN <<k.version>> ELSE <<>>
    BY <1>5, <1>6, <1>7
  <1> QED BY <1>1, <1>4, <1>5, <1>7, <1>8, VisitEnds

(* A link is made: with the switch on, by a member who is there, of a login *)
(* nobody seals, and by none of those whose links are being ended.          *)
NewLink(r) ==
  [st |-> "made", login |-> req[r].g, by |-> req[r].m, version |-> login[req[r].g].version, made |-> req[r].began,
   codeUntil |-> Never, sent |-> 0, tries |-> 0, viewed |-> FALSE, revoked |-> FALSE]

LEMMA MakeLinkOK ==
  ASSUME IInv, NEW r \in Requests, NEW x \in Links, MakeLink(r, x)
  PROVE  IInv'
  <1> DEFINE g == req[r].g
             n == NewLink(r)
  <1>1. /\ req[r].op = "make" /\ req[r].pc = "rows" /\ LoginFree(r, g) /\ ~login[g].gone /\ ~login[g].sealed
        /\ link[x] = Unmade /\ link' = [link EXCEPT ![x] = n] /\ End(r)
        /\ UNCHANGED <<now, login, on, stoppedAt, active, changes, wrong, shown>>
    BY DEF MakeLink, At, NewLink
  <1>2. ReqOK(req[r]) /\ req[r] \in ReqRows
    BY Types DEF IInv, Requested
  <1>3. g \in Logins /\ req[r].m \in Members /\ on /\ active[req[r].m] /\ req[r].began \in 0 .. MaxNow /\ req[r].began <= now
        /\ stoppedAt < req[r].began
    BY <1>1, <1>2 DEF ReqOK, Shaped, Making, ReqRows
  <1>4. login[g].version \in 0 .. MaxVersion
    BY <1>3 DEF IInv, TypeOK
  <1>5. n \in LinkRows
    <2>1. 0 \in 0 .. MaxCodes /\ 0 \in 0 .. MaxAttempts /\ Never \in Nat \cup {Never}
      BY ShareAssumption
    <2> QED BY <1>3, <1>4, <2>1, Zenon DEF NewLink, LinkRows
  <1>6. n.st = "made" /\ n.login = g /\ n.by = req[r].m /\ n.version = login[g].version /\ n.made = req[r].began
        /\ n.tries = 0 /\ ~n.viewed /\ ~n.revoked
    BY DEF NewLink
  <1>7. Unmade.st = "none" /\ Unmade.tries = 0 /\ ~Unmade.viewed
    BY DEF Unmade
  <1> HIDE DEF n
  <1>8. link' \in [Links -> LinkRows] /\ link'[x] = n /\ n # Unmade /\ \A l \in Links \ {x} : link'[l] = link[l]
    BY <1>1, <1>5, <1>6, <1>7, Types DEF IInv
  <1>9. x \notin Made /\ Made' = Made \cup {x}
    BY <1>1, <1>8 DEF Made
  <1>10. Linked'
    <2> SUFFICES ASSUME NEW l \in Links PROVE LinkOK(l)'
      BY DEF Linked
    <2>1. LinkOK(l)
      BY DEF IInv, Linked
    <2>2. CASE l = x
      <3>1. shown[x] = <<>> /\ wrong[x] \in Nat /\ 0 = wrong[x] + Len(shown[x])
        BY <1>1, <1>7, <2>1, <2>2 DEF LinkOK, IInv, TypeOK
      <3>2. login[g].version <= login[g].version
        BY <1>4, ShareAssumption
      <3> QED BY <1>1, <1>3, <1>6, <1>8, <2>2, <3>1, <3>2 DEF LinkOK
    <2>3. CASE l # x
      BY <1>1, <1>8, <1>9, <2>1, <2>3 DEF LinkOK
    <2> QED BY <2>2, <2>3
  <1>11. \A l \in Made : l \in Links /\ l # x /\ link'[l] = link[l] /\ (Ended(l) => Ended(l)')
    BY <1>1, <1>8, <1>9 DEF Made, Ended, Unended, InDate, Expires
  <1>12. EndedLinks'
    <2>1. \A l \in Made' : l \in Made \/ l = x
      BY <1>9
    <2> QED BY <1>1, <1>3, <1>6, <1>8, <1>11, <2>1 DEF IInv, EndedLinks
  <1>13. ASSUME NEW q \in Requests \ {r} PROVE Spared(q)
    <2>1. now \in Nat /\ ReqOK(req[q]) /\ req[q] \in ReqRows
      BY ShareAssumption, Types DEF IInv, Requested
    <2>2. Apart(req[r], req[q]) /\ Apart(req[q], req[r])
      BY DEF IInv, Separate
    <2>3. \A l \in Made : Kept(l)
      BY <1>8, <1>11 DEF Kept, Made
    <2>4. x \notin req[q].links
      <3>1. ASSUME x \in req[q].links PROVE x \in Made
        BY <2>1, <3>1 DEF ReqOK, Shaped, Opening, Revoking, ReqRows, Pcs
      <3> QED BY <1>9, <3>1
    <2>5. Unseen(q, x)
      <3>1. req[q].pc # "stamped"
        BY <1>1, <2>2 DEF Apart
      <3>2. ASSUME req[q].op = "seal", req[q].pc = "links" PROVE g # req[q].g
        BY <1>1, <2>1, <3>2 DEF ReqOK, Revoking, LoginFree
      <3>3. ASSUME req[q].op = "remove", req[q].pc \in {"rows", "links"} PROVE req[r].m # req[q].m
        BY <1>1, <1>3, <2>2, <3>3, ShareAssumption DEF Apart
      <3> QED BY <1>6, <1>8, <3>1, <3>2, <3>3 DEF Unseen
    <2>6. \A l \in Links \ Made : link'[l] # Unmade => Unseen(q, l)
      BY <1>8, <2>5 DEF Made
    <2> QED BY <1>1, <1>8, <2>1, <2>3, <2>4, <2>6 DEF Spared, ReqRows
  <1>14. req' \in [Requests -> ReqRows] /\ Requested' /\ Separate'
    <2>1. now' \in Nat
      BY <1>1, ShareAssumption, Types DEF IInv
    <2> QED BY <1>1, <1>13, <2>1, EndOK
  <1>15. TypeOK'
    BY <1>1, <1>8, <1>14, Typed2 DEF IInv, TypeOK
  <1> QED BY <1>10, <1>12, <1>14, <1>15 DEF IInv

(* What was locked is revoked: none of it had been opened or revoked.       *)
LEMMA RevokedOK ==
  ASSUME IInv, NEW S \in SUBSET Links, \A l \in S : l \in Made /\ Unended(l),
         link' = [l \in Links |-> IF l \in S THEN [link[l] EXCEPT !.revoked = TRUE] ELSE link[l]],
         UNCHANGED <<now, wrong, shown>>,
         \A g \in Logins : login'[g].version = login[g].version
  PROVE  /\ Linked' /\ Made' = Made /\ link' \in [Links -> LinkRows]
         /\ \A l \in Made : Kept(l)
         /\ \A l \in Links \ Made : link'[l] = Unmade
         /\ \A l \in Made : Ended(l) => Ended(l)'
         /\ \A l \in S : Ended(l)'
         /\ \A l \in Links \ S : link'[l] = link[l]
  <1>1. ASSUME NEW l \in S
        PROVE  /\ link[l] \in LinkRows /\ link'[l] = ToRevoked(link[l])
               /\ link[l].st = "made" /\ ~link[l].viewed /\ LinkOK(l)
    BY Types DEF IInv, Linked, LinkOK, Made, Unended, ToRevoked
  <1>2. ASSUME NEW l \in S
        PROVE  /\ link'[l] \in LinkRows /\ link'[l].st = "made"
               /\ link'[l].login = link[l].login /\ link'[l].by = link[l].by /\ link'[l].made = link[l].made
               /\ link'[l].version = link[l].version /\ link'[l].tries = link[l].tries
               /\ ~link'[l].viewed /\ link'[l].revoked
    <2>1. ASSUME NEW w \in LinkRows
          PROVE  /\ ToRevoked(w) \in LinkRows /\ ToRevoked(w).st = w.st /\ ToRevoked(w).login = w.login
                 /\ ToRevoked(w).by = w.by /\ ToRevoked(w).made = w.made /\ ToRevoked(w).version = w.version
                 /\ ToRevoked(w).tries = w.tries /\ ToRevoked(w).viewed = w.viewed /\ ToRevoked(w).revoked = TRUE
      BY DEF ToRevoked, LinkRows
    <2>2. /\ link[l] \in LinkRows /\ link'[l] = ToRevoked(link[l])
          /\ link[l].st = "made" /\ ~link[l].viewed
      BY <1>1
    <2>3. /\ ToRevoked(link[l]) \in LinkRows /\ ToRevoked(link[l]).st = link[l].st /\ ToRevoked(link[l]).login = link[l].login
          /\ ToRevoked(link[l]).by = link[l].by /\ ToRevoked(link[l]).made = link[l].made
          /\ ToRevoked(link[l]).version = link[l].version /\ ToRevoked(link[l]).tries = link[l].tries
          /\ ToRevoked(link[l]).viewed = link[l].viewed /\ ToRevoked(link[l]).revoked = TRUE
      BY <2>1, <2>2, Zenon
    <2> QED BY <2>2, <2>3
  <1>3. \A l \in Links \ S : link'[l] = link[l]
    OBVIOUS
  <1>4. link' \in [Links -> LinkRows]
    BY <1>2, Types DEF IInv
  <1>5. ASSUME NEW l \in S
        PROVE  shown'[l] = (IF link'[l].viewed THEN <<link'[l].version>> ELSE <<>>) /\ link'[l].tries = wrong'[l] + Len(shown'[l])
    BY <1>1, <1>2 DEF LinkOK
  <1>6. /\ Linked' /\ Made' = Made
        /\ \A l \in Made : Kept(l)
        /\ \A l \in Links \ Made : link'[l] = Unmade
        /\ \A l \in Made : Ended(l) => Ended(l)'
    <2>1. \A l \in S : /\ l \in Made /\ link'[l].st = "made"
                       /\ link'[l].login = link[l].login /\ link'[l].by = link[l].by /\ link'[l].made = link[l].made
                       /\ link'[l].version = link[l].version
                       /\ (link[l].viewed => link'[l].viewed) /\ (link[l].revoked => link'[l].revoked)
                       /\ shown'[l] = (IF link'[l].viewed THEN <<link'[l].version>> ELSE <<>>)
                       /\ link'[l].tries = wrong'[l] + Len(shown'[l])
                       /\ ~(link'[l].viewed /\ link'[l].revoked)
      BY <1>1, <1>2, <1>5
    <2> QED BY <1>3, <1>4, <2>1, LinksOK
  <1>7. \A l \in S : Ended(l)'
    BY <1>2 DEF Ended, Unended
  <1> QED BY <1>3, <1>4, <1>6, <1>7

LEMMA RevokeLinkOK ==
  ASSUME IInv, NEW x \in Links, RevokeLink(x)
  PROVE  IInv'
  <1>1. /\ x \in Made /\ Unended(x) /\ \A q \in Requests : x \notin req[q].links
        /\ UNCHANGED <<now, login, on, stoppedAt, active, req, changes, wrong, shown>>
    BY DEF RevokeLink, UnlockedLink
  <1>2. link' = [l \in Links |-> IF l \in {x} THEN [link[l] EXCEPT !.revoked = TRUE] ELSE link[l]]
    BY Types DEF RevokeLink, IInv
  <1>3. /\ Linked' /\ Made' = Made /\ link' \in [Links -> LinkRows]
        /\ \A l \in Made : Kept(l)
        /\ \A l \in Links \ Made : link'[l] = Unmade
        /\ \A l \in Links \ {x} : link'[l] = link[l]
    <2>1. {x} \in SUBSET Links /\ \A l \in {x} : l \in Made /\ Unended(l)
      BY <1>1
    <2> QED BY <1>1, <1>2, <2>1, RevokedOK
  <1>4. EndedLinks'
    BY <1>1, <1>3, StillEnded
  <1>5. ASSUME NEW q \in Requests PROVE Spared(q)
    BY <1>1, <1>3, ShareAssumption, Types DEF Spared, IInv, ReqRows
  <1>6. req' \in [Requests -> ReqRows] /\ Requested' /\ Separate'
    BY <1>1, <1>5, NoneOK
  <1>7. TypeOK'
    BY <1>1, <1>3, <1>6, Typed2 DEF IInv, TypeOK
  <1> QED BY <1>3, <1>4, <1>6, <1>7 DEF IInv

(* A seal and a removal, as they commit.                                    *)
LEMMA RevokingEnds ==
  ASSUME IInv, NEW r \in Requests, At(r, {"seal", "remove"}, "links"), req[r].ends = {}, Revoked(r), End(r),
         UNCHANGED <<now, on, stoppedAt, changes, wrong, shown>>,
         login' \in [Logins -> [version : 0 .. MaxVersion, sealed : BOOLEAN, gone : BOOLEAN]],
         \A g \in Logins : /\ login'[g].version = login[g].version
                           /\ login'[g].sealed => login[g].sealed \/ (req[r].op = "seal" /\ g = req[r].g),
         active' \in [Members -> BOOLEAN],
         \A m \in Members : active'[m] <=> active[m] /\ ~(req[r].op = "remove" /\ m = req[r].m)
  PROVE  IInv' /\ \A l \in Made : (Ended(l) => Ended(l)') /\ link'[l].version = link[l].version
  <1>1. ReqOK(req[r]) /\ req[r] \in ReqRows /\ req[r].op \in {"seal", "remove"} /\ req[r].pc = "links"
    BY Types DEF IInv, Requested, At
  <1> DEFINE S == req[r].links
  <1>2. /\ S \in SUBSET Links /\ \A l \in S : l \in Made /\ Unended(l)
        /\ \A l \in Made : Mine(req[r], l) => l \in S \/ Ended(l)
    BY <1>1 DEF ReqOK, Revoking, ReqRows
  <1>3. link' = [l \in Links |-> IF l \in S THEN [link[l] EXCEPT !.revoked = TRUE] ELSE link[l]]
    BY DEF Revoked
  <1> HIDE DEF S
  <1>4. /\ Linked' /\ Made' = Made /\ link' \in [Links -> LinkRows]
        /\ \A l \in Made : Kept(l)
        /\ \A l \in Links \ Made : link'[l] = Unmade
        /\ \A l \in Made : Ended(l) => Ended(l)'
        /\ \A l \in S : Ended(l)'
        /\ \A l \in Links \ S : link'[l] = link[l]
    BY <1>2, <1>3, RevokedOK
  <1>5. EndedLinks'
    <2>1. \A l \in Made : /\ l \in Made' /\ link'[l].login = link[l].login /\ link'[l].by = link[l].by /\ link'[l].made = link[l].made
                          /\ link[l].login \in Logins /\ link[l].by \in Members
      BY <1>4 DEF Kept, IInv, Linked, LinkOK, Made
    <2>2. \A l \in Made : Mine(req[r], l) => Ended(l)'
      BY <1>2, <1>4
    <2>3. \A l \in Made' : login'[link'[l].login].sealed => Ended(l)'
      BY <1>1, <1>4, <2>1, <2>2 DEF IInv, EndedLinks, Mine
    <2>4. \A l \in Made' : ~active'[link'[l].by] => Ended(l)'
      BY <1>1, <1>4, <2>1, <2>2 DEF IInv, EndedLinks, Mine
    <2>5. stoppedAt' <= now' /\ (~on' => \A l \in Made' : link'[l].made <= stoppedAt')
      BY <1>4, <2>1 DEF IInv, EndedLinks
    <2> QED BY <2>3, <2>4, <2>5 DEF EndedLinks
  <1>6. ASSUME NEW q \in Requests \ {r} PROVE Spared(q)
    <2>1. now \in Nat /\ ReqOK(req[q]) /\ req[q] \in ReqRows
      BY ShareAssumption, Types DEF IInv, Requested
    <2>2. Apart(req[r], req[q]) /\ Apart(req[q], req[r])
      BY DEF IInv, Separate
    <2>3. \A l \in req[q].links : link'[l] = link[l]
      BY <1>4, <2>1, <2>2 DEF Apart, ReqRows, S
    <2>4. ASSUME req[q].op = "make", req[q].pc = "rows", active[req[q].m] PROVE active'[req[q].m]
      <3>1. req[q].m \in Members
        BY <2>1, <2>4 DEF ReqOK, Shaped
      <3>2. req[r].op = "remove" => req[q].m # req[r].m
        BY <1>1, <2>2, <2>4, <3>1, ShareAssumption DEF Apart
      <3> QED BY <2>4, <3>1, <3>2
    <2> QED BY <1>4, <2>1, <2>3, <2>4 DEF Spared
  <1>7. req' \in [Requests -> ReqRows] /\ Requested' /\ Separate'
    <2>1. now' \in Nat
      BY ShareAssumption, Types DEF IInv
    <2> QED BY <1>6, <2>1, EndOK
  <1>8. TypeOK'
    BY <1>4, <1>7, Typed2 DEF IInv, TypeOK
  <1>9. \A l \in Made : link'[l].version = link[l].version
    BY <1>2, <1>3, Types, ToRevokedRow DEF IInv, Made, ToRevoked
  <1> QED BY <1>4, <1>5, <1>7, <1>8, <1>9 DEF IInv

LEMMA SealOK ==
  ASSUME IInv, NEW r \in Requests, Seal(r)
  PROVE  IInv'
  <1> DEFINE x == req[r].g
  <1>1. /\ At(r, {"seal", "remove"}, "links") /\ req[r].op = "seal" /\ req[r].ends = {} /\ Revoked(r) /\ End(r)
        /\ login' = [login EXCEPT ![x].sealed = TRUE]
        /\ UNCHANGED <<now, on, stoppedAt, active, changes, wrong, shown>>
    BY DEF Seal, At
  <1>2. login \in [Logins -> [version : 0 .. MaxVersion, sealed : BOOLEAN, gone : BOOLEAN]]
        /\ active \in [Members -> BOOLEAN]
    BY DEF IInv, TypeOK
  <1>3. /\ login' \in [Logins -> [version : 0 .. MaxVersion, sealed : BOOLEAN, gone : BOOLEAN]]
        /\ \A g \in Logins : login'[g].version = login[g].version /\ (login'[g].sealed => login[g].sealed \/ g = x)
    BY <1>1, <1>2
  <1>4. \A g \in Logins : /\ login'[g].version = login[g].version
                          /\ login'[g].sealed => login[g].sealed \/ (req[r].op = "seal" /\ g = req[r].g)
    BY <1>1, <1>3
  <1>5. active' \in [Members -> BOOLEAN] /\ \A m \in Members : active'[m] <=> active[m] /\ ~(req[r].op = "remove" /\ m = req[r].m)
    BY <1>1, <1>2
  <1> QED BY <1>1, <1>3, <1>4, <1>5, RevokingEnds

LEMMA RemoveOK ==
  ASSUME IInv, NEW r \in Requests, Remove(r)
  PROVE  IInv'
  <1>1. /\ At(r, {"seal", "remove"}, "links") /\ req[r].op = "remove" /\ req[r].ends = {} /\ Revoked(r) /\ End(r)
        /\ active' = [active EXCEPT ![req[r].m] = FALSE]
        /\ UNCHANGED <<now, login, on, stoppedAt, changes, wrong, shown>>
    BY DEF Remove, At
  <1>2. login \in [Logins -> [version : 0 .. MaxVersion, sealed : BOOLEAN, gone : BOOLEAN]]
        /\ active \in [Members -> BOOLEAN]
    BY DEF IInv, TypeOK
  <1>3. /\ login' \in [Logins -> [version : 0 .. MaxVersion, sealed : BOOLEAN, gone : BOOLEAN]]
        /\ \A g \in Logins : /\ login'[g].version = login[g].version
                             /\ login'[g].sealed => login[g].sealed \/ (req[r].op = "seal" /\ g = req[r].g)
    BY <1>1, <1>2
  <1>4. active' \in [Members -> BOOLEAN] /\ \A m \in Members : active'[m] <=> active[m] /\ ~(req[r].op = "remove" /\ m = req[r].m)
    BY <1>1, <1>2
  <1> QED BY <1>1, <1>3, <1>4, RevokingEnds

-----------------------------------------------------------------------------
(* A login, the switch, a member, the clock: the links are left alone.      *)
LEMMA RowsOK ==
  ASSUME IInv, UNCHANGED <<link, wrong, shown>>, now <= now', now' \in 0 .. MaxNow,
         login' \in [Logins -> [version : 0 .. MaxVersion, sealed : BOOLEAN, gone : BOOLEAN]],
         \A g \in Logins : login'[g].version >= login[g].version /\ (login'[g].sealed => login[g].sealed),
         on' \in BOOLEAN, stoppedAt' \in 0 .. MaxNow \cup {Never}, stoppedAt' <= now',
         ~on' => \A l \in Made : link[l].made <= stoppedAt',
         active' \in [Members -> BOOLEAN], \A m \in Members : active[m] => active'[m],
         changes' \in 0 .. MaxChanges,
         \A q \in Requests : Sharing(q) => on' = on /\ stoppedAt' = stoppedAt,
         \/ UNCHANGED req
         \/ \E r \in Requests : End(r)
  PROVE  IInv'
  <1>1. now' \in Nat /\ \A g \in Logins : login'[g].version \in Nat
    BY ShareAssumption
  <1>2. /\ Linked' /\ link' \in [Links -> LinkRows] /\ wrong' \in [Links -> Nat] /\ shown' \in [Links -> Seq(Nat)]
        /\ \A l \in Made : Kept(l)
        /\ \A l \in Links \ Made : link'[l] = Unmade
        /\ Made' = Made /\ \A l \in Made : Ended(l) => Ended(l)'
    BY <1>1, SameLinks
  <1>3. ASSUME NEW q \in Requests PROVE Spared(q)
    <2>1. req[q].op = "make" /\ req[q].pc = "rows" => req[q].m \in Members
      BY DEF IInv, Requested, ReqOK, Shaped
    <2> QED BY <1>1, <1>2, <2>1 DEF Spared
  <1>4. req' \in [Requests -> ReqRows] /\ Requested' /\ Separate'
    <2>1. CASE UNCHANGED req
      BY <1>3, <2>1, NoneOK
    <2>2. CASE \E r \in Requests : End(r)
      BY <1>1, <1>3, <2>2, EndOK
    <2> QED BY <2>1, <2>2
  <1>5. EndedLinks'
    <2>1. \A l \in Made : l \in Made' /\ link'[l] = link[l] /\ link[l].login \in Logins /\ link[l].by \in Members
      BY <1>2 DEF IInv, Linked, LinkOK, Made
    <2>2. \A l \in Made' : login'[link'[l].login].sealed => Ended(l)'
      BY <1>2, <2>1 DEF IInv, EndedLinks
    <2>3. \A l \in Made' : ~active'[link'[l].by] => Ended(l)'
      BY <1>2, <2>1 DEF IInv, EndedLinks
    <2> QED BY <1>2, <2>1, <2>2, <2>3 DEF EndedLinks
  <1>6. TypeOK'
    <2>1. TypeOK
      BY DEF IInv
    <2> QED BY <1>2, <1>4, <2>1, Typed2
  <1> QED BY <1>2, <1>4, <1>5, <1>6 DEF IInv

LEMMA ReplaceSecretOK ==
  ASSUME IInv, NEW r \in Requests, ReplaceSecret(r)
  PROVE  IInv'
  <1> DEFINE x == req[r].g
  <1>1. /\ login[x].version < MaxVersion /\ login' = [login EXCEPT ![x].version = @ + 1] /\ End(r)
        /\ UNCHANGED <<now, link, on, stoppedAt, active, changes, wrong, shown>>
    BY DEF ReplaceSecret
  <1>2. TypeOK /\ EndedLinks /\ now \in Nat /\ MaxVersion \in Nat
    BY ShareAssumption, Types DEF IInv
  <1>3. /\ login' \in [Logins -> [version : 0 .. MaxVersion, sealed : BOOLEAN, gone : BOOLEAN]]
        /\ \A g \in Logins : login'[g].version >= login[g].version /\ (login'[g].sealed => login[g].sealed)
    <2>1. login \in [Logins -> [version : 0 .. MaxVersion, sealed : BOOLEAN, gone : BOOLEAN]]
      BY <1>2 DEF TypeOK
    <2>2. ASSUME NEW g \in Logins
          PROVE  /\ login'[g] \in [version : 0 .. MaxVersion, sealed : BOOLEAN, gone : BOOLEAN]
                 /\ login'[g].version >= login[g].version /\ (login'[g].sealed => login[g].sealed)
      BY <1>1, <1>2, <2>1
    <2> QED BY <1>1, <2>1, <2>2
  <1> QED BY <1>1, <1>2, <1>3, RowsOK DEF TypeOK, EndedLinks

LEMMA SwitchOffOK ==
  ASSUME IInv, NEW r \in Requests, SwitchOff(r)
  PROVE  IInv'
  <1>1. /\ req[r].op = "off" /\ req[r].pc = "stamped" /\ on' = FALSE /\ stoppedAt' = req[r].began /\ End(r)
        /\ UNCHANGED <<now, login, link, active, changes, wrong, shown>>
    BY DEF SwitchOff, At
  <1>2. TypeOK /\ ReqOK(req[r]) /\ req[r].began \in 0 .. MaxNow /\ now \in Nat
    BY ShareAssumption, Types DEF IInv, Requested, ReqRows
  <1>3. \A l \in Made : link[l].made <= stoppedAt'
    BY <1>1, <1>2 DEF ReqOK, Stamped
  <1>4. \A q \in Requests : ~Sharing(q)
    BY <1>1 DEF IInv, Separate, Apart, Sharing
  <1>5. stoppedAt' \in 0 .. MaxNow \cup {Never} /\ stoppedAt' <= now' /\ on' \in BOOLEAN
    BY <1>1, <1>2 DEF ReqOK
  <1>6. \A g \in Logins : login'[g].version >= login[g].version
    BY <1>1, <1>2, ShareAssumption DEF TypeOK
  <1> QED BY <1>1, <1>2, <1>3, <1>4, <1>5, <1>6, RowsOK DEF TypeOK

LEMMA SwitchOnOK ==
  ASSUME IInv, SwitchOn
  PROVE  IInv'
  <1>1. TypeOK /\ EndedLinks /\ now \in Nat
    BY ShareAssumption, Types DEF IInv
  <1>2. \A g \in Logins : login'[g].version >= login[g].version
    BY <1>1, ShareAssumption DEF TypeOK, SwitchOn
  <1>3. \A q \in Requests : ~Sharing(q)
    BY DEF SwitchOn, SwitchFree
  <1>4. /\ on' = TRUE /\ UNCHANGED <<now, login, link, stoppedAt, active, req, changes, wrong, shown>>
        /\ stoppedAt' <= now' /\ now <= now'
    BY <1>1 DEF SwitchOn, EndedLinks
  <1>5. /\ login' \in [Logins -> [version : 0 .. MaxVersion, sealed : BOOLEAN, gone : BOOLEAN]]
        /\ now' \in 0 .. MaxNow /\ stoppedAt' \in 0 .. MaxNow \cup {Never}
        /\ active' \in [Members -> BOOLEAN] /\ changes' \in 0 .. MaxChanges
        /\ \A g \in Logins : login'[g].sealed => login[g].sealed
    BY <1>1, <1>4 DEF TypeOK
  <1> QED BY <1>2, <1>3, <1>4, <1>5, RowsOK

LEMMA LoginOK ==
  ASSUME IInv, NEW x \in Logins, Unseal(x) \/ DeleteLogin(x)
  PROVE  IInv'
  <1>1. TypeOK /\ EndedLinks /\ now \in Nat
    BY ShareAssumption, Types DEF IInv
  <1>2. login \in [Logins -> [version : 0 .. MaxVersion, sealed : BOOLEAN, gone : BOOLEAN]]
    BY <1>1 DEF TypeOK
  <1>3. UNCHANGED <<now, link, on, stoppedAt, active, req, wrong, shown>> /\ changes' \in 0 .. MaxChanges
    BY <1>1, ShareAssumption DEF TypeOK, Unseal, DeleteLogin, Changes
  <1>4. /\ login' \in [Logins -> [version : 0 .. MaxVersion, sealed : BOOLEAN, gone : BOOLEAN]]
        /\ \A g \in Logins : login'[g].version = login[g].version /\ (login'[g].sealed => login[g].sealed)
    <2>1. CASE Unseal(x)
      BY <1>2, <2>1 DEF Unseal
    <2>2. CASE DeleteLogin(x)
      BY <1>2, <2>2 DEF DeleteLogin
    <2> QED BY <2>1, <2>2
  <1>5. \A g \in Logins : login'[g].version >= login[g].version
    BY <1>2, <1>4, ShareAssumption
  <1> QED BY <1>1, <1>3, <1>4, <1>5, RowsOK DEF TypeOK, EndedLinks

LEMMA ReactivateOK ==
  ASSUME IInv, NEW m \in Members, Reactivate(m)
  PROVE  IInv'
  <1>1. TypeOK /\ EndedLinks /\ now \in Nat
    BY ShareAssumption, Types DEF IInv
  <1>2. \A g \in Logins : login'[g].version >= login[g].version
    BY <1>1, ShareAssumption DEF TypeOK, Reactivate
  <1>3. active' \in [Members -> BOOLEAN] /\ \A n \in Members : active[n] => active'[n]
    BY <1>1 DEF TypeOK, Reactivate
  <1> QED BY <1>1, <1>2, <1>3, RowsOK DEF Reactivate, TypeOK, EndedLinks

LEMMA TickOK ==
  ASSUME IInv, Tick
  PROVE  IInv'
  <1>1. TypeOK /\ EndedLinks /\ now \in Nat /\ stoppedAt \in 0 .. MaxNow \cup {Never}
    BY ShareAssumption, Types DEF IInv
  <1>2. \A g \in Logins : login'[g].version >= login[g].version
    BY <1>1, ShareAssumption DEF TypeOK, Tick
  <1>3. now <= now' /\ now' \in 0 .. MaxNow /\ stoppedAt' <= now'
    BY <1>1, ShareAssumption DEF Tick, EndedLinks, Never
  <1> QED BY <1>1, <1>2, <1>3, RowsOK DEF Tick, TypeOK, EndedLinks

-----------------------------------------------------------------------------
LEMMA InitOK == Init => IInv
  <1> SUFFICES ASSUME Init PROVE IInv
    OBVIOUS
  <1>1. Made = {}
    BY DEF Init, Made
  <1>2. TypeOK
    BY IdleRow, ShareAssumption DEF Init, TypeOK, ReqRows, Pcs, OpNames
  <1>3. Requested
    BY <1>2, IdleOK DEF Init, Requested
  <1>4. Separate
    BY <1>2, IdleOK DEF Init, Separate
  <1>5. Linked
    <2>1. Unmade.viewed = FALSE /\ Unmade.revoked = FALSE /\ Unmade.tries = 0
      BY DEF Unmade
    <2>2. ASSUME NEW l \in Links PROVE link[l] = Unmade /\ shown[l] = <<>> /\ wrong[l] = 0
      BY DEF Init
    <2>3. Len(<<>>) = 0
      OBVIOUS
    <2>4. ASSUME NEW l \in Links PROVE shown[l] = IF link[l].viewed THEN <<link[l].version>> ELSE <<>>
      BY <2>1, <2>2, Zenon
    <2>5. ASSUME NEW l \in Links PROVE link[l].tries = wrong[l] + Len(shown[l])
      BY <2>1, <2>2, <2>3
    <2>6. ASSUME NEW l \in Links PROVE (link[l] = Unmade \/ link[l].st = "made") /\ ~(link[l].viewed /\ link[l].revoked) /\ l \notin Made
      BY <1>1, <2>1, <2>2
    <2> QED BY <2>4, <2>5, <2>6 DEF Linked, LinkOK
  <1>6. EndedLinks
    BY <1>1 DEF Init, EndedLinks, Never
  <1> QED BY <1>2, <1>3, <1>4, <1>5, <1>6 DEF IInv

LEMMA NextOK == IInv /\ [Next]_vars => IInv'
  <1> SUFFICES ASSUME IInv, [Next]_vars PROVE IInv'
    OBVIOUS
  <1>1. ASSUME NEW r \in Requests, Asks(r) PROVE IInv'
    BY <1>1, AsksOK
  <1>2. ASSUME NEW r \in Requests, Steps(r) PROVE IInv'
    BY <1>2, GiveUpOK, HoldSwitchOK, HoldKeyOK, MakeLinkOK, LockLinkOK, ReadsOK, SendCodeOK, WrongCodeOK, ShowSecretOK,
       HoldLeaversKeyOK, LockRowOK, BeginRevokingOK, RevokeNextOK, SealOK, RemoveOK, ReplaceSecretOK, SwitchOffOK DEF Steps
  <1>3. ASSUME UNCHANGED vars PROVE IInv'
    <2>1. TypeOK /\ EndedLinks /\ now \in Nat
      BY ShareAssumption, Types DEF IInv
    <2>2. \A g \in Logins : login'[g].version >= login[g].version
      BY <1>3, <2>1, ShareAssumption DEF TypeOK, vars
    <2> QED BY <1>3, <2>1, <2>2, RowsOK DEF vars, TypeOK, EndedLinks
  <1> QED BY <1>1, <1>2, <1>3, RevokeLinkOK, LoginOK, ReactivateOK, TickOK, SwitchOnOK DEF Next

-----------------------------------------------------------------------------
(* No link's row and no login's row is ever locked by two requests, and     *)
(* every row and every request is of its kind.                              *)
THEOREM Typed == Spec => []TypeOK
  <1>1. IInv => TypeOK
    BY DEF IInv
  <1> QED BY <1>1, InitOK, NextOK, PTL DEF Spec

(* A link shows its secret once, the version it was made for, whoever opens *)
(* it beside another, and every answer about a code is counted.             *)
THEOREM Opened == Spec => []OpenedOnce
  <1>1. IInv => OpenedOnce
    BY DEF IInv, Linked, LinkOK, OpenedOnce
  <1> QED BY <1>1, InitOK, NextOK, PTL DEF Spec

-----------------------------------------------------------------------------
(* The life of a link.  One that waits is in date and was not stopped.      *)
LEMMA Waits ==
  ASSUME IInv, NEW l \in Made
  PROVE  /\ l \in Links /\ link[l] \in LinkRows /\ link[l].made \in Nat /\ link[l].version \in Nat /\ link[l].sent \in Nat
         /\ link[l].tries \in Nat /\ link[l].codeUntil \in Nat \cup {Never}
         /\ link[l].login \in Logins /\ link[l].by \in Members /\ link[l].version <= login[link[l].login].version
         /\ now \in Nat /\ stoppedAt \in Nat \cup {Never} /\ stoppedAt <= now
         /\ \A v : Waiting(link[l], v, now) => ~Ended(l)
         /\ \A v : ~on => ~Waiting(link[l], v, now)
  <1>1. l \in Links /\ link[l] \in LinkRows /\ now \in Nat /\ stoppedAt \in Nat \cup {Never} /\ stoppedAt <= now
    BY ShareAssumption, Types DEF IInv, EndedLinks, Made
  <1>2. /\ link[l].made \in Nat /\ link[l].version \in Nat /\ link[l].sent \in Nat
        /\ link[l].tries \in Nat /\ link[l].codeUntil \in Nat \cup {Never}
    BY <1>1, ShareAssumption DEF LinkRows
  <1>3. link[l].login \in Logins /\ link[l].by \in Members /\ link[l].version <= login[link[l].login].version
    BY <1>1 DEF IInv, Linked, LinkOK
  <1>4. \A v : Waiting(link[l], v, now) => ~Ended(l)
    BY DEF Waiting, Lives, Ended, Unended, InDate
  <1>5. \A v : ~on => ~Waiting(link[l], v, now)
    <2>1. ~on => link[l].made <= stoppedAt
      BY DEF IInv, EndedLinks
    <2> QED BY <1>1, <1>2, <2>1, ShareAssumption DEF Waiting, Lives, Stopped, Expires, Never
  <1> QED BY <1>1, <1>2, <1>3, <1>4, <1>5

LEMMA NoneLeft == IInv => NoneLeftOpen
  <1> SUFFICES ASSUME IInv, NEW l \in Made, Waiting(link[l], login[link[l].login].version, now)
               PROVE  on /\ ~login[link[l].login].sealed /\ active[link[l].by]
    BY DEF NoneLeftOpen
  <1>1. ~Ended(l) /\ on
    BY Waits
  <1> QED BY <1>1 DEF IInv, EndedLinks

(* Dead it stays.                                                           *)
StaysDead(l) == Alive(l, now)' => Alive(l, now)

(* A link left as it was, while nothing that ended it is taken back.        *)
LEMMA SameDead ==
  ASSUME IInv, NEW l \in Made, link'[l] = link[l], now <= now', now' \in Nat, stoppedAt' = stoppedAt, on' => on,
         LET g == link[l].login
         IN  \/ login'[g].version = login[g].version /\ (login[g].sealed => login'[g].sealed) /\ (login[g].gone => login'[g].gone)
             \/ login'[g].version > login[g].version
             \/ login'[g].gone
  PROVE  StaysDead(l)
  <1>1. /\ link[l].made \in Nat /\ link[l].version \in Nat /\ link[l].sent \in Nat /\ link[l].codeUntil \in Nat \cup {Never}
        /\ link[l].login \in Logins /\ link[l].version <= login[link[l].login].version /\ now \in Nat
    BY Waits
  <1>2. login[link[l].login].version \in Nat
    BY <1>1, ShareAssumption DEF IInv, TypeOK
  <1>3. login'[link[l].login].version > login[link[l].login].version => ~Alive(l, now)'
    <2> SUFFICES ASSUME login'[link[l].login].version > login[link[l].login].version, Alive(l, now)' PROVE FALSE
      OBVIOUS
    <2>1. login'[link[l].login].version = link[l].version
      BY DEF Alive, Waiting
    <2> QED BY <1>1, <1>2, <2>1
  <1>4. login'[link[l].login].gone => ~Alive(l, now)'
    BY DEF Alive
  <1>5. ASSUME login'[link[l].login].version = login[link[l].login].version, login[link[l].login].sealed => login'[link[l].login].sealed,
               login[link[l].login].gone => login'[link[l].login].gone, Alive(l, now)'
        PROVE  Alive(l, now)
    <2>1. Lives(link[l], now)' /\ on /\ ~login[link[l].login].sealed /\ ~login[link[l].login].gone
          /\ login[link[l].login].version = link[l].version
      BY <1>5 DEF Alive, Waiting
    <2>2. Lives(link[l], now)
      <3>1. CodesSpent(link[l], now) => CodesSpent(link[l], now')
        BY <1>1 DEF CodesSpent, Never
      <3>2. now' < Expires(link[l]) => now < Expires(link[l])
        BY <1>1, ShareAssumption DEF Expires
      <3>3. Lives(link[l], now') /\ (Stopped(link[l])' <=> Stopped(link[l]))
        BY <2>1 DEF Lives, Stopped, CodesSpent, Expires
      <3> QED BY <3>1, <3>2, <3>3 DEF Lives
    <2> QED BY <2>1, <2>2 DEF Alive, Waiting
  <1> QED BY <1>3, <1>4, <1>5 DEF StaysDead

(* Opened or revoked.                                                       *)
LEMMA OverDead ==
  ASSUME NEW l, link'[l].viewed \/ link'[l].revoked
  PROVE  StaysDead(l)
  BY DEF StaysDead, Alive, Waiting, Lives

(* A code mailed while one may still be, or a check that counts.            *)
LEMMA WriteDead ==
  ASSUME IInv, NEW x \in Made, UNCHANGED <<now, login, on, stoppedAt>>,
         link'[x].made = link[x].made, link'[x].login = link[x].login, link'[x].version = link[x].version,
         link'[x].viewed = link[x].viewed, link'[x].revoked = link[x].revoked,
         link'[x].tries < MaxAttempts => link[x].tries < MaxAttempts,
         \/ link[x].sent < MaxCodes
         \/ link'[x].sent = link[x].sent /\ link'[x].codeUntil = link[x].codeUntil
  PROVE  StaysDead(x)
  <1> SUFFICES ASSUME Alive(x, now)' PROVE Alive(x, now)
    BY DEF StaysDead
  <1>1. /\ link[x].made \in Nat /\ link[x].sent \in Nat /\ now \in Nat /\ stoppedAt \in Nat \cup {Never} /\ stoppedAt <= now
        /\ Life \in Nat /\ MaxCodes \in Nat
    BY Waits, ShareAssumption
  <1>2. /\ on /\ ~login[link[x].login].sealed /\ ~login[link[x].login].gone
        /\ login[link[x].login].version = link[x].version
        /\ ~link[x].viewed /\ ~link[x].revoked /\ link[x].tries < MaxAttempts
        /\ now < link[x].made + Life
    BY DEF Alive, Waiting, Lives, Expires
  <1>3. /\ ~(link'[x].sent >= MaxCodes /\ link'[x].codeUntil <= now)
        /\ ~(link[x].made <= stoppedAt /\ (link'[x].sent >= MaxCodes /\ link'[x].codeUntil <= stoppedAt))
        /\ ~(link[x].made <= stoppedAt /\ link[x].made + Life > stoppedAt)
    BY DEF Alive, Waiting, Lives, Stopped, CodesSpent, Expires
  <1>4. ~CodesSpent(link[x], now) /\ ~Stopped(link[x])
    <2>1. CASE link[x].sent < MaxCodes
      <3>1. ~(link[x].sent >= MaxCodes)
        BY <1>1, <2>1
      <3> QED BY <1>3, <3>1 DEF CodesSpent, Stopped, Expires
    <2>2. CASE link'[x].sent = link[x].sent /\ link'[x].codeUntil = link[x].codeUntil
      BY <1>3, <2>2 DEF CodesSpent, Stopped, Expires
    <2> QED BY <2>1, <2>2
  <1> QED BY <1>2, <1>4 DEF Alive, Waiting, Lives, Expires

(* A visitor's answer, at the link it has locked.                           *)
LEMMA VisitDead ==
  ASSUME IInv, NEW r \in Requests, SendCode(r) \/ WrongCode(r) \/ ShowSecret(r), NEW l \in Made
  PROVE  StaysDead(l)
  <1> DEFINE x == req[r].l
  <1>1. /\ At(r, {"open", "send"}, "code") /\ UNCHANGED <<now, login, on, stoppedAt>>
        /\ \A y \in Links : y # x => link'[y] = link[y]
    <2>1. link \in [Links -> LinkRows]
      BY Types DEF IInv
    <2> QED BY <2>1 DEF SendCode, WrongCode, ShowSecret, At
  <1>2. /\ x \in Links /\ link[x] = req[r].saw /\ req[r].saw \in LinkRows /\ link \in [Links -> LinkRows]
        /\ ~req[r].saw.viewed /\ ~req[r].saw.revoked /\ req[r].saw.tries < MaxAttempts /\ req[r].saw.tries \in Nat
        /\ req[r].began \in Nat /\ req[r].saw.sent \in Nat
    BY <1>1, Opened2
  <1>3. l \in Links /\ now \in Nat /\ link[l].made \in Nat /\ stoppedAt \in Nat \cup {Never} /\ stoppedAt <= now
    BY Waits
  <1>4. CASE l # x
    BY <1>1, <1>3, <1>4, SameDead
  <1>5. CASE l = x /\ ShowSecret(r)
    <2>1. link'[x].viewed
      BY <1>2, <1>5 DEF ShowSecret, LinkRows
    <2> QED BY <1>5, <2>1, OverDead
  <1>6. CASE l = x /\ WrongCode(r)
    <2>1. link' = [link EXCEPT ![x] = ToTries(link[x], req[r].saw.tries + 1)]
      BY <1>2, <1>6 DEF WrongCode, ToTries
    <2>2. link'[x] = ToTries(req[r].saw, req[r].saw.tries + 1) /\ req[r].saw.tries + 1 \in 0 .. MaxAttempts
      BY <1>2, <2>1, ShareAssumption
    <2>3. /\ link'[x].made = link[x].made /\ link'[x].login = link[x].login /\ link'[x].version = link[x].version
          /\ link'[x].viewed = link[x].viewed /\ link'[x].revoked = link[x].revoked
          /\ link'[x].sent = link[x].sent /\ link'[x].codeUntil = link[x].codeUntil
      BY <1>2, <2>2, ToTriesRow
    <2> QED BY <1>1, <1>2, <1>6, <2>3, WriteDead
  <1>7. CASE l = x /\ SendCode(r)
    <2> DEFINE s == req[r].saw.sent + 1
               u == req[r].began + CodeLife
    <2>1. link' = [link EXCEPT ![x] = ToSent(link[x], s, u)] /\ link[x].sent < MaxCodes
      BY <1>2, <1>7 DEF SendCode, ToSent
    <2>2. s \in 0 .. MaxCodes /\ u \in Nat \cup {Never}
      BY <1>2, <2>1, ShareAssumption
    <2> HIDE DEF s, u
    <2>3. link'[x] = ToSent(req[r].saw, s, u)
      BY <1>2, <2>1
    <2>4. /\ link'[x].made = link[x].made /\ link'[x].login = link[x].login /\ link'[x].version = link[x].version
          /\ link'[x].viewed = link[x].viewed /\ link'[x].revoked = link[x].revoked /\ link'[x].tries = link[x].tries
      BY <1>2, <2>2, <2>3, ToSentRow
    <2> QED BY <1>1, <1>7, <2>1, <2>4, WriteDead
  <1> QED BY <1>4, <1>5, <1>6, <1>7

(* What was locked is revoked, and nothing is unsealed.                     *)
LEMMA RevokedDead ==
  ASSUME IInv, NEW S \in SUBSET Links, UNCHANGED <<now, on, stoppedAt>>, NEW l \in Made,
         link' = [y \in Links |-> IF y \in S THEN [link[y] EXCEPT !.revoked = TRUE] ELSE link[y]],
         \A g \in Logins : /\ login'[g].version = login[g].version
                           /\ login[g].sealed => login'[g].sealed
                           /\ login[g].gone => login'[g].gone
  PROVE  StaysDead(l)
  <1>1. l \in Links /\ link[l] \in LinkRows /\ now \in Nat /\ link[l].login \in Logins
    BY Waits
  <1>2. CASE l \in S
    <2>1. link'[l].revoked
      BY <1>1, <1>2 DEF LinkRows
    <2> QED BY <2>1, OverDead
  <1>3. CASE l \notin S
    <2>1. /\ link'[l] = link[l] /\ now <= now' /\ now' \in Nat /\ login'[link[l].login].version = login[link[l].login].version
          /\ (login[link[l].login].sealed => login'[link[l].login].sealed)
          /\ (login[link[l].login].gone => login'[link[l].login].gone)
      BY <1>1, <1>3
    <2> QED BY <2>1, SameDead
  <1> QED BY <1>2, <1>3

(* The switch turned on again, a seal lifted.                               *)
LEMMA SwitchOnDead ==
  ASSUME IInv, SwitchOn, NEW l \in Made
  PROVE  StaysDead(l)
  <1>1. \A v : ~Waiting(link[l], v, now)
    BY Waits DEF SwitchOn
  <1>2. UNCHANGED <<now, link, stoppedAt>>
    BY DEF SwitchOn
  <1>3. Waiting(link[l], login[link[l].login].version, now)' => Waiting(link[l], login'[link[l].login].version, now)
    BY <1>2 DEF Waiting, Lives, Stopped, CodesSpent, Expires
  <1> QED BY <1>1, <1>3 DEF StaysDead, Alive

LEMMA LoginDead ==
  ASSUME IInv, NEW x \in Logins, Unseal(x) \/ DeleteLogin(x), NEW l \in Made
  PROVE  StaysDead(l)
  <1>1. /\ login \in [Logins -> [version : 0 .. MaxVersion, sealed : BOOLEAN, gone : BOOLEAN]]
        /\ now \in Nat /\ link[l].login \in Logins
    BY Waits DEF IInv, TypeOK
  <1>2. UNCHANGED <<now, link, on, stoppedAt>>
    BY DEF Unseal, DeleteLogin
  <1>3. CASE link[l].login # x
    <2>1. login'[link[l].login] = login[link[l].login]
      BY <1>1, <1>3 DEF Unseal, DeleteLogin
    <2> QED BY <1>1, <1>2, <2>1, SameDead
  <1>4. CASE link[l].login = x /\ DeleteLogin(x)
    <2>1. login'[x].gone
      BY <1>1, <1>4 DEF DeleteLogin
    <2> QED BY <1>1, <1>2, <1>4, <2>1, SameDead
  <1>5. CASE link[l].login = x /\ Unseal(x)
    <2>1. Ended(l)
      BY <1>5 DEF Unseal, IInv, EndedLinks
    <2>2. \A v : ~Waiting(link[l], v, now)'
      BY <1>2, <2>1 DEF Ended, Unended, InDate, Waiting, Lives, Expires
    <2> QED BY <2>2 DEF StaysDead, Alive
  <1> QED BY <1>3, <1>4, <1>5

(* A new secret, the switch turned off, and the clock.                      *)
LEMMA ReplaceDead ==
  ASSUME IInv, NEW r \in Requests, ReplaceSecret(r), NEW l \in Made
  PROVE  StaysDead(l)
  <1>1. /\ login \in [Logins -> [version : 0 .. MaxVersion, sealed : BOOLEAN, gone : BOOLEAN]]
        /\ now \in Nat /\ link[l].login \in Logins
    BY Waits DEF IInv, TypeOK
  <1>2. UNCHANGED <<now, link, on, stoppedAt>> /\ login' = [login EXCEPT ![req[r].g].version = @ + 1]
    BY DEF ReplaceSecret
  <1>3. \A g \in Logins : login[g].version \in Nat
    BY <1>1, ShareAssumption
  <1>4. CASE link[l].login = req[r].g
    <2>1. login'[link[l].login].version > login[link[l].login].version
      BY <1>1, <1>2, <1>3, <1>4
    <2> QED BY <1>1, <1>2, <2>1, SameDead
  <1>5. CASE link[l].login # req[r].g
    <2>1. login'[link[l].login] = login[link[l].login]
      BY <1>1, <1>2, <1>5
    <2> QED BY <1>1, <1>2, <2>1, SameDead
  <1> QED BY <1>4, <1>5

LEMMA RestDead ==
  ASSUME IInv, UNCHANGED <<login, link>>, NEW l \in Made,
         \/ ~on'
         \/ UNCHANGED <<on, stoppedAt>> /\ now <= now' /\ now' \in Nat
  PROVE  StaysDead(l)
  <1>1. CASE ~on'
    BY <1>1 DEF StaysDead, Alive
  <1>2. CASE UNCHANGED <<on, stoppedAt>> /\ now <= now' /\ now' \in Nat
    BY <1>2, SameDead
  <1> QED BY <1>1, <1>2

(* A link is born alive.                                                    *)
LEMMA Birth ==
  ASSUME IInv, NEW r \in Requests, NEW x \in Links, MakeLink(r, x)
  PROVE  /\ Alive(x, link[x].made)' /\ active'[link'[x].by]
         /\ \A l \in Links \ {x} : link'[l] = link[l]
  <1> DEFINE g == req[r].g
  <1>1. /\ req[r].op = "make" /\ req[r].pc = "rows" /\ ~login[g].gone /\ ~login[g].sealed
        /\ link' = [link EXCEPT ![x] = NewLink(r)]
        /\ UNCHANGED <<now, login, on, stoppedAt, active>>
    BY DEF MakeLink, At, NewLink
  <1>2. on /\ active[req[r].m] /\ req[r].began \in Nat /\ stoppedAt < req[r].began
    BY <1>1, ShareAssumption, Types DEF IInv, Requested, ReqOK, Making, ReqRows
  <1>3. link'[x] = NewLink(r) /\ \A l \in Links \ {x} : link'[l] = link[l]
    BY <1>1, Types DEF IInv
  <1>4. /\ link'[x].login = g /\ link'[x].by = req[r].m /\ link'[x].version = login[g].version /\ link'[x].made = req[r].began
        /\ link'[x].sent = 0 /\ link'[x].tries = 0 /\ link'[x].viewed = FALSE /\ link'[x].revoked = FALSE
    BY <1>3 DEF NewLink
  <1>5. Life \in Nat \ {0} /\ MaxCodes \in Nat \ {0} /\ MaxAttempts \in Nat \ {0} /\ stoppedAt \in Nat \cup {Never}
    BY ShareAssumption, Types DEF IInv
  <1>6. Lives(link[x], link[x].made)'
    <2>1. ~(0 >= MaxCodes) /\ 0 < MaxAttempts /\ req[r].began < req[r].began + Life /\ ~(req[r].began <= stoppedAt)
      BY <1>2, <1>5 DEF Never
    <2> QED BY <1>1, <1>4, <2>1 DEF Lives, Stopped, CodesSpent, Expires
  <1> QED BY <1>1, <1>2, <1>3, <1>4, <1>6 DEF Alive, Waiting

(* What a step does to the life of the links.                               *)
Ages == \A l \in Links : IF l \in Made THEN ~Alive(l, now) => ~Alive(l, now)'
                                       ELSE l \in Made' => Alive(l, link[l].made)' /\ active'[link'[l].by]

LEMMA AgesWhen ==
  ASSUME \A l \in Made : StaysDead(l), \A l \in Links \ Made : link'[l] = Unmade
  PROVE  Ages
  BY DEF Ages, StaysDead, Made

LEMMA SameAges ==
  ASSUME IInv, UNCHANGED link, \A l \in Made : StaysDead(l)
  PROVE  Ages
  BY AgesWhen DEF Made

LEMMA StepAges ==
  ASSUME IInv, [Next]_vars
  PROVE  Ages
  <1>0. now \in Nat
    BY ShareAssumption, Types DEF IInv
  <1>1. ASSUME UNCHANGED <<login, link, on, stoppedAt>>, now <= now', now' \in Nat PROVE Ages
    BY <1>1, RestDead, SameAges
  <1>2. ASSUME NEW r \in Requests, Asks(r) PROVE Ages
    BY <1>0, <1>1, <1>2 DEF Asks, AskMake, AskReplace, Visit, AskSeal, AskRemove, StampOff, Ask
  <1>3. ASSUME NEW r \in Requests, Steps(r) PROVE Ages
    <2>1. CASE \/ GiveUp(r) \/ HoldSwitch(r) \/ HoldKey(r) \/ LockLink(r) \/ ReadPreferences(r) \/ ReadLogin(r)
               \/ HoldLeaversKey(r) \/ (\E g \in Logins : LockRow(r, g)) \/ BeginRevoking(r)
               \/ (\E l \in Links : RevokeNext(r, l))
      <3>1. UNCHANGED <<now, login, link, on, stoppedAt>>
        BY <2>1, Zenon DEF GiveUp, HoldSwitch, HoldKey, LockLink, ReadPreferences, ReadLogin, HoldLeaversKey, LockRow,
           BeginRevoking, RevokeNext
      <3>2. now <= now' /\ now' \in Nat
        BY <1>0, <3>1
      <3> QED BY <1>1, <3>1, <3>2
    <2>2. CASE \E x \in Links : MakeLink(r, x)
      <3>1. PICK x \in Links : MakeLink(r, x)
        BY <2>2
      <3>2. x \notin Made /\ UNCHANGED <<now, login, on, stoppedAt>>
        BY <3>1 DEF MakeLink, Made
      <3>3. ASSUME NEW l \in Made PROVE StaysDead(l)
        <4>1. link'[l] = link[l] /\ now' \in Nat /\ now <= now'
          BY <1>0, <3>1, <3>2, Birth DEF Made
        <4> QED BY <3>2, <4>1, SameDead
      <3>4. \A l \in Links \ Made : l # x => link'[l] = Unmade
        BY <3>1, Birth DEF Made
      <3>5. Alive(x, link[x].made)' /\ active'[link'[x].by]
        BY <3>1, Birth
      <3> QED BY <3>3, <3>4, <3>5 DEF Ages, StaysDead, Made
    <2>3. CASE SendCode(r) \/ WrongCode(r) \/ ShowSecret(r)
      <3>1. \A l \in Made : StaysDead(l)
        BY <2>3, VisitDead
      <3>2. At(r, {"open", "send"}, "code") /\ req[r].l \in Made
        BY <2>3 DEF SendCode, WrongCode, ShowSecret, At, IInv, Requested, ReqOK, Shaped
      <3>3. \A l \in Links \ {req[r].l} : link'[l] = link[l]
        BY <2>3, Types DEF SendCode, WrongCode, ShowSecret, IInv
      <3> QED BY <3>1, <3>2, <3>3, AgesWhen DEF Made
    <2>4. CASE Seal(r) \/ Remove(r)
      <3> DEFINE S == req[r].links
      <3>1. /\ At(r, {"seal", "remove"}, "links") /\ Revoked(r) /\ UNCHANGED <<now, on, stoppedAt>>
            /\ login' = login \/ login' = [login EXCEPT ![req[r].g].sealed = TRUE]
        BY <2>4 DEF Seal, Remove, At
      <3>2. ReqOK(req[r]) /\ S \in SUBSET Links
        BY Types DEF IInv, Requested, ReqRows
      <3>3. \A l \in S : l \in Made
        BY <3>1, <3>2 DEF ReqOK, Revoking, At
      <3>4. login \in [Logins -> [version : 0 .. MaxVersion, sealed : BOOLEAN, gone : BOOLEAN]]
        BY DEF IInv, TypeOK
      <3>5. \A g \in Logins : /\ login'[g].version = login[g].version
                              /\ login[g].sealed => login'[g].sealed
                              /\ login[g].gone => login'[g].gone
        BY <3>1, <3>4
      <3>6. link' = [y \in Links |-> IF y \in S THEN [link[y] EXCEPT !.revoked = TRUE] ELSE link[y]]
        BY <3>1 DEF Revoked
      <3> HIDE DEF S
      <3>7. \A l \in Made : StaysDead(l)
        BY <3>1, <3>2, <3>5, <3>6, RevokedDead
      <3> QED BY <3>3, <3>6, <3>7, AgesWhen DEF Made
    <2>5. CASE ReplaceSecret(r)
      BY <2>5, ReplaceDead, SameAges DEF ReplaceSecret
    <2>6. CASE SwitchOff(r)
      BY <2>6, RestDead, SameAges DEF SwitchOff
    <2> QED BY <1>3, <2>1, <2>2, <2>3, <2>4, <2>5, <2>6 DEF Steps
  <1>4. ASSUME NEW x \in Links, RevokeLink(x) PROVE Ages
    <2>1. x \in Made /\ UNCHANGED <<now, login, on, stoppedAt>> /\ {x} \in SUBSET Links
      BY <1>4 DEF RevokeLink
    <2>2. link' = [y \in Links |-> IF y \in {x} THEN [link[y] EXCEPT !.revoked = TRUE] ELSE link[y]]
      BY <1>4, Types DEF RevokeLink, IInv
    <2>3. \A l \in Made : StaysDead(l)
      BY <2>1, <2>2, RevokedDead
    <2> QED BY <2>1, <2>2, <2>3, AgesWhen DEF Made
  <1>5. ASSUME NEW g \in Logins, Unseal(g) \/ DeleteLogin(g) PROVE Ages
    BY <1>5, LoginDead, SameAges DEF Unseal, DeleteLogin
  <1>6. ASSUME NEW m \in Members, Reactivate(m) PROVE Ages
    BY <1>0, <1>1, <1>6 DEF Reactivate
  <1>7. ASSUME Tick PROVE Ages
    BY <1>0, <1>1, <1>7 DEF Tick
  <1>8. ASSUME SwitchOn PROVE Ages
    BY <1>8, SwitchOnDead, SameAges DEF SwitchOn
  <1>9. ASSUME UNCHANGED vars PROVE Ages
    BY <1>0, <1>1, <1>9 DEF vars
  <1> QED BY <1>2, <1>3, <1>4, <1>5, <1>6, <1>7, <1>8, <1>9 DEF Next

(* A link is born alive; dead, nothing revives it; and none outlives a      *)
(* switch-off, a seal or a removal.                                         *)
THEOREM Lifetime == Spec => LinkLifetime
  <1>1. IInv => NoneLeftOpen
    BY NoneLeft
  <1>2. IInv /\ [Next]_vars => [Ages]_vars
    BY StepAges
  <1>3. Spec => [][Ages]_vars
    BY <1>2, InitOK, NextOK, PTL DEF Spec
  <1>4. Spec => []NoneLeftOpen
    BY <1>1, InitOK, NextOK, PTL DEF Spec
  <1> QED BY <1>3, <1>4 DEF LinkLifetime, Ages

-----------------------------------------------------------------------------
(* Nobody waits at a read, nor to write what is stamped; at its links what  *)
(* ends them is kept off by none, as nobody is at a link's row; at a link,  *)
(* at the switch, and so on down, once none is ahead.                       *)
LEMMA SomeoneGoesOn == IInv => NoDeadlock
  <1> SUFFICES ASSUME IInv, NEW a \in Requests, req[a].pc # "idle",
                      \A r \in Requests : req[r].pc # "idle" => ~CanGoOn(r)
               PROVE  FALSE
    BY DEF NoDeadlock
  <1>1. ASSUME NEW r \in Requests
        PROVE  req[r] \in ReqRows /\ req[r].pc \in Pcs /\ ReqOK(req[r]) /\ \A q \in Requests \ {r} : Apart(req[r], req[q])
    BY Types DEF IInv, Requested, Separate, ReqRows
  <1>2. ASSUME NEW r \in Requests PROVE req[r].pc \notin {"prefs", "login", "code", "stamped"}
    BY <1>2 DEF CanGoOn, At
  <1>3. ASSUME NEW r \in Requests PROVE req[r].pc # "links"
    <2> SUFFICES ASSUME req[r].pc = "links" PROVE FALSE
      OBVIOUS
    <2>1. PICK l \in req[r].ends : ~LinkFree(r, l)
      BY DEF CanGoOn, At
    <2>2. PICK q \in Requests \ {r} : l \in req[q].links
      BY <2>1 DEF LinkFree
    <2>3. req[q].pc = "links"
      BY <1>1, <1>2, <2>2 DEF ReqOK, Shaped
    <2>4. /\ req[r].op \in {"seal", "remove"} /\ req[q].op \in {"seal", "remove"}
          /\ l \in Made /\ link[l].login \in req[r].rows /\ link[l].login \in req[q].rows
      BY <1>1, <2>1, <2>2, <2>3 DEF ReqOK, Shaped, Revoking
    <2> QED BY <1>1, <2>2, <2>4 DEF Apart
  <1>4. ASSUME NEW r \in Requests PROVE req[r].links = {}
    BY <1>1, <1>2, <1>3 DEF ReqOK, Shaped
  <1>5. ASSUME NEW r \in Requests PROVE req[r].pc # "link"
    BY <1>4 DEF CanGoOn, LinkFree, At
  <1>6. ASSUME NEW r \in Requests PROVE req[r].pc # "switch"
    BY <1>2 DEF CanGoOn, Switching, At
  <1>7. ASSUME NEW r \in Requests PROVE req[r].pc \in {"idle", "key", "rows"}
    BY <1>1, <1>2, <1>3, <1>5, <1>6 DEF Pcs
  (* Who holds a login's row, waiting for another, is the one removal.       *)
  <1>8. ASSUME NEW r \in Requests, NEW g, ~LoginFree(r, g), req[r].pc = "rows"
        PROVE  \E q \in Requests \ {r} : g \in req[q].rows /\ req[q].op = "remove" /\ req[q].pc = "rows"
    <2>1. PICK q \in Requests \ {r} : g \in req[q].rows
      BY <1>8 DEF LoginFree
    <2>2. req[q].pc = "rows" /\ req[q].op \in {"seal", "remove"}
      BY <1>1, <1>7, <2>1 DEF ReqOK, Shaped
    <2>3. CASE req[q].op = "seal"
      <3>1. req[q].want \cup req[q].rows = {req[q].g}
        BY <1>1, <2>2, <2>3 DEF ReqOK, Revoking
      <3>2. \A h \in req[q].want : h = g
        BY <2>1, <3>1
      <3>3. PICK h \in req[q].want : ~LoginFree(q, h)
        BY <2>2, <2>3 DEF CanGoOn, At
      <3>4. PICK p \in Requests \ {q} : g \in req[p].rows
        BY <3>2, <3>3 DEF LoginFree
      <3> QED BY <1>1, <2>1, <3>4 DEF Apart
    <2> QED BY <2>1, <2>2, <2>3
  <1>9. ASSUME NEW r \in Requests PROVE req[r].pc # "rows"
    <2> SUFFICES ASSUME req[r].pc = "rows" PROVE FALSE
      OBVIOUS
    <2>1. req[r].op \in {"make", "replace", "seal", "remove"}
      BY <1>1 DEF ReqOK, Shaped
    <2>2. \E g : ~LoginFree(r, g)
      BY <2>1 DEF CanGoOn, At
    <2>3. PICK q \in Requests \ {r} : req[q].op = "remove" /\ req[q].pc = "rows"
      BY <1>8, <2>2
    <2>4. PICK g \in req[q].want : ~LoginFree(q, g)
      BY <2>3 DEF CanGoOn, At
    <2>5. PICK p \in Requests \ {q} : req[p].op = "remove" /\ req[p].pc = "rows"
      BY <1>8, <2>3, <2>4
    <2> QED BY <1>1, <2>3, <2>5 DEF Apart
  <1>10. req[a].pc = "key"
    BY <1>7, <1>9
  <1> QED BY <1>3, <1>9, <1>10 DEF CanGoOn, At, KeyFree

(* Of the requests under way one can always go on.                          *)
THEOREM NeverStuck == Spec => []NoDeadlock
  <1> QED BY SomeoneGoesOn, InitOK, NextOK, PTL DEF Spec
=============================================================================
