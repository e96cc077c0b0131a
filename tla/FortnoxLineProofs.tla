------------------------- MODULE FortnoxLineProofs -------------------------
(***************************************************************************)
(* Theorems about FortnoxSend, for any number of entries, connections, runs *)
(* and faults.  LInv adds to what a run relies on (FortnoxSendProofs) the   *)
(* books of the line: entries go to connections in their order, one request *)
(* of a connection is under way at a time, and it is the first owed.  So a  *)
(* reconcile looks far enough, an entry gets one voucher at most, in its    *)
(* turn, and a connection cut off gets one more at most.                    *)
(***************************************************************************)
EXTENDS FortnoxSendProofs

(* The entry's request is under way to Fortnox, or about to leave a run.    *)
Pending(e) == late[e] > 0 \/ \E r \in Runs : Asking(r, e)

(* A connection not cut off; an entry a person has spoken of; an entry with *)
(* a voucher.                                                               *)
Open(c) == conn[c].status # "DISCONNECTED"
Word(e) == dv[e].denied \/ dv[e].state \in {"BY_HAND", "DOWNLOADED"}
InSeries(e) == Made(e, 1) # {}

(* From number n on each connection has one voucher at most, with those     *)
(* still under way.                                                         *)
Window(n) ==
  \A i \in DOMAIN series : i >= n /\ series[i] # Other =>
    /\ \A j \in DOMAIN series : j >= n /\ series[j] # Other /\ dv[series[j]].conn = dv[series[i]].conn => j = i
    /\ \A e \in Entries : Pending(e) => dv[e].conn # dv[series[i]].conn

(* Entries are handed to connections in their order, and connections follow *)
(* one another.                                                             *)
InOrder(e) == dv[e].state # "NEW" => e <= due /\ \A f \in Entries : f < e => dv[f].state # "NEW"

InTurn(c) == conn[c].status # "NONE" => \A b \in Conns : b < c => conn[b].status = "DISCONNECTED"

(* What is handed to a connection, and who sends to it, come after it.      *)
Known ==
  /\ \A e \in Entries : dv[e].state # "NEW" => conn[dv[e].conn].status # "NONE"
  /\ \A r \in Runs : run[r].pc # "idle" => conn[run[r].conn].status # "NONE"

(* Of the entries of one connection one request is under way.               *)
Alone == \A e, f \in Entries : Pending(e) /\ Pending(f) /\ dv[e].conn = dv[f].conn => e = f

(* An entry under way has its turn, and until its connection is cut off it   *)
(* is the first of those owed.                                              *)
Front(e) ==
  /\ Pending(e) =>
       /\ \A f \in Entries : f < e /\ dv[f].conn = dv[e].conn => InSeries(f) \/ Word(f)
       /\ Open(dv[e].conn) => dv[e].state = "SENDING"
  /\ dv[e].state = "SENDING" /\ Open(dv[e].conn) =>
       /\ \A f \in Entries : f < e /\ dv[f].conn = dv[e].conn => dv[f].state \notin Owed
       /\ Window(dv[e].next)

Sending   == {"book", "reconcile", "requeue", "send", "intent", "ask", "asked", "booked"}
Attaching == {"pdf", "keep", "connect", "done", "found"}

(* A run that holds the lease has before it every entry still owed up to    *)
(* the last it read, and no voucher is made beside it.                      *)
Line(r) ==
  LET x == run[r] IN
  /\ x.pc \in Sending => ~x.owed
  /\ x.pc = "next" => x.owed
  /\ x.pc # "idle" /\ Holds(r) /\ ~x.owed =>
       /\ \A e \in Todo(x), f \in Entries :
            f < e /\ dv[f].conn = x.conn /\ dv[f].state \in Owed => f \in Todo(x)
       /\ x.pc \in Attaching => dv[Cur(x)].state \notin Owed
       /\ x.pc = "intent" /\ dv[Cur(x)].state = "QUEUED" =>
            /\ Window(x.at)
            /\ \A i \in DOMAIN series : i >= x.at /\ series[i] # Other => dv[series[i]].conn # x.conn

(* Others' vouchers are so many at most, and so are those of a connection   *)
(* that was cut off, with the one under way.                                *)
Counted ==
  /\ Cardinality(Made(Other, 1)) <= MaxOthers
  /\ \A c \in Conns : conn[c].status = "DISCONNECTED" =>
       /\ Cardinality(Vouchers(c)) <= conn[c].cut + 1
       /\ \A e \in Entries : Pending(e) /\ dv[e].conn = c => Cardinality(Vouchers(c)) <= conn[c].cut

(* The books of the line: who has which entry, and what is under way.       *)
Books ==
  /\ \A e \in Entries : InOrder(e) /\ Front(e)
  /\ \A c \in Conns : InTurn(c)
  /\ Known
  /\ Alone
  /\ Counted

LInv ==
  /\ IInv
  /\ Books
  /\ \A r \in Runs : Line(r)

-----------------------------------------------------------------------------
(* What the invariant says of an entry, a voucher, a connection. *)

(* An entry under way has been handed to a connection, and has no voucher.  *)
LEMMA PendingFacts ==
  ASSUME IInv, NEW e \in Entries, Pending(e)
  PROVE  Made(e, 1) = {} /\ dv[e].state # "NEW" /\ dv[e].conn \in Conns
  <1>1. Made(e, 1) = {}
    BY DEF IInv, Single, Pending
  <1>2. ~Clear(e)
    BY ConstantFacts DEF Pending, Clear
  <1>3. dv[e].state # "NEW"
    BY <1>2, ConstantFacts DEF IInv, Told
  <1>4. dv[e].conn # NoConn /\ dv[e].conn \in Conns \cup {NoConn}
    <2>1. dv[e] \in Delivery
      BY Types
    <2> QED BY <1>3, <2>1 DEF IInv, Told, Delivery
  <1> QED BY <1>1, <1>3, <1>4

(* So has an entry with a voucher, of which nothing more is under way.      *)
LEMMA VoucherFacts ==
  ASSUME IInv, NEW i \in DOMAIN series, series[i] # Other
  PROVE  /\ i \in Nat /\ i >= 1 /\ i <= Len(series)
         /\ series[i] \in Entries /\ i \in Made(series[i], 1)
         /\ dv[series[i]].state # "NEW" /\ dv[series[i]].conn \in Conns /\ ~Pending(series[i])
  <1>1. /\ i \in Nat /\ i >= 1 /\ i <= Len(series)
        /\ series[i] \in Entries /\ i \in Made(series[i], 1)
    BY Types DEF Made
  <1>2. PICK e \in Entries : e = series[i]
    BY <1>1
  <1>3. ~Clear(e)
    BY <1>1, <1>2 DEF Clear
  <1>4. dv[e].state # "NEW"
    BY <1>3, ConstantFacts DEF IInv, Told
  <1>5. dv[e].conn \in Conns
    <2>1. dv[e] \in Delivery
      BY Types
    <2> QED BY <1>4, <2>1 DEF IInv, Told, Delivery
  <1>6. ~Pending(e)
    BY <1>1, <1>2, PendingFacts
  <1> QED BY <1>1, <1>2, <1>4, <1>5, <1>6

(* One connection at a time is open. *)
LEMMA OneOpen ==
  ASSUME LInv, NEW b \in Conns, NEW c \in Conns, Open(b), Open(c),
         conn[b].status # "NONE", conn[c].status # "NONE"
  PROVE  b = c
  <1>1. b \in Nat /\ c \in Nat
    BY ConstantFacts
  <1>2. ~(b < c) /\ ~(c < b)
    BY DEF LInv, Books, InTurn, Open
  <1> QED BY <1>1, <1>2

(* A run that holds a lease does so of an open connection.                  *)
LEMMA HeldOpen ==
  ASSUME LInv, NEW r \in Runs, run[r].pc # "idle", Holds(r)
  PROVE  run[r].conn \in Conns /\ Open(run[r].conn) /\ conn[run[r].conn].status # "NONE"
  BY RunFacts DEF LInv, Books, Known, Holds, Open

(* So one run at a time holds one. *)
LEMMA OneHolder ==
  ASSUME LInv, NEW r \in Runs, NEW q \in Runs, run[r].pc # "idle", run[q].pc # "idle", Holds(r), Holds(q)
  PROVE  q = r
  <1>1. run[r].conn = run[q].conn
    BY HeldOpen, OneOpen
  <1> QED BY <1>1 DEF Holds

-----------------------------------------------------------------------------
(* A reconcile looks far enough. *)

(* From a window's number on, others' vouchers and one of each connection.  *)
LEMMA WindowSize ==
  ASSUME IInv, Counted, NEW n \in Nat, n >= 1, Window(n), NEW i \in DOMAIN series, n <= i
  PROVE  i < n + Scan
  <1> DEFINE P == n .. i
             O == {j \in P : series[j] = Other}
             V == {j \in P : series[j] # Other}
             g == [j \in V |-> dv[series[j]].conn]
  <1>1. i \in Nat /\ i <= Len(series) /\ Len(series) \in Nat /\ DOMAIN series = 1 .. Len(series)
    BY Types
  <1>2. P \subseteq DOMAIN series /\ \A j \in P : j >= n
    BY <1>1
  <1>3. IsFiniteSet(P) /\ Cardinality(P) = i - n + 1
    BY <1>1, FS_Interval
  <1>4. IsFiniteSet(O) /\ IsFiniteSet(V) /\ Cardinality(O) \in Nat /\ Cardinality(V) \in Nat
    <2>1. O \in SUBSET P /\ V \in SUBSET P
      OBVIOUS
    <2> HIDE DEF P, O, V
    <2> QED BY <1>3, <2>1, FS_Subset, FS_CardinalityType
  <1>5. Cardinality(P) = Cardinality(O) + Cardinality(V)
    <2>1. P = O \cup V
      <3> HIDE DEF P
      <3> QED OBVIOUS
    <2>2. O \cap V = {}
      OBVIOUS
    <2> HIDE DEF P, O, V
    <2>3. Cardinality(O \cup V) = Cardinality(O) + Cardinality(V) - Cardinality(O \cap V)
      BY <1>4, FS_Union
    <2> QED BY <1>4, <2>1, <2>2, <2>3, FS_EmptySet
  <1>6. Cardinality(O) <= Cardinality(Made(Other, 1))
    <2>1. IsFiniteSet(DOMAIN series)
      BY <1>1, FS_Interval
    <2>2. Made(Other, 1) \in SUBSET DOMAIN series
      BY DEF Made
    <2>3. IsFiniteSet(Made(Other, 1))
      <3> HIDE DEF P, O, V
      <3> QED BY <2>1, <2>2, FS_Subset
    <2>4. O \in SUBSET Made(Other, 1)
      BY <1>1, <1>2 DEF Made
    <2> HIDE DEF O
    <2> QED BY <2>3, <2>4, FS_Subset
  <1>7. Cardinality(V) <= LastConn
    <2>1. \A j \in V : j \in DOMAIN series /\ j >= n /\ series[j] # Other
      BY <1>2
    <2> HIDE DEF V
    <2>2. g \in [V -> Conns]
      BY <2>1, VoucherFacts
    <2>6. \A j \in V : g[j] = dv[series[j]].conn
      OBVIOUS
    <2>3. \A j, k \in V : g[j] = g[k] => j = k
      <3> HIDE DEF g
      <3> QED BY <2>1, <2>6 DEF Window
    <2>4. g \in Injection(V, Conns)
      <3> HIDE DEF g
      <3> QED BY <2>2, <2>3 DEF Injection, IsInjective
    <2>5. IsFiniteSet(Conns) /\ Cardinality(Conns) = LastConn
      <3>1. 1 \in Int /\ LastConn \in Nat
        BY FortnoxAssumption
      <3> QED BY <3>1, FS_Interval DEF Conns
    <2> HIDE DEF g
    <2> QED BY <2>4, <2>5, FS_Injection
  <1>8. Cardinality(Made(Other, 1)) <= MaxOthers /\ Cardinality(Made(Other, 1)) \in Nat
    <2>1. IsFiniteSet(DOMAIN series)
      BY <1>1, FS_Interval
    <2>2. Made(Other, 1) \in SUBSET DOMAIN series
      BY DEF Made
    <2> HIDE DEF P, O, V
    <2> QED BY <2>1, <2>2, FS_Subset, FS_CardinalityType DEF Counted
  <1> HIDE DEF P, O, V
  <1>9. /\ MaxOthers \in Nat /\ LastConn \in Nat /\ Scan \in Nat /\ MaxOthers + LastConn <= Scan
    BY FortnoxAssumption
  <1> QED BY <1>1, <1>3, <1>4, <1>5, <1>6, <1>7, <1>8, <1>9

(* A voucher of an entry being sent is among the numbers looked at.         *)
LEMMA ScanEnough == LInv => WithinScan
  <1> SUFFICES ASSUME LInv, NEW e \in Entries, dv[e].state = "SENDING",
                      conn[dv[e].conn].status # "DISCONNECTED", NEW i \in Made(e, 1)
               PROVE  dv[e].next <= i /\ i < dv[e].next + Scan
    BY DEF WithinScan
  <1>1. Window(dv[e].next) /\ Counted
    BY DEF LInv, Books, Front, Open
  <1>2. dv[e].next \in 1 .. Len(series) + 1 /\ i >= dv[e].next
    BY DEF LInv, IInv, Told
  <1>3. i \in DOMAIN series /\ Len(series) \in Nat
    BY Types DEF Made, LInv
  <1>4. PICK n \in Nat : n = dv[e].next /\ n >= 1
    BY <1>2, <1>3
  <1> QED BY <1>1, <1>2, <1>3, <1>4, WindowSize DEF LInv

-----------------------------------------------------------------------------
(* Steps on which nothing more comes under way. *)

(* No connection is opened again, or joins the line but by being made; what *)
(* is cut off is counted then.                                              *)
ConnsKept ==
  \A c \in Conns :
    /\ conn[c].status = "DISCONNECTED" => conn'[c].status = "DISCONNECTED" /\ conn'[c].cut = conn[c].cut
    /\ conn'[c].status = "DISCONNECTED" /\ Open(c) => conn'[c].cut = Cardinality(Vouchers(c))
    /\ conn[c].status # "NONE" => conn'[c].status # "NONE"

(* Nothing of a delivery comes under way or is owed anew, unless it is new; *)
(* one under way on an open connection stays SENDING.                       *)
Still ==
  /\ series' = series
  /\ ConnsKept
  /\ \A e \in Entries :
       /\ Pending(e)' => Pending(e)
       /\ dv[e].state = "NEW" => dv'[e].state # "SENDING"
       /\ dv[e].state # "NEW" =>
            /\ dv'[e].state # "NEW" /\ dv'[e].conn = dv[e].conn
            /\ Word(e) => Word(e)'
            /\ dv'[e].state \in Owed => dv[e].state \in Owed
            /\ Open(dv[e].conn) /\ dv'[e].state = "SENDING" =>
                 dv[e].state = "SENDING" /\ dv'[e].next = dv[e].next
            /\ Open(dv[e].conn) /\ dv[e].state = "SENDING" /\ Pending(e)' => dv'[e].state = "SENDING"

(* Vouchers stay their connections'. *)
LEMMA StillVouchers ==
  ASSUME IInv, Still, NEW c \in Conns
  PROVE  Vouchers(c)' = Vouchers(c)
  <1>1. \A i \in DOMAIN series : series[i] # Other => dv'[series[i]].conn = dv[series[i]].conn
    BY VoucherFacts DEF Still
  <1> QED BY <1>1 DEF Vouchers, Still

(* A window stays one. *)
LEMMA StillWindow ==
  ASSUME IInv, Still, NEW n, Window(n)
  PROVE  Window(n)'
  <1>1. series' = series
    BY DEF Still
  <1>2. \A i \in DOMAIN series : series[i] # Other => dv'[series[i]].conn = dv[series[i]].conn
    BY VoucherFacts DEF Still
  <1>3. \A e \in Entries : Pending(e)' => Pending(e) /\ dv'[e].conn = dv[e].conn
    BY PendingFacts DEF Still
  <1> QED BY <1>1, <1>2, <1>3 DEF Window

(* What is under way keeps its turn, is alone, and is counted.              *)
LEMMA StillBooks ==
  ASSUME LInv, Still
  PROVE  /\ \A e \in Entries : Front(e)'
         /\ Alone'
         /\ Counted'
  <1>0. IInv /\ Books
    BY DEF LInv
  <1>1. \A e \in Entries : Pending(e)' =>
          Pending(e) /\ dv[e].state # "NEW" /\ dv[e].conn \in Conns /\ dv'[e].conn = dv[e].conn
    BY <1>0, PendingFacts DEF Still
  <1>2. \A c \in Conns : Open(c)' => Open(c)
    BY DEF Still, ConnsKept, Open
  <1>3. ASSUME NEW e \in Entries, dv[e].state # "NEW", NEW f \in Entries, f < e
        PROVE  dv[f].state # "NEW"
    BY <1>0, <1>3 DEF Books, InOrder
  <1>4. ASSUME NEW e \in Entries, Pending(e)'
        PROVE  /\ \A f \in Entries : f < e /\ dv'[f].conn = dv'[e].conn => InSeries(f)' \/ Word(f)'
               /\ Open(dv[e].conn)' => dv'[e].state = "SENDING"
    <2>1. /\ \A f \in Entries : f < e /\ dv[f].conn = dv[e].conn => InSeries(f) \/ Word(f)
          /\ Open(dv[e].conn) => dv[e].state = "SENDING"
      BY <1>0, <1>1, <1>4 DEF Books, Front
    <2>2. ASSUME NEW f \in Entries, f < e, dv'[f].conn = dv'[e].conn PROVE InSeries(f)' \/ Word(f)'
      <3>1. dv[f].state # "NEW"
        BY <1>1, <1>3, <1>4, <2>2
      <3>2. dv'[f].conn = dv[f].conn /\ (Word(f) => Word(f)')
        BY <3>1 DEF Still
      <3>3. InSeries(f)' <=> InSeries(f)
        BY DEF InSeries, Made, Still
      <3> QED BY <1>1, <1>4, <2>1, <2>2, <3>2, <3>3
    <2>3. Open(dv[e].conn)' => dv'[e].state = "SENDING"
      <3>1. PICK c \in Conns : c = dv[e].conn /\ c = dv'[e].conn
        BY <1>1, <1>4
      <3> QED BY <1>1, <1>2, <1>4, <2>1, <3>1 DEF Still, Open
    <2> QED BY <2>2, <2>3
  <1>5. ASSUME NEW e \in Entries, dv'[e].state = "SENDING", conn'[dv'[e].conn].status # "DISCONNECTED"
        PROVE  /\ \A f \in Entries : f < e /\ dv'[f].conn = dv'[e].conn => dv'[f].state \notin Owed
               /\ Window(dv[e].next)' /\ dv'[e].next = dv[e].next
    <2>1. dv[e].state # "NEW" /\ dv'[e].conn = dv[e].conn
      BY <1>5 DEF Still
    <2>2. dv[e].conn \in Conns
      <3>1. dv[e] \in Delivery
        BY <1>0, Types
      <3> QED BY <1>0, <2>1, <3>1 DEF IInv, Told, Delivery
    <2>3. Open(dv[e].conn)
      <3>1. PICK c \in Conns : c = dv[e].conn
        BY <2>2
      <3> QED BY <1>5, <2>1, <3>1 DEF Still, ConnsKept, Open
    <2>4. dv[e].state = "SENDING" /\ dv'[e].next = dv[e].next
      BY <1>5, <2>1, <2>3 DEF Still
    <2>5. /\ \A f \in Entries : f < e /\ dv[f].conn = dv[e].conn => dv[f].state \notin Owed
          /\ Window(dv[e].next)
      BY <1>0, <2>3, <2>4 DEF Books, Front
    <2>6. ASSUME NEW f \in Entries, f < e, dv'[f].conn = dv'[e].conn PROVE dv'[f].state \notin Owed
      <3>1. dv[f].state # "NEW"
        BY <1>3, <2>1, <2>6
      <3> QED BY <2>1, <2>5, <2>6, <3>1 DEF Still
    <2>7. PICK n : n = dv[e].next
      OBVIOUS
    <2>8. Window(n)'
      BY <1>0, <2>5, <2>7, StillWindow
    <2> QED BY <2>4, <2>6, <2>7, <2>8 DEF Window
  <1>6. \A e \in Entries : Front(e)'
    BY <1>4, <1>5 DEF Front, Open, Window
  <1>7. Alone'
    BY <1>0, <1>1 DEF Books, Alone
  <1>8. Counted'
    <2>1. Made(Other, 1)' = Made(Other, 1)
      BY DEF Made, Still
    <2>2. ASSUME NEW c \in Conns, conn'[c].status = "DISCONNECTED"
          PROVE  /\ Cardinality(Vouchers(c)') <= conn'[c].cut + 1
                 /\ \A e \in Entries : Pending(e)' /\ dv'[e].conn = c => Cardinality(Vouchers(c)') <= conn'[c].cut
      <3>1. Vouchers(c)' = Vouchers(c) /\ Cardinality(Vouchers(c)) \in Nat
        BY <1>0, StillVouchers, VouchersFinite, Types
      <3>2. CASE conn[c].status = "DISCONNECTED"
        BY <1>0, <1>1, <3>1, <3>2 DEF Books, Counted, Still, ConnsKept
      <3>3. CASE Open(c)
        BY <2>2, <3>1, <3>3 DEF Still, ConnsKept
      <3> QED BY <3>2, <3>3 DEF Open
    <2> QED BY <1>0, <2>1, <2>2 DEF Books, Counted
  <1> QED BY <1>6, <1>7, <1>8

(* The line of a run that does not move.                                    *)
LEMMA StillLine ==
  ASSUME LInv, Still, NEW q \in Runs,
         run'[q].pc = run[q].pc, run'[q].conn = run[q].conn, run'[q].owed = run[q].owed,
         run'[q].seen = run[q].seen, run'[q].at = run[q].at,
         run[q].pc # "idle" /\ Holds(q)' => Holds(q),
         Holds(q) /\ run[q].pc = "intent" /\ dv'[Cur(run[q])].state = "QUEUED" =>
           dv[Cur(run[q])].state = "QUEUED"
  PROVE  Line(q)'
  <1> DEFINE x == run[q]
             y == run'[q]
  <1>0. PICK n : n = run[q].at /\ n = run'[q].at
    OBVIOUS
  <1>1. IInv /\ Line(q) /\ Reading(q)
    BY DEF LInv, IInv
  <1>2. Todo(y) = Todo(x) /\ Cur(y) = Cur(x)
    BY DEF Todo, Cur
  <1>3. \A e \in Todo(x) : e \in Entries /\ dv[e].state # "NEW" /\ \A f \in Entries : f < e => dv[f].state # "NEW"
    BY <1>1 DEF Reading, Todo, LInv, Books, InOrder
  <1>4. ASSUME y.pc # "idle", Holds(q)', ~y.owed
        PROVE  /\ \A e \in Todo(y), f \in Entries :
                    f < e /\ dv'[f].conn = y.conn /\ dv'[f].state \in Owed => f \in Todo(y)
               /\ y.pc \in Attaching => dv'[Cur(y)].state \notin Owed
               /\ y.pc = "intent" /\ dv'[Cur(y)].state = "QUEUED" =>
                    /\ Window(n)'
                    /\ \A i \in DOMAIN series : i >= n /\ series[i] # Other => dv'[series[i]].conn # y.conn
    <2>1. x.pc # "idle" /\ Holds(q) /\ ~x.owed
      BY <1>4
    <2>2. \A e \in Todo(x), f \in Entries :
            f < e /\ dv'[f].conn = x.conn /\ dv'[f].state \in Owed => f \in Todo(x)
      BY <1>1, <1>3, <2>1 DEF Line, Still
    <2>3. x.pc \in Attaching => dv'[Cur(x)].state \notin Owed
      <3>1. x.pc \in Attaching => Cur(x) \in Todo(x)
        BY <1>1, RunFacts DEF Attaching, Busy
      <3> QED BY <1>1, <1>3, <2>1, <3>1 DEF Line, Still
    <2>4. ASSUME x.pc = "intent", dv'[Cur(x)].state = "QUEUED"
          PROVE  /\ Window(n)'
                 /\ \A i \in DOMAIN series : i >= n /\ series[i] # Other => dv'[series[i]].conn # x.conn
      <3>1. dv[Cur(x)].state = "QUEUED"
        BY <2>1, <2>4
      <3>3. /\ Window(n)
            /\ \A i \in DOMAIN series : i >= n /\ series[i] # Other => dv[series[i]].conn # x.conn
        BY <1>1, <2>1, <2>4, <3>1, <1>0 DEF Line
      <3>4. Window(n)'
        BY <1>1, <3>3, StillWindow
      <3>5. \A i \in DOMAIN series : series[i] # Other => dv'[series[i]].conn = dv[series[i]].conn
        BY <1>1, VoucherFacts DEF Still
      <3> QED BY <3>3, <3>4, <3>5
    <2> QED BY <1>2, <2>2, <2>3, <2>4
  <1>5. series' = series
    BY DEF Still
  <1> QED BY <1>0, <1>1, <1>2, <1>4, <1>5 DEF Line, Window

-----------------------------------------------------------------------------
(* The line of the run that moves. *)

(* A run with nothing before it. *)
LEMMA LineEmpty ==
  ASSUME IInv', NEW r \in Runs, run'[r].pc \notin Sending \cup {"next"}, run'[r].seen = Nothing
  PROVE  Line(r)'
  <1>1. Todo(run'[r]) = {} /\ Shaped(run'[r])
    BY Emptied DEF IInv
  <1>2. run'[r].pc \notin Attaching /\ run'[r].pc # "intent"
    BY <1>1 DEF Shaped, Busy, Attaching, Sending
  <1> QED BY <1>1, <1>2 DEF Line

(* A run that goes on with what it read. *)
LEMMA LineGoes ==
  ASSUME LInv, Still, NEW r \in Runs, NEW y, run'[r] = y, run[r].pc # "idle",
         y.conn = run[r].conn, y.owed = run[r].owed, y.seen = run[r].seen, y.pc # "intent",
         y.pc \in Sending => run[r].pc \in Sending, y.pc = "next" => run[r].pc = "next",
         y.pc \in Attaching => run[r].pc \in Attaching \/ run[r].owed,
         Holds(r)' => Holds(r)
  PROVE  Line(r)'
  <1> DEFINE x == run[r]
  <1>1. IInv /\ Line(r) /\ Reading(r)
    BY DEF LInv, IInv
  <1>2. Todo(y) = Todo(x) /\ Cur(y) = Cur(x)
    BY DEF Todo, Cur
  <1>3. \A e \in Todo(x) : e \in Entries /\ dv[e].state # "NEW" /\ \A f \in Entries : f < e => dv[f].state # "NEW"
    BY <1>1 DEF Reading, Todo, LInv, Books, InOrder
  <1>4. ASSUME Holds(r)', ~y.owed
        PROVE  /\ \A e \in Todo(y), f \in Entries :
                    f < e /\ dv'[f].conn = y.conn /\ dv'[f].state \in Owed => f \in Todo(y)
               /\ y.pc \in Attaching => dv'[Cur(y)].state \notin Owed
    <2>1. Holds(r) /\ ~x.owed
      BY <1>4
    <2>2. \A e \in Todo(x), f \in Entries :
            f < e /\ dv'[f].conn = x.conn /\ dv'[f].state \in Owed => f \in Todo(x)
      BY <1>1, <1>3, <2>1 DEF Line, Still
    <2>3. y.pc \in Attaching => dv'[Cur(x)].state \notin Owed
      <3>1. x.pc \in Attaching => Cur(x) \in Todo(x)
        BY <1>1, RunFacts DEF Attaching, Busy
      <3> QED BY <1>1, <1>3, <2>1, <3>1 DEF Line, Still
    <2> QED BY <1>2, <2>2, <2>3
  <1> QED BY <1>1, <1>4 DEF Line

(* A run through with the PDF of an entry, which is no longer owed.         *)
LEMMA LinePast ==
  ASSUME LInv, Still, NEW r \in Runs, NEW y, run'[r] = y, run[r].pc \in Attaching,
         y.conn = run[r].conn, y.owed = run[r].owed,
         y.seen = [run[r].seen EXCEPT ![Cur(run[r])] = NoDelivery],
         y.pc = IF run[r].owed THEN "next" ELSE "book",
         Holds(r)' => Holds(r)
  PROVE  Line(r)'
  <1> DEFINE x == run[r]
  <1>1. IInv /\ Line(r) /\ Reading(r)
    BY DEF LInv, IInv
  <1>2. /\ Cur(x) \in Entries /\ Cur(x) \in Todo(x) /\ x.pc # "idle"
        /\ x.seen \in [Entries -> Delivery]
    BY <1>1, RunFacts DEF Attaching, Busy
  <1>3. Todo(y) = Todo(x) \ {Cur(x)}
    BY <1>2 DEF Todo, NoDelivery
  <1>4. \A e \in Todo(x) : e \in Entries /\ dv[e].state # "NEW" /\ \A f \in Entries : f < e => dv[f].state # "NEW"
    BY <1>1 DEF Reading, Todo, LInv, Books, InOrder
  <1>5. ASSUME Holds(r)', ~y.owed, NEW e \in Todo(y), NEW f \in Entries,
               f < e, dv'[f].conn = y.conn, dv'[f].state \in Owed
        PROVE  f \in Todo(y)
    <2>1. Holds(r) /\ ~x.owed
      BY <1>5
    <2>2. dv[f].conn = x.conn /\ dv[f].state \in Owed /\ e \in Todo(x)
      BY <1>3, <1>4, <1>5 DEF Still
    <2>3. f \in Todo(x)
      BY <1>1, <1>2, <1>5, <2>1, <2>2 DEF Line
    <2>4. f # Cur(x)
      BY <1>1, <1>2, <2>1, <2>2 DEF Line
    <2> QED BY <1>3, <2>3, <2>4
  <1> QED BY <1>5 DEF Line, Sending, Attaching

-----------------------------------------------------------------------------
(* Steps of a run that keep the invariant. *)

(* A step of one run on which nothing comes under way.                      *)
LEMMA RunKeeps ==
  ASSUME LInv, IInv', Still, NEW r \in Runs, NEW y, run' = [run EXCEPT ![r] = y], Line(r)',
         y.pc # "idle" => y.conn \in Conns /\ conn[y.conn].status # "NONE",
         \A e \in Entries : (dv'[e].state = "NEW" <=> dv[e].state = "NEW") /\ dv'[e].conn = dv[e].conn,
         \A c \in Conns : conn'[c].status # "NONE" => conn[c].status # "NONE",
         due' = due,
         \A q \in Runs \ {r} :
           /\ run[q].pc # "idle" /\ Holds(q)' => Holds(q)
           /\ Holds(q) /\ run[q].pc = "intent" /\ dv'[Cur(run[q])].state = "QUEUED" =>
                dv[Cur(run[q])].state = "QUEUED"
  PROVE  LInv'
  <1>1. IInv /\ Books
    BY DEF LInv
  <1>2. run \in [Runs -> Run] /\ run'[r] = y /\ \A q \in Runs \ {r} : run'[q] = run[q]
    BY <1>1, Types
  <1>3. \A e \in Entries : InOrder(e)'
    BY <1>1 DEF Books, InOrder
  <1>4. \A c \in Conns : InTurn(c)'
    BY <1>1 DEF Books, InTurn, Still, ConnsKept
  <1>5. Known'
    <2>1. ASSUME NEW e \in Entries, dv'[e].state # "NEW" PROVE conn'[dv'[e].conn].status # "NONE"
      <3>1. PICK c \in Conns : c = dv[e].conn
        <4>1. dv[e] \in Delivery
          BY <1>1, Types
        <4> QED BY <1>1, <2>1, <4>1 DEF IInv, Told, Delivery
      <3> QED BY <1>1, <2>1, <3>1 DEF Books, Known, Still, ConnsKept
    <2>2. ASSUME NEW q \in Runs, run'[q].pc # "idle" PROVE conn'[run'[q].conn].status # "NONE"
      <3>1. run'[q].conn \in Conns /\ conn[run'[q].conn].status # "NONE"
        BY <1>1, <1>2, <2>2, RunFacts DEF Books, Known
      <3> QED BY <3>1 DEF Still, ConnsKept
    <2> QED BY <2>1, <2>2 DEF Known
  <1>6. \A q \in Runs : Line(q)'
    BY <1>2, StillLine
  <1>7. (\A e \in Entries : Front(e)') /\ Alone' /\ Counted'
    BY StillBooks
  <1> QED BY <1>3, <1>4, <1>5, <1>6, <1>7 DEF LInv, Books

(* When nothing is written and no request leaves, nothing comes under way.  *)
LEMMA QuietStill ==
  ASSUME IInv, AsksKept, UNCHANGED <<dv, series>>, ConnsKept,
         \A e \in Entries : late'[e] > 0 => late[e] > 0
  PROVE  Still
  <1>1. \A e \in Entries : Pending(e)' => Pending(e)
    BY FewerAsks DEF Pending
  <1>2. \A e \in Entries : Word(e) => Word(e)'
    BY DEF Word
  <1>3. ASSUME NEW e \in Entries, Pending(e)', dv[e].state = "SENDING" PROVE dv'[e].state = "SENDING"
    BY <1>3
  <1> QED BY <1>1, <1>2, <1>3 DEF Still

(* Connections nobody touches. *)
LEMMA SameConns == conn' = conn => ConnsKept
  BY DEF ConnsKept, Open

(* Such a step of a run. *)
LEMMA QuietRun ==
  ASSUME LInv, IInv', NEW r \in Runs, NEW y, run[r].pc # "idle", Set(r, y), y.pc # "ask",
         y.pc # "idle" => y.conn = run[r].conn,
         UNCHANGED <<dv, conn, series, due>>, \A e \in Entries : late'[e] > 0 => late[e] > 0,
         Still => Line(r)'
  PROVE  LInv'
  <1>1. IInv /\ run \in [Runs -> Run] /\ run' = [run EXCEPT ![r] = y]
    BY Types DEF LInv, Set
  <1>2. AsksKept
    BY <1>1, NotAsking
  <1>3. Still
    BY <1>1, <1>2, SameConns, QuietStill
  <1>4. y.pc # "idle" => y.conn \in Conns /\ conn[y.conn].status # "NONE"
    BY <1>1, RunFacts DEF LInv, Books, Known
  <1>5. \A q \in Runs \ {r} : Holds(q)' => Holds(q)
    BY <1>1 DEF Holds
  <1> QED BY <1>1, <1>3, <1>4, <1>5, RunKeeps

(* Such a step that leaves nothing before the run. *)
LEMMA EmptyRun ==
  ASSUME LInv, IInv', NEW r \in Runs, NEW y, run[r].pc # "idle", Set(r, y),
         y.pc \notin Sending \cup {"next"}, y.seen = Nothing,
         y.pc # "idle" => y.conn = run[r].conn,
         UNCHANGED <<dv, conn, series, due>>, \A e \in Entries : late'[e] > 0 => late[e] > 0
  PROVE  LInv'
  <1>1. run'[r] = y
    BY Types DEF LInv, Set
  <1>2. Line(r)'
    BY <1>1, LineEmpty
  <1> QED BY <1>2, QuietRun DEF Sending

(* Such a step that goes on with what the run read. *)
LEMMA GoesRun ==
  ASSUME LInv, IInv', NEW r \in Runs, NEW y, run[r].pc # "idle", Set(r, y), y.pc # "ask",
         y.conn = run[r].conn, y.owed = run[r].owed, y.seen = run[r].seen, y.pc # "intent",
         y.pc \in Sending => run[r].pc \in Sending, y.pc = "next" => run[r].pc = "next",
         y.pc \in Attaching => run[r].pc \in Attaching \/ run[r].owed,
         UNCHANGED <<dv, conn, series, due>>, \A e \in Entries : late'[e] > 0 => late[e] > 0
  PROVE  LInv'
  <1>1. run'[r] = y
    BY Types DEF LInv, Set
  <1>2. Holds(r)' => Holds(r)
    BY <1>1 DEF Holds
  <1>3. Still => Line(r)'
    BY <1>1, <1>2, LineGoes
  <1> QED BY <1>3, QuietRun

(* A run that drops what it read; one that goes on with it; one that is      *)
(* through with its entry.                                                  *)
Leaving(x, y) ==
  /\ y.seen = Nothing /\ y.pc \notin Sending \cup {"next", "ask"}
  /\ y.pc # "idle" => y.conn = x.conn

Going(x, y) == y.conn = x.conn /\ y.owed = x.owed /\ y.seen = x.seen

Passing(x, y) ==
  /\ y.conn = x.conn /\ y.owed = x.owed
  /\ y.seen = [x.seen EXCEPT ![Cur(x)] = NoDelivery]
  /\ y.pc = IF x.owed THEN "next" ELSE "book"

(* Every way a line stops drops what was read. *)
LEMMA HaltsTo ==
  ASSUME NEW x \in Run
  PROVE  Leaving(x, Quieted(x)) /\ Leaving(x, OutOfTime(x)) /\ \A k : Leaving(x, StopAt(x, k))
  <1> DEFINE h == Halted(x)
  <1>1. h \in Run /\ h.pc = "owed" /\ h.seen = Nothing /\ h.conn = x.conn
    BY HaltedRun
  <1> HIDE DEF h
  <1>2. Leaving(x, [h EXCEPT !.quiet = TRUE])
    BY <1>1 DEF Run, Leaving, Sending
  <1>3. Leaving(x, [h EXCEPT !.out = TRUE])
    BY <1>1 DEF Run, Leaving, Sending
  <1>4. \A s : Leaving(x, [h EXCEPT !.stop = s])
    BY <1>1 DEF Run, Leaving, Sending
  <1>5. ASSUME NEW k PROVE Leaving(x, StopAt(x, k))
    <2>1. PICK s : StopAt(x, k) = [h EXCEPT !.stop = s]
      BY DEF StopAt, h
    <2> QED BY <1>4, <2>1
  <1> QED BY <1>2, <1>3, <1>5 DEF Quieted, OutOfTime, h

(* So does every way a run gives up. *)
LEMMA EndsTo ==
  ASSUME NEW x \in Run
  PROVE  /\ Leaving(x, Ended(x)) /\ Leaving(x, Cut(x))
         /\ Leaving(x, [Ended(x) EXCEPT !.out = TRUE]) /\ Leaving(x, [Ended(x) EXCEPT !.pc = "release"])
         /\ \A s : Leaving(x, [Ended(x) EXCEPT !.stop = s])
  <1> DEFINE h == Ended(x)
  <1>1. h \in Run /\ h.pc = "settle" /\ h.seen = Nothing /\ h.conn = x.conn
    BY EndedRun
  <1> HIDE DEF h
  <1>2. Leaving(x, [h EXCEPT !.quiet = TRUE])
    BY <1>1 DEF Run, Leaving, Sending
  <1>3. Leaving(x, [h EXCEPT !.out = TRUE])
    BY <1>1 DEF Run, Leaving, Sending
  <1>4. \A s : Leaving(x, [h EXCEPT !.stop = s])
    BY <1>1 DEF Run, Leaving, Sending
  <1>5. Leaving(x, [h EXCEPT !.pc = "release"])
    BY <1>1 DEF Run, Leaving, Sending
  <1>6. Leaving(x, h)
    BY <1>1 DEF Leaving, Sending
  <1> QED BY <1>2, <1>3, <1>4, <1>5, <1>6 DEF Cut, h

(* Every way a PDF is done with passes its entry. *)
LEMMA PassesTo ==
  ASSUME NEW x \in Run, Todo(x) # {}
  PROVE  /\ Passing(x, PastPdf(x)) /\ Passing(x, Missing(x))
         /\ Passing(x, [PastPdf(x) EXCEPT !.out = TRUE])
         /\ \A b : Passing(x, [PastPdf(x) EXCEPT !.attached = b])
  <1> DEFINE h == PastPdf(x)
  <1>1. h \in Run
    BY PastRun
  <1>2. Passing(x, h)
    <2> DEFINE g == [x.seen EXCEPT ![Cur(x)] = NoDelivery]
               t == x.tried \cup {Cur(x)}
               p == IF x.owed THEN "next" ELSE "book"
    <2>1. h = [x EXCEPT !.seen = g, !.tried = t, !.pc = p]
      BY DEF PastPdf, Run
    <2> HIDE DEF g, t, p
    <2>2. LET y == [x EXCEPT !.seen = g, !.tried = t, !.pc = p]
          IN  y.pc = p /\ y.conn = x.conn /\ y.seen = g /\ y.owed = x.owed
      BY DEF Run
    <2> QED BY <2>1, <2>2 DEF Passing, g, p
  <1> HIDE DEF h
  <1>3. Passing(x, [h EXCEPT !.out = TRUE])
    BY <1>1, <1>2 DEF Run, Passing
  <1>4. \A b : Passing(x, [h EXCEPT !.attached = b])
    BY <1>1, <1>2 DEF Run, Passing
  <1>5. \A s : Passing(x, [h EXCEPT !.overdue = s])
    BY <1>1, <1>2 DEF Run, Passing
  <1>6. PICK s : Missing(x) = [h EXCEPT !.overdue = s]
    BY DEF Missing, h
  <1> QED BY <1>2, <1>3, <1>4, <1>5, <1>6 DEF h

(* Such steps, where nothing is written. *)
LEMMA LeavingOn ==
  ASSUME LInv, IInv', NEW r \in Runs, NEW y, run[r].pc # "idle", Set(r, y), Leaving(run[r], y),
         UNCHANGED <<dv, conn, series, due>>, \A e \in Entries : late'[e] > 0 => late[e] > 0
  PROVE  LInv'
  BY EmptyRun DEF Leaving

(* A run that goes on with what it read. *)
LEMMA GoingOn ==
  ASSUME LInv, IInv', NEW r \in Runs, NEW y, run[r].pc # "idle", Set(r, y), Going(run[r], y),
         y.pc \notin {"ask", "intent", "next"},
         y.pc \in Sending => run[r].pc \in Sending,
         y.pc \in Attaching => run[r].pc \in Attaching \/ run[r].owed,
         UNCHANGED <<dv, conn, series, due>>, \A e \in Entries : late'[e] > 0 => late[e] > 0
  PROVE  LInv'
  BY GoesRun DEF Going

(* A run that passes its entry. *)
LEMMA PassingOn ==
  ASSUME LInv, IInv', NEW r \in Runs, NEW y, run[r].pc \in Attaching, Set(r, y), Passing(run[r], y),
         UNCHANGED <<dv, conn, series, due>>, \A e \in Entries : late'[e] > 0 => late[e] > 0
  PROVE  LInv'
  <1>1. run'[r] = y
    BY Types DEF LInv, Set
  <1>2. y.conn = run[r].conn /\ y.pc # "ask" /\ run[r].pc # "idle"
    BY DEF Passing, Attaching
  <1>3. Holds(r)' => Holds(r)
    BY <1>1, <1>2 DEF Holds
  <1>4. Still => Line(r)'
    BY <1>1, <1>3, LinePast DEF Passing
  <1> QED BY <1>2, <1>4, QuietRun

-----------------------------------------------------------------------------
(* The steps that write nothing. *)

(* The company is asked for. *)
LEMMA HelloKeeps ==
  ASSUME LInv, IInv', NEW r \in Runs, Hello(r)
  PROVE  LInv'
  <1> DEFINE x == run[r]
  <1>1. x \in Run /\ x.pc = "hello"
    BY RunFacts DEF Hello, LInv
  <1>2. CASE Set(r, [x EXCEPT !.pc = "line", !.reach = TRUE])
    <2>1. Going(x, [x EXCEPT !.pc = "line", !.reach = TRUE]) /\ [x EXCEPT !.pc = "line", !.reach = TRUE].pc = "line"
      BY <1>1 DEF Run, Going
    <2> QED BY <1>1, <1>2, <2>1, GoingOn DEF Hello, Sending, Attaching
  <1>3. CASE \E k \in {"stop", "terminal"} : Set(r, [Ended(x) EXCEPT !.stop = At(k, NoEntry)])
    BY <1>1, <1>3, EndsTo, LeavingOn DEF Hello
  <1>4. CASE Set(r, Cut(x))
    BY <1>1, <1>4, EndsTo, LeavingOn DEF Hello
  <1> QED BY <1>2, <1>3, <1>4 DEF Hello, Cut

(* A call of the line that fails leaves the line. *)
LEMMA LineFailsKeeps ==
  ASSUME LInv, IInv', NEW r \in Runs, run[r].pc # "idle", LineFails(r), UNCHANGED <<dv, conn, series, due>>,
         \A e \in Entries : late'[e] > 0 => late[e] > 0
  PROVE  LInv'
  <1>1. run[r] \in Run
    BY RunFacts DEF LInv
  <1>2. \E y : Set(r, y) /\ Leaving(run[r], y)
    BY <1>1, HaltsTo DEF LineFails
  <1> QED BY <1>2, LeavingOn

(* The line read: every entry owed to the connection is before the run.     *)
LEMMA ReadLineKeeps ==
  ASSUME LInv, IInv', NEW r \in Runs, ReadLine(r)
  PROVE  LInv'
  <1> DEFINE x == run[r]
             g == Read(x.conn, Owed)
             y == [x EXCEPT !.pc = "book", !.owed = FALSE, !.seen = g]
  <1>1. x \in Run /\ x.pc = "line"
    BY RunFacts DEF ReadLine, LInv
  <1>2. Set(r, y)
    BY DEF ReadLine
  <1>3. y.pc = "book" /\ ~y.owed /\ y.seen = g /\ y.conn = x.conn
    BY <1>1 DEF Run
  <1>4. run'[r] = y
    BY <1>2, Types DEF LInv, Set
  <1> HIDE DEF y
  <1>5. Line(r)'
    <2>1. \A e \in Entries : e \in Todo(y) <=> dv[e].conn = x.conn /\ dv[e].state \in Owed
      BY <1>3 DEF Todo, Read, NoDelivery, Owed
    <2>2. dv' = dv
      BY DEF ReadLine
    <2> HIDE DEF g
    <2> QED BY <1>3, <1>4, <2>1, <2>2 DEF Line, Attaching, Sending
  <1> QED BY <1>1, <1>2, <1>3, <1>5, QuietRun DEF ReadLine

(* What the first entry left is due. *)
LEMMA BookKeeps ==
  ASSUME LInv, IInv', NEW r \in Runs, Book(r)
  PROVE  LInv'
  <1> DEFINE x == run[r]
  <1>1. x \in Run /\ x.pc = "book"
    BY RunFacts DEF Book, LInv
  <1>2. CASE Set(r, [x EXCEPT !.pc = "owed", !.clear = TRUE])
    <2>1. Going(x, [x EXCEPT !.pc = "owed", !.clear = TRUE]) /\ [x EXCEPT !.pc = "owed", !.clear = TRUE].pc = "owed"
      BY <1>1 DEF Run, Going
    <2> QED BY <1>1, <1>2, <2>1, GoingOn DEF Book, Sending, Attaching
  <1>3. CASE \E p \in {"send", "reconcile"} : Set(r, [x EXCEPT !.pc = p])
    <2>1. \E y : Set(r, y) /\ Going(x, y) /\ y.pc \in {"send", "reconcile"}
      BY <1>1, <1>3 DEF Run, Going
    <2> QED BY <1>1, <2>1, GoingOn DEF Book, Sending, Attaching
  <1>4. CASE Set(r, Quieted(x)) \/ Set(r, OutOfTime(x))
    BY <1>1, <1>4, HaltsTo, LeavingOn DEF Book
  <1> QED BY <1>2, <1>3, <1>4 DEF Book

(* A voucher looked for. *)
LEMMA ReconcileKeeps ==
  ASSUME LInv, IInv', NEW r \in Runs, Reconcile(r)
  PROVE  LInv'
  <1> DEFINE x == run[r]
  <1>1. x \in Run /\ x.pc = "reconcile"
    BY RunFacts DEF Reconcile, LInv
  <1>2. ASSUME NEW n, Set(r, [x EXCEPT !.pc = "booked", !.at = n]) PROVE LInv'
    <2>1. Going(x, [x EXCEPT !.pc = "booked", !.at = n]) /\ [x EXCEPT !.pc = "booked", !.at = n].pc = "booked"
      BY <1>1 DEF Run, Going
    <2> QED BY <1>1, <1>2, <2>1, GoingOn DEF Reconcile, Sending, Attaching
  <1>3. ASSUME Set(r, [x EXCEPT !.pc = "requeue", !.then = "send"]) PROVE LInv'
    <2>1. Going(x, [x EXCEPT !.pc = "requeue", !.then = "send"]) /\ [x EXCEPT !.pc = "requeue", !.then = "send"].pc = "requeue"
      BY <1>1 DEF Run, Going
    <2> QED BY <1>1, <1>3, <2>1, GoingOn DEF Reconcile, Sending, Attaching
  <1>4. CASE LineFails(r)
    BY <1>1, <1>4, LineFailsKeeps DEF Reconcile
  <1> QED BY <1>2, <1>3, <1>4 DEF Reconcile

(* Where the series stands asked: from the next number on there is nothing. *)
LEMMA SendKeeps ==
  ASSUME LInv, IInv', NEW r \in Runs, Send(r)
  PROVE  LInv'
  <1> DEFINE x == run[r]
  <1>1. x \in Run /\ x.pc = "send" /\ Line(r)
    BY RunFacts DEF Send, LInv
  <1>2. CASE Set(r, [x EXCEPT !.pc = "intent", !.at = NextNumber])
    <2> DEFINE y == [x EXCEPT !.pc = "intent", !.at = NextNumber]
    <2>1. y.pc = "intent" /\ y.at = NextNumber /\ Going(x, y)
      BY <1>1 DEF Run, Going
    <2>2. run'[r] = y
      BY <1>2, Types DEF LInv, Set
    <2> HIDE DEF y
    <2>3. UNCHANGED <<dv, conn, series, late, due>>
      BY DEF Send
    <2>4. Todo(y) = Todo(x)
      BY <2>1 DEF Todo, Going
    <2>5. \A i \in DOMAIN series : ~(i >= NextNumber)
      BY Types DEF LInv, NextNumber
    <2>6. Window(NextNumber)'
      BY <2>3, <2>5 DEF Window, NextNumber
    <2>7. NextNumber' = NextNumber
      BY <2>3 DEF NextNumber
    <2>8. Holds(r)' => Holds(r)
      BY <2>1, <2>2, <2>3 DEF Holds, Going
    <2>9. PICK n : n = NextNumber
      OBVIOUS
    <2>10. Line(r)'
      <3>1. ~y.owed
        BY <1>1, <2>1 DEF Line, Sending, Going
      <3>2. Holds(r)' => \A e \in Todo(y), f \in Entries :
              f < e /\ dv'[f].conn = y.conn /\ dv'[f].state \in Owed => f \in Todo(y)
        BY <1>1, <2>1, <2>3, <2>4, <2>8, <3>1 DEF Line, Going
      <3>3. Window(n)' /\ n = y.at /\ \A i \in DOMAIN series' : ~(i >= n)
        BY <2>1, <2>3, <2>5, <2>6, <2>7, <2>9
      <3> QED BY <2>1, <2>2, <3>1, <3>2, <3>3 DEF Line, Attaching, Sending
    <2> QED BY <1>1, <1>2, <2>1, <2>2, <2>3, <2>10, QuietRun DEF y, Going
  <1>3. CASE Set(r, OutOfTime(x))
    BY <1>1, <1>3, HaltsTo, LeavingOn DEF Send
  <1>4. CASE LineFails(r)
    BY <1>1, <1>4, LineFailsKeeps DEF Send
  <1> QED BY <1>2, <1>3, <1>4 DEF Send

(* The answer heard, or not. *)
LEMMA AnswerKeeps ==
  ASSUME LInv, IInv', NEW r \in Runs, Answer(r)
  PROVE  LInv'
  <1> DEFINE x == run[r]
  <1>1. x \in Run /\ x.pc = "asked"
    BY RunFacts DEF Answer, LInv
  <1>2. UNCHANGED <<dv, conn, series, due>>
    BY DEF Answer
  <1>3. \A e \in Entries : late'[e] > 0 => late[e] > 0
    <2>1. CASE late' = late
      BY <2>1
    <2>2. CASE late' = [late EXCEPT ![Cur(x)] = 0]
      BY <2>2, Types DEF LInv
    <2> QED BY <2>1, <2>2 DEF Answer
  <1>4. ASSUME NEW n, Set(r, [x EXCEPT !.pc = "booked", !.at = n]) PROVE LInv'
    <2>1. Going(x, [x EXCEPT !.pc = "booked", !.at = n]) /\ [x EXCEPT !.pc = "booked", !.at = n].pc = "booked"
      BY <1>1 DEF Run, Going
    <2> QED BY <1>1, <1>2, <1>3, <1>4, <2>1, GoingOn DEF Sending, Attaching
  <1>5. ASSUME NEW k, Set(r, [x EXCEPT !.pc = "requeue", !.then = k]) PROVE LInv'
    <2>1. Going(x, [x EXCEPT !.pc = "requeue", !.then = k]) /\ [x EXCEPT !.pc = "requeue", !.then = k].pc = "requeue"
      BY <1>1 DEF Run, Going
    <2> QED BY <1>1, <1>2, <1>3, <1>5, <2>1, GoingOn DEF Sending, Attaching
  <1>6. CASE Set(r, Quieted(x))
    BY <1>1, <1>2, <1>3, <1>6, HaltsTo, LeavingOn
  <1> QED BY <1>4, <1>5, <1>6 DEF Answer

(* The PDFs still owed read. *)
LEMMA ReadOwedKeeps ==
  ASSUME LInv, IInv', NEW r \in Runs, ReadOwed(r)
  PROVE  LInv'
  <1> DEFINE x == run[r]
             g == [e \in Entries |-> IF e \in x.tried THEN NoDelivery ELSE Read(x.conn, {"BOOKED"})[e]]
             y == [x EXCEPT !.pc = "next", !.owed = TRUE, !.seen = g]
  <1>1. x \in Run /\ x.pc = "owed"
    BY RunFacts DEF ReadOwed, LInv
  <1>2. Set(r, y)
    BY DEF ReadOwed
  <1>3. y.pc = "next" /\ y.owed /\ y.conn = x.conn
    <2> HIDE DEF g
    <2> QED BY <1>1 DEF Run
  <1>4. run'[r] = y
    BY <1>2, Types DEF LInv, Set
  <1> HIDE DEF y
  <1>5. Line(r)'
    BY <1>3, <1>4 DEF Line, Sending
  <1> QED BY <1>1, <1>2, <1>3, <1>5, QuietRun DEF ReadOwed

(* A PDF owed is taken up, or the night is reached. *)
LEMMA NextOwedKeeps ==
  ASSUME LInv, IInv', NEW r \in Runs, NextOwed(r)
  PROVE  LInv'
  <1> DEFINE x == run[r]
  <1>1. x \in Run /\ x.pc = "next" /\ x.owed
    BY RunFacts DEF NextOwed, LInv, Line
  <1>2. CASE \E p \in {"night", "pdf"} : Set(r, [x EXCEPT !.pc = p])
    <2>0. PICK p \in {"night", "pdf"} : Set(r, [x EXCEPT !.pc = p])
      BY <1>2
    <2>1. Going(x, [x EXCEPT !.pc = p]) /\ [x EXCEPT !.pc = p].pc = p
      BY <1>1 DEF Run, Going
    <2> QED BY <1>1, <2>0, <2>1, GoingOn DEF NextOwed, Sending, Attaching
  <1>3. CASE Set(r, [x EXCEPT !.pc = "night", !.out = TRUE, !.seen = Nothing])
    <2>1. Leaving(x, [x EXCEPT !.pc = "night", !.out = TRUE, !.seen = Nothing])
      BY <1>1 DEF Run, Leaving, Sending
    <2> QED BY <1>1, <1>3, <2>1, LeavingOn DEF NextOwed
  <1> QED BY <1>2, <1>3 DEF NextOwed

(* A call for a PDF that fails passes it over, or ends the run. *)
LEMMA PdfFailsKeeps ==
  ASSUME LInv, IInv', NEW r \in Runs, run[r].pc \in Attaching, PdfFails(r), UNCHANGED <<dv, conn, series, late, due>>
  PROVE  LInv'
  <1>1. run[r] \in Run /\ run[r].pc # "idle" /\ Todo(run[r]) # {}
    BY RunFacts DEF LInv, Attaching, Busy
  <1>2. CASE Set(r, Missing(run[r]))
    <2>1. \E y : Set(r, y) /\ Passing(run[r], y)
      BY <1>1, <1>2, PassesTo
    <2> QED BY <1>1, <2>1, PassingOn
  <1>3. CASE \E s : Set(r, [Ended(run[r]) EXCEPT !.stop = s])
    BY <1>1, <1>3, EndsTo, LeavingOn
  <1> QED BY <1>2, <1>3 DEF PdfFails

(* A PDF is read and uploaded, or fails. *)
LEMMA AttachPdfKeeps ==
  ASSUME LInv, IInv', NEW r \in Runs, AttachPdf(r)
  PROVE  LInv'
  <1> DEFINE x == run[r]
  <1>1. x \in Run /\ x.pc = "pdf" /\ x.pc \in Attaching /\ Todo(x) # {}
    BY RunFacts DEF AttachPdf, LInv, Attaching, Busy
  <1>2. CASE Set(r, [PastPdf(x) EXCEPT !.out = TRUE])
    <2>1. \E y : Set(r, y) /\ Passing(x, y)
      BY <1>1, <1>2, PassesTo
    <2> QED BY <1>1, <2>1, PassingOn DEF AttachPdf
  <1>3. CASE \E p \in {"connect", "found", "keep"} : Set(r, [x EXCEPT !.pc = p])
    <2>1. \E y : Set(r, y) /\ Going(x, y) /\ y.pc \in {"connect", "found", "keep"}
      BY <1>1, <1>3 DEF Run, Going
    <2> QED BY <1>1, <2>1, GoingOn DEF AttachPdf, Sending, Attaching
  <1>4. CASE PdfFails(r)
    BY <1>1, <1>4, PdfFailsKeeps DEF AttachPdf
  <1> QED BY <1>2, <1>3, <1>4 DEF AttachPdf

(* A file is connected, or fails. *)
LEMMA ConnectFileKeeps ==
  ASSUME LInv, IInv', NEW r \in Runs, ConnectFile(r)
  PROVE  LInv'
  <1> DEFINE x == run[r]
  <1>1. x \in Run /\ x.pc = "connect" /\ x.pc \in Attaching
    BY RunFacts DEF ConnectFile, LInv, Attaching
  <1>2. CASE Set(r, [x EXCEPT !.pc = "done"])
    <2>1. \E y : Set(r, y) /\ Going(x, y) /\ y.pc \in {"done"}
      BY <1>1, <1>2 DEF Run, Going
    <2> QED BY <1>1, <2>1, GoingOn DEF ConnectFile, Sending, Attaching
  <1>3. CASE PdfFails(r)
    BY <1>1, <1>3, PdfFailsKeeps DEF ConnectFile
  <1> QED BY <1>2, <1>3 DEF ConnectFile

(* The night, a read that fails, a death, and what a run says at its end.   *)
LEMMA EndKeeps ==
  ASSUME LInv, IInv', NEW r \in Runs, Night(r) \/ Throw(r) \/ Crash(r) \/ Settle(r)
  PROVE  LInv'
  <1> DEFINE x == run[r]
  <1>1. x \in Run
    BY RunFacts DEF LInv
  <1>2. CASE Night(r)
    <2>1. x.pc = "night"
      BY <1>2 DEF Night
    <2>2. CASE Set(r, [x EXCEPT !.pc = "file"])
      <3>1. \E y : Set(r, y) /\ Going(x, y) /\ y.pc \in {"file"}
        BY <1>1, <2>2 DEF Run, Going
      <3> QED BY <1>1, <1>2, <2>1, <3>1, GoingOn DEF Night, Sending, Attaching
    <2>3. CASE \E y : Set(r, y) /\ Leaving(x, y)
      BY <1>2, <2>1, <2>3, LeavingOn DEF Night
    <2> QED BY <1>1, <1>2, <2>2, <2>3, EndsTo DEF Night
  <1>3. CASE Throw(r)
    BY <1>1, <1>3, EndsTo, LeavingOn DEF Throw
  <1>4. CASE Crash(r)
    <2>1. Leaving(x, NewRun)
      BY DEF Leaving, NewRun, Sending
    <2> QED BY <1>4, <2>1, LeavingOn DEF Crash
  <1>5. CASE Settle(r)
    <2> DEFINE reason == IF x.stop.kind # "none" THEN x.stop ELSE x.overdue
               b == reason.kind = "none" /\ Restores(x)
    <2>1. \/ Set(r, [x EXCEPT !.pc = "release"])
          \/ Set(r, [x EXCEPT !.pc = "state", !.stop = At("stop", NoEntry)])
          \/ Set(r, [x EXCEPT !.pc = "state", !.stop = reason, !.restore = b])
      BY <1>5, Zenon DEF Settle
    <2> HIDE DEF reason, b
    <2>2. UNCHANGED <<dv, conn, series, late, due>> /\ x.pc = "settle"
      BY <1>5 DEF Settle
    <2>3. ASSUME NEW y, Set(r, y), Going(x, y), y.pc \in {"release", "state"} PROVE LInv'
      BY <2>2, <2>3, GoingOn DEF Sending, Attaching
    <2>4. CASE Set(r, [x EXCEPT !.pc = "release"])
      <3>1. Going(x, [x EXCEPT !.pc = "release"]) /\ [x EXCEPT !.pc = "release"].pc = "release"
        BY <1>1 DEF Run, Going
      <3> QED BY <2>3, <2>4, <3>1
    <2>5. ASSUME NEW s, Set(r, [x EXCEPT !.pc = "state", !.stop = s]) PROVE LInv'
      <3>1. Going(x, [x EXCEPT !.pc = "state", !.stop = s]) /\ [x EXCEPT !.pc = "state", !.stop = s].pc = "state"
        BY <1>1 DEF Run, Going
      <3> QED BY <2>3, <2>5, <3>1
    <2>6. ASSUME NEW s, NEW t, Set(r, [x EXCEPT !.pc = "state", !.stop = s, !.restore = t]) PROVE LInv'
      <3>1. /\ Going(x, [x EXCEPT !.pc = "state", !.stop = s, !.restore = t])
            /\ [x EXCEPT !.pc = "state", !.stop = s, !.restore = t].pc = "state"
        BY <1>1 DEF Run, Going
      <3> QED BY <2>3, <2>6, <3>1
    <2> QED BY <2>1, <2>4, <2>5, <2>6
  <1> QED BY <1>2, <1>3, <1>4, <1>5

-----------------------------------------------------------------------------
(* The request leaves, and what is written of the entry at hand. *)

(* The request leaves: it was about to. *)
LEMMA AskKeeps ==
  ASSUME LInv, IInv', NEW r \in Runs, Ask(r)
  PROVE  LInv'
  <1> DEFINE x == run[r]
  <1>1. x \in Run /\ x.pc = "ask" /\ Cur(x) \in Entries /\ IInv
    BY RunFacts DEF Ask, LInv, Busy
  <1>2. CASE Asks(r) /\ late' = [late EXCEPT ![Cur(x)] = Landing] /\ Set(r, [x EXCEPT !.pc = "asked"])
    <2>1. PICK y : y = [x EXCEPT !.pc = "asked"]
      OBVIOUS
    <2>2. Going(x, y) /\ y.pc = "asked"
      BY <1>1, <2>1 DEF Run, Going
    <2>3. UNCHANGED <<dv, conn, series, due>>
      BY DEF Ask
    <2>4. run' = [run EXCEPT ![r] = y] /\ run'[r] = y /\ Set(r, y)
      BY <1>1, <1>2, <2>1, Types DEF Set
    <2>5. AsksKept
      BY <1>1, <2>2, <2>4, Types, NotAsking
    <2>6. ASSUME NEW e \in Entries, Pending(e)' PROVE Pending(e)
      <3>1. CASE \E q \in Runs : Asking(q, e)'
        BY <2>5, <3>1, FewerAsks DEF Pending
      <3>2. CASE late'[e] > 0 /\ e # Cur(x)
        BY <1>1, <1>2, <3>2, Types DEF Pending
      <3>3. CASE e = Cur(x)
        BY <1>1, <1>2, <3>3 DEF Pending, Asking, Asks
      <3> QED BY <2>6, <3>1, <3>2, <3>3 DEF Pending
    <2>7. Still
      <3>1. \A e \in Entries : Word(e) => Word(e)'
        BY <2>3 DEF Word
      <3>2. ASSUME NEW e \in Entries, Pending(e)', dv[e].state = "SENDING" PROVE dv'[e].state = "SENDING"
        BY <2>3, <3>2
      <3> QED BY <2>3, <2>6, <3>1, <3>2, SameConns DEF Still
    <2>8. \A q \in Runs : run'[q].conn = run[q].conn
      BY <2>2, <2>4, Types, <1>1 DEF Going
    <2>9. \A q \in Runs : Holds(q)' => Holds(q)
      BY <2>3, <2>8 DEF Holds
    <2>10. Line(r)'
      BY <1>1, <2>2, <2>4, <2>7, <2>9, LineGoes DEF Going, Sending, Attaching
    <2>11. y.conn \in Conns /\ conn[y.conn].status # "NONE"
      BY <1>1, <2>2, RunFacts DEF LInv, Books, Known, Going
    <2> QED BY <2>3, <2>4, <2>7, <2>9, <2>10, <2>11, RunKeeps
  <1>3. CASE Set(r, Quieted(x)) /\ UNCHANGED late
    BY <1>1, <1>3, HaltsTo, LeavingOn DEF Ask
  <1> QED BY <1>2, <1>3 DEF Ask

(* A delivery of which nothing is under way goes on from being sent.        *)
LEMMA WriteStill ==
  ASSUME IInv, AsksKept, NEW e \in Entries, NEW o, dv' = [dv EXCEPT ![e] = o],
         dv[e].state \in {"SENDING", "BOOKED"}, dv[e].state = "SENDING" => ~Pending(e),
         o.state \notin {"NEW", "SENDING"}, o.state = "QUEUED" => dv[e].state = "SENDING",
         o.conn = dv[e].conn, o.denied = dv[e].denied, UNCHANGED <<conn, series, late>>
  PROVE  Still
  <1>1. \A f \in Entries : dv'[f] = IF f = e THEN o ELSE dv[f]
    BY Types
  <1>2. ASSUME NEW f \in Entries, Pending(f)' PROVE Pending(f)
    BY <1>2, FewerAsks DEF Pending
  <1>3. \A f \in Entries : Word(f) => Word(f)'
    BY <1>1 DEF Word
  <1>4. \A f \in Entries : dv[f].state # "NEW" => dv'[f].state # "NEW" /\ dv'[f].conn = dv[f].conn
    BY <1>1
  <1>5. \A f \in Entries : dv'[f].state \in Owed => dv[f].state \in Owed
    BY <1>1 DEF Owed
  <1>6. \A f \in Entries : dv'[f].state = "SENDING" => dv[f].state = "SENDING" /\ dv'[f].next = dv[f].next
    BY <1>1
  <1>7. ASSUME NEW f \in Entries, dv[f].state = "SENDING", Pending(f)' PROVE dv'[f].state = "SENDING"
    BY <1>1, <1>2, <1>7
  <1> QED BY <1>2, <1>3, <1>4, <1>5, <1>6, <1>7, SameConns DEF Still

(* A run that goes on with what it read, to no step it would need more for. *)
Onwards(x, y) ==
  /\ Going(x, y)
  /\ y.pc \notin {"ask", "intent", "next"}
  /\ y.pc \in Sending => x.pc \in Sending
  /\ y.pc \in Attaching => x.pc \in Attaching \/ x.owed

(* What is before a run that moves on, whatever it writes of its entry.      *)
LEMMA MovesLine ==
  ASSUME LInv, IInv', Still, NEW r \in Runs, NEW y, run[r].pc \in Busy, Set(r, y), conn' = conn,
         \/ Leaving(run[r], y)
         \/ Onwards(run[r], y)
         \/ Passing(run[r], y) /\ run[r].pc \in Attaching
  PROVE  Line(r)'
  <1>1. run'[r] = y /\ run[r].pc # "idle"
    BY Types DEF LInv, Set, Busy
  <1>2. y.conn = run[r].conn => (Holds(r)' => Holds(r))
    BY <1>1 DEF Holds
  <1>3. CASE Leaving(run[r], y)
    BY <1>1, <1>3, LineEmpty DEF Leaving
  <1>4. CASE Onwards(run[r], y)
    <2>1. /\ y.conn = run[r].conn /\ y.owed = run[r].owed /\ y.seen = run[r].seen
          /\ y.pc # "intent" /\ y.pc # "next"
          /\ y.pc \in Sending => run[r].pc \in Sending
          /\ y.pc \in Attaching => run[r].pc \in Attaching \/ run[r].owed
      BY <1>4 DEF Onwards, Going
    <2> QED BY <1>1, <1>2, <2>1, LineGoes
  <1>5. CASE Passing(run[r], y) /\ run[r].pc \in Attaching
    BY <1>1, <1>2, <1>5, LinePast DEF Passing
  <1> QED BY <1>3, <1>4, <1>5

(* The holder of the lease writes that delivery.                            *)
LEMMA WriteKeeps ==
  ASSUME LInv, IInv', NEW r \in Runs, NEW y, run[r].pc \in Busy, Holds(r), Set(r, y), y.pc # "ask",
         y.pc # "idle" => y.conn = run[r].conn,
         UNCHANGED <<conn, series, due>>,
         \A f \in Entries : (dv'[f].state = "NEW" <=> dv[f].state = "NEW") /\ dv'[f].conn = dv[f].conn,
         Still, Line(r)'
  PROVE  LInv'
  <1>1. IInv /\ run \in [Runs -> Run] /\ run' = [run EXCEPT ![r] = y] /\ run'[r] = y
    BY Types DEF LInv, Set
  <1>2. run[r].pc # "idle"
    BY DEF Busy
  <1>5. \A q \in Runs : q # r => (Holds(q)' => Holds(q))
    BY <1>1 DEF Holds
  <1>6. y.pc # "idle" => y.conn \in Conns /\ conn[y.conn].status # "NONE"
    BY <1>1, <1>2, RunFacts DEF LInv, Books, Known
  <1>9. \A q \in Runs \ {r} : Holds(q) => run[q].pc = "idle"
    BY <1>2, OneHolder
  <1>11. \A q \in Runs \ {r} :
           /\ run[q].pc # "idle" /\ Holds(q)' => Holds(q)
           /\ Holds(q) /\ run[q].pc = "intent" /\ dv'[Cur(run[q])].state = "QUEUED" =>
                dv[Cur(run[q])].state = "QUEUED"
    BY <1>5, <1>9
  <1>12. \A c \in Conns : conn'[c].status # "NONE" => conn[c].status # "NONE"
    OBVIOUS
  <1>13. due' = due
    OBVIOUS
  <1> QED BY <1>1, <1>6, <1>11, <1>12, <1>13, RunKeeps

(* A run that moves on from such a write. *)
LEMMA WritesOn ==
  ASSUME LInv, IInv', NEW r \in Runs, NEW y, run[r].pc \in Busy, Holds(r), Set(r, y),
         \/ Leaving(run[r], y)
         \/ Onwards(run[r], y)
         \/ Passing(run[r], y) /\ run[r].pc \in Attaching,
         NEW e \in Entries, NEW o, dv' = [dv EXCEPT ![e] = o],
         dv[e].state \in {"SENDING", "BOOKED"}, dv[e].state = "SENDING" => ~Pending(e),
         o.state \notin {"NEW", "SENDING"}, o.state = "QUEUED" => dv[e].state = "SENDING",
         o.conn = dv[e].conn, o.denied = dv[e].denied, UNCHANGED <<conn, series, late, due>>
  PROVE  LInv'
  <1>1. IInv /\ run \in [Runs -> Run] /\ dv \in [Entries -> Delivery]
    BY Types DEF LInv
  <1>2. y.pc # "ask" /\ (y.pc # "idle" => y.conn = run[r].conn)
    BY DEF Leaving, Onwards, Going, Passing
  <1>3. AsksKept
    BY <1>1, <1>2, NotAsking
  <1>4. Still
    BY <1>1, <1>3, WriteStill
  <1>5. Line(r)'
    BY <1>4, MovesLine
  <1>6. \A f \in Entries : (dv'[f].state = "NEW" <=> dv[f].state = "NEW") /\ dv'[f].conn = dv[f].conn
    BY <1>1
  <1> QED BY <1>2, <1>4, <1>5, <1>6, WriteKeeps

(* A PDF marked as kept. *)
LEMMA KeepMarkKeeps ==
  ASSUME LInv, IInv', NEW r \in Runs, KeepMark(r)
  PROVE  LInv'
  <1> DEFINE x == run[r]
  <1>1. x \in Run /\ x.pc = "keep" /\ x.pc \in Busy /\ IInv /\ x.pc # "idle"
    BY RunFacts DEF KeepMark, Busy, LInv
  <1>2. UNCHANGED <<conn, series, late, due>>
    BY DEF KeepMark
  <1>3. PICK e \in Entries : e = Cur(x)
    BY <1>1, RunFacts
  <1>4. CASE dv' = dv /\ Set(r, Cut(x))
    BY <1>1, <1>2, <1>4, EndsTo, LeavingOn
  <1>5. ASSUME NEW y, Set(r, y), Holds(r), dv[e].state = "BOOKED", dv' = [dv EXCEPT ![e].kept = TRUE],
               Leaving(x, y) \/ Onwards(x, y)
        PROVE  LInv'
    <2>1. PICK o : o = [dv[e] EXCEPT !.kept = TRUE]
      OBVIOUS
    <2>2. dv[e] \in Delivery /\ dv \in [Entries -> Delivery]
      BY <1>1, Types
    <2>3. o.state = "BOOKED" /\ o.conn = dv[e].conn /\ o.denied = dv[e].denied /\ dv' = [dv EXCEPT ![e] = o]
      BY <1>5, <2>1, <2>2 DEF Delivery
    <2>6. /\ dv[e].state \in {"SENDING", "BOOKED"} /\ (dv[e].state = "SENDING" => ~Pending(e))
          /\ o.state \notin {"NEW", "SENDING"} /\ (o.state = "QUEUED" => dv[e].state = "SENDING")
      BY <1>5, <2>3
    <2> QED BY <1>1, <1>2, <1>5, <2>3, <2>6, WritesOn
  <1>6. Onwards(x, [x EXCEPT !.pc = "connect"])
    BY <1>1 DEF Run, Onwards, Going, Sending, Attaching
  <1>7. Leaving(x, Cut(x))
    BY <1>1, EndsTo
  <1> QED BY <1>3, <1>4, <1>5, <1>6, <1>7 DEF KeepMark, Lost

(* A delivery done. *)
LEMMA WriteDoneKeeps ==
  ASSUME LInv, IInv', NEW r \in Runs, WriteDone(r)
  PROVE  LInv'
  <1> DEFINE x == run[r]
  <1>1. x \in Run /\ x.pc \in Attaching /\ x.pc \in Busy /\ IInv /\ x.pc # "idle" /\ Todo(x) # {}
    BY RunFacts DEF WriteDone, Busy, LInv, Attaching
  <1>2. UNCHANGED <<conn, series, late, due>>
    BY DEF WriteDone
  <1>3. PICK e \in Entries : e = Cur(x)
    BY <1>1, RunFacts
  <1>4. CASE dv' = dv /\ Set(r, Cut(x))
    BY <1>1, <1>2, <1>4, EndsTo, LeavingOn
  <1>5. ASSUME NEW y, Set(r, y), Holds(r), dv[e].state = "BOOKED",
               dv' = [dv EXCEPT ![e].state = "DONE", ![e].kept = TRUE, ![e].old = FALSE],
               Leaving(x, y) \/ Passing(x, y)
        PROVE  LInv'
    <2>1. PICK o : o = [dv[e] EXCEPT !.state = "DONE", !.kept = TRUE, !.old = FALSE]
      OBVIOUS
    <2>2. dv[e] \in Delivery /\ dv \in [Entries -> Delivery]
      BY <1>1, Types
    <2>3. o.state = "DONE" /\ o.conn = dv[e].conn /\ o.denied = dv[e].denied /\ dv' = [dv EXCEPT ![e] = o]
      BY <1>5, <2>1, <2>2 DEF Delivery
    <2>6. /\ dv[e].state \in {"SENDING", "BOOKED"} /\ (dv[e].state = "SENDING" => ~Pending(e))
          /\ o.state \notin {"NEW", "SENDING"} /\ (o.state = "QUEUED" => dv[e].state = "SENDING")
      BY <1>5, <2>3
    <2> QED BY <1>1, <1>2, <1>5, <2>3, <2>6, WritesOn
  <1>6. \A b : Passing(x, [PastPdf(x) EXCEPT !.attached = b])
    BY <1>1, PassesTo
  <1>7. Leaving(x, Cut(x))
    BY <1>1, EndsTo
  <1> QED BY <1>3, <1>4, <1>5, <1>6, <1>7 DEF WriteDone, Lost

(* An entry goes back to the line: of it there is nothing under way.        *)
LEMMA RequeueKeeps ==
  ASSUME LInv, IInv', NEW r \in Runs, Requeue(r)
  PROVE  LInv'
  <1> DEFINE x == run[r]
  <1>1. x \in Run /\ x.pc = "requeue" /\ x.pc \in Busy /\ IInv /\ x.pc # "idle"
    BY RunFacts DEF Requeue, Busy, LInv
  <1>2. UNCHANGED <<conn, series, late, due>>
    BY DEF Requeue
  <1>3. PICK e \in Entries : e = Cur(x)
    BY <1>1, RunFacts
  <1>4. CASE dv' = dv /\ Set(r, Quieted(x))
    BY <1>1, <1>2, <1>4, HaltsTo, LeavingOn
  <1>5. ASSUME NEW y, Set(r, y), Holds(r), dv[e].state = "SENDING",
               dv' = [dv EXCEPT ![e].state = "QUEUED", ![e].next = 0, ![e].age = 0],
               Leaving(x, y) \/ Onwards(x, y)
        PROVE  LInv'
    <2>1. PICK o : o = [dv[e] EXCEPT !.state = "QUEUED", !.next = 0, !.age = 0]
      OBVIOUS
    <2>2. dv[e] \in Delivery /\ dv \in [Entries -> Delivery]
      BY <1>1, Types
    <2>3. o.state = "QUEUED" /\ o.conn = dv[e].conn /\ o.denied = dv[e].denied /\ dv' = [dv EXCEPT ![e] = o]
      BY <1>5, <2>1, <2>2 DEF Delivery
    <2>5. ~Pending(e)
      <3>1. Clear(e)
        BY <1>1, <1>3, <1>5 DEF IInv, Reading
      <3> QED BY <3>1 DEF Clear, Pending
    <2>6. /\ dv[e].state \in {"SENDING", "BOOKED"} /\ (dv[e].state = "SENDING" => ~Pending(e))
          /\ o.state \notin {"NEW", "SENDING"} /\ (o.state = "QUEUED" => dv[e].state = "SENDING")
      BY <1>5, <2>3, <2>5
    <2> QED BY <1>1, <1>2, <1>5, <2>3, <2>6, WritesOn
  <1>6. Onwards(x, [x EXCEPT !.pc = "send", !.then = "none"])
    <2>1. LET y == [x EXCEPT !.pc = "send", !.then = "none"] IN y.pc = "send" /\ Going(x, y)
      BY <1>1 DEF Run, Going
    <2> QED BY <1>1, <2>1 DEF Onwards, Sending, Attaching
  <1>7. Leaving(x, Quieted(x)) /\ \A k : Leaving(x, StopAt(x, k))
    BY <1>1, HaltsTo
  <1>8. ASSUME CASE x.then = "send" -> Set(r, [x EXCEPT !.pc = "send", !.then = "none"])
                 [] x.then = "rate" -> Set(r, Quieted(x))
                 [] OTHER -> Set(r, StopAt(x, x.then))
        PROVE  \E y : Set(r, y) /\ (Leaving(x, y) \/ Onwards(x, y))
    BY <1>6, <1>7, <1>8
  <1> QED BY <1>3, <1>4, <1>5, <1>7, <1>8 DEF Requeue, Lost

(* The run after a voucher is written is still at its entry. *)
LEMMA PastVoucherTo ==
  ASSUME NEW x \in Run, Todo(x) # {}, NEW e, e = Cur(x)
  PROVE  LET y == PastVoucher(x, e)
         IN  y.pc = "pdf" /\ y.conn = x.conn /\ y.owed = x.owed /\ Todo(y) = Todo(x) /\ Cur(y) = e
  <1> DEFINE o == [x.seen[e] EXCEPT !.state = "BOOKED", !.next = 0, !.age = 0]
             g == [x.seen EXCEPT ![e] = o]
             y == [x EXCEPT !.pc = "pdf", !.booked = TRUE, !.at = 0, !.seen = g]
  <1>1. x.seen[e] \in Delivery /\ e \in Entries /\ x.seen \in [Entries -> Delivery]
    <2>1. x.seen \in [Entries -> Delivery]
      BY Zenon DEF Run
    <2> QED BY <2>1, Current
  <1>2. o.state = "BOOKED"
    BY <1>1 DEF Delivery
  <1>3. PastVoucher(x, e) = y
    BY <1>1 DEF PastVoucher
  <1> HIDE DEF o
  <1>4. g[e] = o /\ \A f \in Entries : f # e => g[f] = x.seen[f]
    BY <1>1
  <1> HIDE DEF g
  <1>5. y.pc = "pdf" /\ y.seen = g /\ y.conn = x.conn /\ y.owed = x.owed
    BY DEF Run
  <1> HIDE DEF y
  <1>6. \A f \in Entries : g[f].state # "NEW" <=> x.seen[f].state # "NEW"
    <2>1. x.seen[e].state # "NEW"
      BY Current DEF Todo
    <2> QED BY <1>2, <1>4, <2>1
  <1>7. Todo(y) = Todo(x)
    BY <1>5, <1>6 DEF Todo
  <1> QED BY <1>3, <1>5, <1>7 DEF Cur

(* A delivery booked: its voucher is there, so nothing of it is under way.  *)
LEMMA WriteBookedKeeps ==
  ASSUME LInv, IInv', NEW r \in Runs, WriteBooked(r)
  PROVE  LInv'
  <1> DEFINE x == run[r]
  <1>1. x \in Run /\ x.pc = "booked" /\ x.pc \in Busy /\ IInv /\ x.pc # "idle" /\ Todo(x) # {}
    BY RunFacts DEF WriteBooked, Busy, LInv
  <1>2. UNCHANGED <<conn, series, late, due>>
    BY DEF WriteBooked
  <1>3. PICK e \in Entries : e = Cur(x)
    BY <1>1, RunFacts
  <1>4. CASE dv' = dv /\ Set(r, Quieted(x))
    BY <1>1, <1>2, <1>4, HaltsTo, LeavingOn
  <1>5. ~Pending(e)
    <2>1. x.at \in DOMAIN series /\ series[x.at] = e
      BY <1>1, <1>3 DEF IInv, Reading
    <2>2. x.at \in Made(e, 1)
      BY <1>1, <2>1, Types DEF Made
    <2> QED BY <1>1, <2>2, PendingFacts
  <1>6. ASSUME Holds(r), dv[e].state = "SENDING",
               dv' = [dv EXCEPT ![e].state = "BOOKED", ![e].number = x.at, ![e].next = 0, ![e].age = 0],
               Set(r, PastVoucher(x, e)) \/ Set(r, Quieted(x))
        PROVE  LInv'
    <2>1. PICK o : o = Booked(e, x.at)
      OBVIOUS
    <2>2. dv[e] \in Delivery /\ dv \in [Entries -> Delivery] /\ run \in [Runs -> Run]
      BY <1>1, Types
    <2>3. o.state = "BOOKED" /\ o.conn = dv[e].conn /\ o.denied = dv[e].denied /\ dv' = [dv EXCEPT ![e] = o]
      BY <1>6, <2>1, <2>2 DEF Delivery, Booked
    <2>4. CASE Set(r, Quieted(x))
      <3>1. Leaving(x, Quieted(x))
        BY <1>1, HaltsTo
      <3>2. PICK y : y = Quieted(x)
        OBVIOUS
      <3> QED BY <1>1, <1>2, <1>5, <1>6, <2>3, <2>4, <3>1, <3>2, WritesOn
    <2>5. CASE Set(r, PastVoucher(x, e))
      <3>1. PICK y : y = PastVoucher(x, e)
        OBVIOUS
      <3>2. y.pc = "pdf" /\ y.conn = x.conn /\ y.owed = x.owed /\ Todo(y) = Todo(x) /\ Cur(y) = e
        BY <1>1, <1>3, <3>1, PastVoucherTo
      <3>3. run'[r] = y /\ Set(r, y)
        BY <2>2, <2>5, <3>1 DEF Set
      <3>4. AsksKept
        BY <2>2, <3>2, <3>3, NotAsking
      <3>5. Still
        BY <1>1, <1>2, <1>5, <1>6, <2>3, <3>4, WriteStill
      <3>6. \A f \in Entries : (dv'[f].state = "NEW" <=> dv[f].state = "NEW") /\ dv'[f].conn = dv[f].conn
        BY <1>6, <2>2, <2>3
      <3>7. Line(r)'
        <4>1. Line(r) /\ ~x.owed
          BY <1>1 DEF LInv, Line, Sending
        <4>2. dv'[e].state = "BOOKED"
          BY <2>2, <2>3
        <4>3. ASSUME NEW f \in Todo(x), NEW g \in Entries, g < f, dv'[g].conn = x.conn, dv'[g].state \in Owed
              PROVE  g \in Todo(x)
          <5>1. dv[g].state # "NEW"
            BY <3>6, <4>3 DEF Owed
          <5>2. dv[g].conn = x.conn /\ dv[g].state \in Owed
            BY <3>5, <3>6, <4>3, <5>1 DEF Still
          <5> QED BY <1>1, <1>6, <4>1, <4>3, <5>2 DEF Line
        <4> QED BY <3>2, <3>3, <4>1, <4>2, <4>3 DEF Line, Sending, Attaching, Owed
      <3> QED BY <1>1, <1>2, <1>6, <3>2, <3>3, <3>5, <3>6, <3>7, WriteKeeps
    <2> QED BY <1>6, <2>4, <2>5
  <1> QED BY <1>3, <1>4, <1>6 DEF WriteBooked, Lost, PastVoucher

-----------------------------------------------------------------------------
(* The intent. *)

(* A run about to write its intent has the line's turn: what its connection *)
(* is owed before the entry is through, and nothing of it is under way.     *)
LEMMA ItsTurn ==
  ASSUME LInv, NEW r \in Runs, run[r].pc = "intent", Holds(r), NEW e \in Entries, e = Cur(run[r]),
         dv[e].state = "QUEUED"
  PROVE  /\ dv[e].conn = run[r].conn /\ dv[e].conn \in Conns /\ Open(dv[e].conn)
         /\ ~Pending(e) /\ ~dv[e].denied
         /\ \A f \in Entries : f < e /\ dv[f].conn = dv[e].conn =>
              dv[f].state \notin Owed /\ (InSeries(f) \/ Word(f))
         /\ \A f \in Entries : dv[f].conn = dv[e].conn => ~Pending(f) /\ dv[f].state # "SENDING"
         /\ \A f \in Entries : dv[f].state = "SENDING" => ~Open(dv[f].conn)
         /\ \A f \in Entries : Pending(f) => ~Open(dv[f].conn)
  <1> DEFINE x == run[r]
             c == dv[e].conn
  <1>1. IInv /\ Line(r) /\ Books /\ e \in Todo(x) /\ x.pc # "idle" /\ ~x.owed /\ x \in Run
    BY RunFacts DEF LInv, Busy, Line, Sending
  <1>2. Clear(e) /\ c = x.conn /\ ~dv[e].denied
    BY <1>1, IntentKept
  <1>3. c \in Conns /\ Open(c) /\ conn[c].status # "NONE"
    BY <1>1, <1>2, HeldOpen
  <1>4. ~Pending(e)
    BY <1>2, ConstantFacts DEF Clear, Pending
  <1>5. ASSUME NEW f \in Entries, f < e, dv[f].conn = c
        PROVE  dv[f].state \notin Owed /\ (InSeries(f) \/ Word(f))
    <2>1. dv[f].state \notin Owed
      <3>1. dv[f].state \in Owed => f \in Todo(x)
        BY <1>1, <1>2, <1>5 DEF Line
      <3>2. Todo(x) \subseteq Nat /\ Todo(x) # {}
        BY <1>1, ConstantFacts DEF Todo
      <3>3. \A g \in Todo(x) : e <= g
        BY <3>2, Least DEF Cur
      <3>4. f \in Nat /\ e \in Nat
        BY ConstantFacts
      <3> QED BY <1>5, <3>1, <3>3, <3>4
    <2>2. dv[f] \in Delivery /\ Told(f)
      BY <1>1, Types DEF IInv
    <2>3. dv[f].state # "NEW" /\ dv[f].state \in States
      BY <1>3, <1>5, <2>2, ConstantFacts DEF Told, Delivery
    <2>4. dv[f].state \in {"BOOKED", "DONE"} => InSeries(f)
      <3>1. \A n \in DOMAIN series : n >= 1
        BY <1>1, Types
      <3> QED BY <2>2, <3>1 DEF Told, InSeries, Made
    <2>5. dv[f].state \in {"BY_HAND", "DOWNLOADED"} => Word(f)
      BY DEF Word
    <2> QED BY <2>1, <2>3, <2>4, <2>5 DEF States, Owed
  <1>6. ASSUME NEW f \in Entries, dv[f].state = "SENDING", dv[f].conn = c PROVE FALSE
    <2>1. f \in Nat /\ e \in Nat
      BY ConstantFacts
    <2>2. ~(f < e)
      BY <1>5, <1>6 DEF Owed
    <2>3. ~(e < f)
      BY <1>1, <1>3, <1>6 DEF Books, Front, Owed
    <2> QED BY <1>6, <2>1, <2>2, <2>3
  <1>7. ASSUME NEW f \in Entries, Pending(f), dv[f].conn = c PROVE FALSE
    <2>1. dv[f].state = "SENDING"
      BY <1>1, <1>3, <1>7 DEF Books, Front
    <2> QED BY <1>6, <1>7, <2>1
  <1>8. ASSUME NEW f \in Entries, dv[f].state # "NEW", Open(dv[f].conn) PROVE dv[f].conn = c
    <2>1. dv[f].conn \in Conns /\ conn[dv[f].conn].status # "NONE"
      <3>1. dv[f] \in Delivery
        BY <1>1, Types
      <3> QED BY <1>1, <1>8, <3>1 DEF IInv, Told, Delivery, Books, Known
    <2> QED BY <1>3, <1>8, <2>1, OneOpen
  <1>9. \A f \in Entries : Pending(f) => ~Open(dv[f].conn)
    BY <1>1, <1>7, <1>8, PendingFacts
  <1> QED BY <1>2, <1>3, <1>4, <1>5, <1>6, <1>7, <1>8, <1>9

(* The intent written: only its entry comes under way, and in its turn.     *)
LEMMA IntentWritten ==
  ASSUME LInv, IInv', NEW r \in Runs, NEW y, run[r].pc = "intent", Holds(r), Set(r, y),
         NEW e \in Entries, e = Cur(run[r]), dv[e].state = "QUEUED",
         NEW o, dv' = [dv EXCEPT ![e] = o], o.state = "SENDING", o.next = run[r].at,
         o.conn = dv[e].conn, o.denied = dv[e].denied,
         UNCHANGED <<conn, series, late, due>>,
         y.conn = run[r].conn, y.pc # "idle",
         Leaving(run[r], y) \/ (Going(run[r], y) /\ y.pc = "ask")
  PROVE  LInv'
  <1> DEFINE x == run[r]
             c == dv[e].conn
  <1>1. IInv /\ Line(r) /\ Books /\ e \in Todo(x) /\ x.pc # "idle" /\ ~x.owed /\ x \in Run
    BY RunFacts DEF LInv, Busy, Line, Sending
  <1>2. /\ c = x.conn /\ c \in Conns /\ Open(c) /\ ~Pending(e) /\ ~dv[e].denied
        /\ \A f \in Entries : f < e /\ dv[f].conn = c => dv[f].state \notin Owed /\ (InSeries(f) \/ Word(f))
        /\ \A f \in Entries : dv[f].conn = c => ~Pending(f) /\ dv[f].state # "SENDING"
        /\ \A f \in Entries : dv[f].state = "SENDING" => ~Open(dv[f].conn)
        /\ \A f \in Entries : Pending(f) => ~Open(dv[f].conn)
    BY ItsTurn
  <1> HIDE DEF c
  <1>3. /\ run' = [run EXCEPT ![r] = y] /\ run'[r] = y /\ \A q \in Runs \ {r} : run'[q] = run[q]
    BY <1>1, Types DEF Set
  <1>4. /\ \A f \in Entries : dv'[f] = IF f = e THEN o ELSE dv[f]
        /\ \A f \in Entries : dv'[f].conn = dv[f].conn /\ (dv'[f].state = "NEW" <=> dv[f].state = "NEW")
        /\ \A f \in Entries : Word(f)' <=> Word(f)
    <2>1. \A f \in Entries : dv'[f] = IF f = e THEN o ELSE dv[f]
      BY <1>1, Types
    <2> QED BY <2>1 DEF Word
  <1>5. ASSUME NEW f \in Entries, Pending(f)', f # e PROVE Pending(f)
    <2>1. ASSUME NEW q \in Runs, Asking(q, f)' PROVE Asking(q, f)
      <3>1. q # r
        <4>1. y.pc = "ask" => Cur(y) = e
          BY DEF Leaving, Going, Cur, Todo
        <4> QED BY <1>3, <1>5, <2>1, <4>1 DEF Asking
      <3> QED BY <1>3, <2>1, <3>1 DEF Asking
    <2> QED BY <1>5, <2>1 DEF Pending
  <1>6. ASSUME NEW f \in Entries, Pending(f)' PROVE f = e \/ ~Open(dv[f].conn)
    BY <1>2, <1>5, <1>6
  <1>7. PICK n : n = x.at
    OBVIOUS
  <1>8. Window(n)' /\ o.next = n
    <2>1. Window(n) /\ \A i \in DOMAIN series : i >= n /\ series[i] # Other => dv[series[i]].conn # c
      BY <1>1, <1>2, <1>7 DEF Line
    <2>2. \A i \in DOMAIN series : series[i] # Other => dv'[series[i]].conn = dv[series[i]].conn
      BY <1>1, <1>4, VoucherFacts
    <2>3. dv'[e].conn = c
      BY <1>4 DEF c
    <2> QED BY <1>4, <1>5, <1>7, <2>1, <2>2, <2>3 DEF Window
  <1>9. \A f \in Entries : InOrder(f)'
    BY <1>1, <1>4 DEF Books, InOrder
  <1>10. \A b \in Conns : InTurn(b)'
    BY <1>1 DEF Books, InTurn
  <1>11. Known'
    <2>1. \A f \in Entries : dv'[f].state # "NEW" => conn'[dv'[f].conn].status # "NONE"
      BY <1>1, <1>4 DEF Books, Known
    <2>2. \A q \in Runs : run'[q].pc # "idle" => conn'[run'[q].conn].status # "NONE"
      <3>1. \A q \in Runs : run[q].pc # "idle" => conn[run[q].conn].status # "NONE"
        BY <1>1 DEF Books, Known
      <3>2. conn' = conn
        OBVIOUS
      <3> QED BY <1>1, <1>3, <3>1, <3>2
    <2> QED BY <2>1, <2>2 DEF Known
  <1>12. Alone'
    <2>1. ASSUME NEW f \in Entries, NEW g \in Entries, Pending(f)', Pending(g)', dv'[f].conn = dv'[g].conn
          PROVE  f = g
      <3>1. CASE f # e /\ g # e
        BY <1>1, <1>4, <1>5, <2>1, <3>1 DEF Books, Alone
      <3>2. CASE f = e \/ g = e
        BY <1>2, <1>4, <1>6, <2>1, <3>2 DEF c
      <3> QED BY <3>1, <3>2
    <2> QED BY <2>1 DEF Alone
  <1>13. ASSUME NEW f \in Entries PROVE Front(f)'
    <2>1. \A g \in Entries : InSeries(g)' <=> InSeries(g)
      BY DEF InSeries, Made
    <2>2. ASSUME Pending(f)'
          PROVE  /\ \A g \in Entries : g < f /\ dv'[g].conn = dv'[f].conn => InSeries(g)' \/ Word(g)'
                 /\ conn'[dv'[f].conn].status # "DISCONNECTED" => dv'[f].state = "SENDING"
      <3>1. CASE f = e
        <4>1. \A g \in Entries : g < f /\ dv[g].conn = dv[f].conn => InSeries(g) \/ Word(g)
          BY <1>2, <3>1 DEF c
        <4> QED BY <1>4, <2>1, <3>1, <4>1
      <3>2. CASE f # e
        <4>1. Pending(f) /\ ~Open(dv[f].conn)
          BY <1>5, <1>6, <2>2, <3>2
        <4>2. \A g \in Entries : g < f /\ dv[g].conn = dv[f].conn => InSeries(g) \/ Word(g)
          BY <1>1, <4>1 DEF Books, Front
        <4>3. conn'[dv'[f].conn].status = "DISCONNECTED"
          BY <1>4, <4>1 DEF Open
        <4> QED BY <1>4, <2>1, <4>2, <4>3
      <3> QED BY <3>1, <3>2
    <2>3. ASSUME dv'[f].state = "SENDING", conn'[dv'[f].conn].status # "DISCONNECTED"
          PROVE  /\ \A g \in Entries : g < f /\ dv'[g].conn = dv'[f].conn => dv'[g].state \notin Owed
                 /\ dv'[f].next = n
      <3>1. f = e
        BY <1>2, <1>4, <2>3 DEF Open
      <3>2. \A g \in Entries : g < f /\ dv[g].conn = dv[f].conn => g # e /\ dv[g].state \notin Owed
        <4>1. \A g \in Entries : g < e => g # e
          BY ConstantFacts
        <4> QED BY <1>2, <3>1, <4>1 DEF c
      <3>3. dv'[f].next = n
        BY <1>4, <1>8, <3>1
      <3>4. ASSUME NEW g \in Entries, g < f, dv'[g].conn = dv'[f].conn PROVE dv'[g].state \notin Owed
        <4>1. g # e /\ dv[g].state \notin Owed
          BY <1>4, <3>2, <3>4
        <4>2. dv'[g] = dv[g]
          BY <1>4, <4>1
        <4> QED BY <4>1, <4>2
      <3> QED BY <3>3, <3>4
    <2> QED BY <1>8, <2>2, <2>3 DEF Front, Open, Window
  <1>14. Counted'
    <2>1. Made(Other, 1)' = Made(Other, 1)
      BY DEF Made
    <2>2. \A b \in Conns : Vouchers(b)' = Vouchers(b)
      <3>1. \A i \in DOMAIN series : series[i] # Other => dv'[series[i]].conn = dv[series[i]].conn
        BY <1>1, <1>4, VoucherFacts
      <3> QED BY <3>1 DEF Vouchers
    <2>3. ASSUME NEW b \in Conns, conn'[b].status = "DISCONNECTED"
          PROVE  /\ Cardinality(Vouchers(b)') <= conn'[b].cut + 1
                 /\ \A f \in Entries : Pending(f)' /\ dv'[f].conn = b => Cardinality(Vouchers(b)') <= conn'[b].cut
      <3>1. conn[b].status = "DISCONNECTED" /\ b # c
        BY <1>2, <2>3 DEF Open
      <3>2. \A f \in Entries : Pending(f)' /\ dv'[f].conn = b => Pending(f) /\ dv[f].conn = b
        BY <1>4, <1>5, <3>1 DEF c
      <3> QED BY <1>1, <2>2, <3>1, <3>2 DEF Books, Counted
    <2> QED BY <1>1, <2>1, <2>3 DEF Books, Counted
  <1>15. ASSUME NEW q \in Runs \ {r} PROVE Line(q)'
    <2>1. Line(q) /\ (Holds(q) => run[q].pc = "idle")
      BY <1>1, OneHolder DEF LInv
    <2>2. run'[q] = run[q] /\ (Holds(q)' => Holds(q))
      BY <1>3 DEF Holds
    <2> QED BY <2>1, <2>2 DEF Line
  <1>16. Line(r)'
    <2>1. CASE Leaving(x, y)
      BY <1>3, <2>1, LineEmpty DEF Leaving
    <2>2. CASE Going(x, y) /\ y.pc = "ask"
      <3>1. Todo(y) = Todo(x)
        BY <2>2 DEF Going, Todo
      <3>2. \A f \in Entries : dv'[f].state \in Owed => dv[f].state \in Owed
        BY <1>4 DEF Owed
      <3>3. \A f \in Todo(x), g \in Entries :
              g < f /\ dv'[g].conn = x.conn /\ dv'[g].state \in Owed => g \in Todo(x)
        BY <1>1, <1>4, <3>2 DEF Line
      <3> QED BY <1>1, <1>3, <2>2, <3>1, <3>3 DEF Line, Going, Sending, Attaching
    <2> QED BY <2>1, <2>2
  <1> QED BY <1>9, <1>10, <1>11, <1>12, <1>13, <1>14, <1>15, <1>16 DEF LInv, Books

(* The intent, written or refused. *)
LEMMA IntentKeeps ==
  ASSUME LInv, IInv', NEW r \in Runs, Intent(r)
  PROVE  LInv'
  <1> DEFINE x == run[r]
  <1>1. x \in Run /\ x.pc = "intent" /\ x.pc \in Busy /\ IInv /\ x.pc # "idle"
    BY RunFacts DEF Intent, Busy, LInv
  <1>2. UNCHANGED <<conn, series, late, due>>
    BY DEF Intent
  <1>3. PICK e \in Entries : e = Cur(x)
    BY <1>1, RunFacts
  <1>4. CASE dv' = dv /\ (Set(r, Quieted(x)) \/ Set(r, OutOfTime(x)))
    BY <1>1, <1>2, <1>4, HaltsTo, LeavingOn
  <1>5. ASSUME Holds(r), dv[e].state = "QUEUED",
               dv' = [dv EXCEPT ![e].state = "SENDING", ![e].next = x.at, ![e].age = 0],
               Set(r, [x EXCEPT !.pc = "ask"]) \/ Set(r, Quieted(x))
        PROVE  LInv'
    <2>1. PICK o : o = Sent(e, x.at)
      OBVIOUS
    <2>2. PICK n \in Nat : n = x.at
      BY <1>1, RunFacts
    <2>3. /\ o.state = "SENDING" /\ o.next = x.at /\ o.conn = dv[e].conn /\ o.denied = dv[e].denied
          /\ dv' = [dv EXCEPT ![e] = o]
      BY <1>1, <1>5, <2>1, <2>2, SentDelivery, Types
    <2>4. CASE Set(r, Quieted(x))
      <3>1. Leaving(x, Quieted(x))
        BY <1>1, HaltsTo
      <3>2. Quieted(x).pc = "owed" /\ Quieted(x).conn = x.conn
        <4>1. LET h == Halted(x) IN h \in Run /\ h.pc = "owed" /\ h.conn = x.conn
          BY <1>1, HaltedRun
        <4>2. PICK h \in Run : h = Halted(x) /\ h.pc = "owed" /\ h.conn = x.conn
          BY <4>1
        <4>3. [h EXCEPT !.quiet = TRUE].pc = "owed" /\ [h EXCEPT !.quiet = TRUE].conn = x.conn
          BY <4>2 DEF Run
        <4> QED BY <4>2, <4>3 DEF Quieted
      <3>3. PICK y : y = Quieted(x)
        OBVIOUS
      <3>4. Set(r, y) /\ y.conn = run[r].conn /\ y.pc # "idle" /\ Leaving(run[r], y)
        BY <2>4, <3>1, <3>2, <3>3
      <3>5. Leaving(run[r], y) \/ (Going(run[r], y) /\ y.pc = "ask")
        BY <3>4
      <3>6. run[r].pc = "intent" /\ Holds(r) /\ dv[e].state = "QUEUED"
        BY <1>1, <1>5
      <3> QED BY <1>2, <1>3, <2>3, <3>4, <3>5, <3>6, IntentWritten
    <2>5. CASE Set(r, [x EXCEPT !.pc = "ask"])
      <3>1. PICK y : y = [x EXCEPT !.pc = "ask"]
        OBVIOUS
      <3>2. Going(x, y) /\ y.pc = "ask"
        BY <1>1, <3>1 DEF Run, Going
      <3>3. Set(r, y) /\ y.conn = run[r].conn /\ y.pc # "idle" /\ Going(run[r], y) /\ y.pc = "ask"
        BY <2>5, <3>1, <3>2 DEF Going
      <3> QED BY <1>1, <1>2, <1>3, <1>5, <2>3, <3>3, IntentWritten
    <2> QED BY <1>5, <2>4, <2>5
  <1> QED BY <1>3, <1>4, <1>5 DEF Intent, Lost

-----------------------------------------------------------------------------
(* The lease, and what a run says of its connection. *)

(* A run's step that writes its connection only, and neither makes it nor   *)
(* cuts it off.                                                             *)
LEMMA ConnRun ==
  ASSUME LInv, IInv', NEW r \in Runs, NEW y, run[r].pc # "idle", Set(r, y), y.pc # "ask",
         y.pc # "idle" => y.conn = run[r].conn,
         UNCHANGED <<dv, series, late, due>>,
         \A d \in Conns : /\ conn'[d].status = "DISCONNECTED" <=> conn[d].status = "DISCONNECTED"
                          /\ conn'[d].status = "NONE" <=> conn[d].status = "NONE"
                          /\ conn'[d].cut = conn[d].cut,
         \A q \in Runs \ {r} : run[q].pc # "idle" /\ Holds(q)' => Holds(q),
         Still => Line(r)'
  PROVE  LInv'
  <1>1. IInv /\ run \in [Runs -> Run] /\ run' = [run EXCEPT ![r] = y]
    BY Types DEF LInv, Set
  <1>2. AsksKept
    BY <1>1, NotAsking
  <1>3. ConnsKept
    BY DEF ConnsKept, Open
  <1>4. Still
    BY <1>1, <1>2, <1>3, QuietStill
  <1>5. y.pc # "idle" => y.conn \in Conns /\ conn[y.conn].status # "NONE"
    BY <1>1, RunFacts DEF LInv, Books, Known
  <1>6. \A q \in Runs \ {r} : /\ run[q].pc # "idle" /\ Holds(q)' => Holds(q)
                              /\ Holds(q) /\ run[q].pc = "intent" /\ dv'[Cur(run[q])].state = "QUEUED" =>
                                   dv[Cur(run[q])].state = "QUEUED"
    OBVIOUS
  <1>7. \A d \in Conns : conn'[d].status # "NONE" => conn[d].status # "NONE"
    OBVIOUS
  <1>8. \A e \in Entries : (dv'[e].state = "NEW" <=> dv[e].state = "NEW") /\ dv'[e].conn = dv[e].conn
    OBVIOUS
  <1>9. Line(r)' /\ due' = due
    BY <1>4
  <1> QED BY <1>1, <1>4, <1>5, <1>6, <1>7, <1>8, <1>9, RunKeeps

(* The lease taken, before anything is read. *)
LEMMA ClaimKeeps ==
  ASSUME LInv, IInv', NEW r \in Runs, Claim(r)
  PROVE  LInv'
  <1> DEFINE x == run[r]
             c == x.conn
  <1>1. x \in Run /\ c \in Conns /\ x.pc = "claim" /\ Todo(x) = {} /\ IInv
    BY RunFacts DEF Claim, LInv, IInv, Reading
  <1>2. CASE Set(r, NewRun) /\ UNCHANGED conn
    <2>1. Leaving(x, NewRun)
      BY DEF Leaving, NewRun, Sending
    <2> QED BY <1>1, <1>2, <2>1, LeavingOn DEF Claim
  <1>3. CASE /\ conn' = [conn EXCEPT ![c].lease = Lease, ![c].holder = r]
             /\ Set(r, [x EXCEPT !.pc = "hello"])
    <2>1. PICK y : y = [x EXCEPT !.pc = "hello"]
      OBVIOUS
    <2>2. Going(x, y) /\ y.pc = "hello"
      BY <1>1, <2>1 DEF Run, Going
    <2>3. /\ Set(r, y) /\ run'[r] = y /\ \A q \in Runs \ {r} : run'[q] = run[q]
      BY <1>1, <1>3, <2>1, Types DEF Set
    <2>4. UNCHANGED <<dv, series, late, due>>
      BY DEF Claim
    <2>5. /\ conn'[c].holder = r
          /\ \A d \in Conns : conn'[d].status = conn[d].status /\ conn'[d].cut = conn[d].cut
          /\ \A d \in Conns \ {c} : conn'[d] = conn[d]
      <3>1. conn \in [Conns -> Connection] /\ conn[c] \in Connection
        BY <1>1, Types
      <3>2. conn' = [conn EXCEPT ![c] = [conn[c] EXCEPT !.lease = Lease, !.holder = r]]
        BY <1>1, <1>3, <3>1
      <3>3. LET z == [conn[c] EXCEPT !.lease = Lease, !.holder = r]
            IN  z.holder = r /\ z.status = conn[c].status /\ z.cut = conn[c].cut
        BY <3>1 DEF Connection
      <3> QED BY <1>1, <3>1, <3>2, <3>3
    <2>6. \A q \in Runs \ {r} : run[q].pc # "idle" /\ Holds(q)' => Holds(q)
      BY <1>1, <2>3, <2>5, RunFacts DEF Holds
    <2>7. Line(r)'
      <3>1. Todo(y) = {}
        BY <1>1, <2>2 DEF Going, Todo
      <3> QED BY <2>2, <2>3, <3>1 DEF Line, Sending, Attaching
    <2> QED BY <1>1, <2>2, <2>3, <2>4, <2>5, <2>6, <2>7, ConnRun DEF Going
  <1> QED BY <1>2, <1>3 DEF Claim

(* The lease given back. *)
LEMMA ReleaseKeeps ==
  ASSUME LInv, IInv', NEW r \in Runs, Release(r)
  PROVE  LInv'
  <1> DEFINE c == run[r].conn
  <1>1. c \in Conns /\ run[r].pc = "release" /\ IInv
    BY RunFacts DEF Release, LInv
  <1>2. Leaving(run[r], NewRun) /\ NewRun.pc = "idle" /\ NewRun.seen = Nothing
    BY DEF Leaving, NewRun, Sending
  <1>3. CASE conn' = conn
    BY <1>1, <1>2, <1>3, LeavingOn DEF Release
  <1>4. CASE conn' = [conn EXCEPT ![c].lease = 0, ![c].holder = NoRun]
    <2>1. Set(r, NewRun) /\ run'[r] = NewRun /\ \A q \in Runs \ {r} : run'[q] = run[q]
      BY <1>1, Types DEF Set, Release
    <2>2. UNCHANGED <<dv, series, late, due>>
      BY DEF Release
    <2>3. /\ conn'[c].holder = NoRun
          /\ \A d \in Conns : conn'[d].status = conn[d].status /\ conn'[d].cut = conn[d].cut
          /\ \A d \in Conns \ {c} : conn'[d] = conn[d]
      <3>1. conn \in [Conns -> Connection] /\ conn[c] \in Connection
        BY <1>1, Types
      <3>2. conn' = [conn EXCEPT ![c] = [conn[c] EXCEPT !.lease = 0, !.holder = NoRun]]
        BY <1>1, <1>4, <3>1
      <3>3. LET z == [conn[c] EXCEPT !.lease = 0, !.holder = NoRun]
            IN  z.holder = NoRun /\ z.status = conn[c].status /\ z.cut = conn[c].cut
        BY <3>1 DEF Connection
      <3> QED BY <1>1, <3>1, <3>2, <3>3
    <2>4. \A q \in Runs \ {r} : run[q].pc # "idle" /\ Holds(q)' => Holds(q)
      BY <1>1, <2>1, <2>3, RunFacts, ConstantFacts DEF Holds
    <2>5. Line(r)'
      BY <1>2, <2>1, LineEmpty DEF Sending
    <2> QED BY <1>1, <1>2, <2>1, <2>2, <2>3, <2>4, <2>5, ConnRun
  <1> QED BY <1>3, <1>4 DEF Release

(* The night closed. *)
LEMMA CloseNightKeeps ==
  ASSUME LInv, IInv', NEW r \in Runs, CloseNight(r)
  PROVE  LInv'
  <1> DEFINE x == run[r]
             c == x.conn
  <1>1. x \in Run /\ c \in Conns /\ x.pc = "close" /\ IInv
    BY RunFacts DEF CloseNight, LInv
  <1>2. Leaving(x, Cut(x)) /\ Leaving(x, Ended(x))
    BY <1>1, EndsTo
  <1>3. CASE (Set(r, Cut(x)) \/ Set(r, Ended(x))) /\ conn' = conn
    BY <1>1, <1>2, <1>3, LeavingOn DEF CloseNight
  <1>4. CASE Set(r, Ended(x)) /\ conn' = [conn EXCEPT ![c].night = TRUE]
    <2>1. PICK y : y = Ended(x)
      OBVIOUS
    <2>2. Set(r, y) /\ run'[r] = y /\ Leaving(x, y) /\ \A q \in Runs \ {r} : run'[q] = run[q]
      BY <1>1, <1>2, <1>4, <2>1, Types DEF Set
    <2>3. UNCHANGED <<dv, series, late, due>>
      BY DEF CloseNight
    <2>4. \A d \in Conns : /\ conn'[d].status = conn[d].status /\ conn'[d].cut = conn[d].cut
                           /\ conn'[d].holder = conn[d].holder /\ conn'[d].lease = conn[d].lease
      <3>1. conn \in [Conns -> Connection] /\ conn[c] \in Connection
        BY <1>1, Types
      <3>2. conn' = [conn EXCEPT ![c] = [conn[c] EXCEPT !.night = TRUE]]
        BY <1>1, <1>4, <3>1
      <3>3. LET z == [conn[c] EXCEPT !.night = TRUE]
            IN  /\ z.status = conn[c].status /\ z.cut = conn[c].cut
                /\ z.holder = conn[c].holder /\ z.lease = conn[c].lease
        BY <3>1 DEF Connection
      <3> QED BY <1>1, <3>1, <3>2, <3>3
    <2>5. \A q \in Runs \ {r} : run[q].pc # "idle" /\ Holds(q)' => Holds(q)
      BY <1>1, <2>2, <2>4, RunFacts DEF Holds
    <2>6. Line(r)'
      BY <2>2, LineEmpty DEF Leaving
    <2>7. y.pc # "ask" /\ (y.pc # "idle" => y.conn = x.conn)
      BY <2>2 DEF Leaving
    <2> QED BY <1>1, <2>2, <2>3, <2>4, <2>5, <2>6, <2>7, ConnRun
  <1> QED BY <1>3, <1>4 DEF CloseNight

(* The connection settled: neither made nor cut off. *)
LEMMA WriteStateKeeps ==
  ASSUME LInv, IInv', NEW r \in Runs, WriteState(r)
  PROVE  LInv'
  <1> DEFINE x == run[r]
             c == x.conn
  <1>1. x \in Run /\ c \in Conns /\ x.pc = "state" /\ IInv /\ conn[c].status # "NONE"
    BY RunFacts DEF WriteState, LInv, Books, Known
  <1>2. PICK y : y = [x EXCEPT !.pc = "release"]
    OBVIOUS
  <1>3. Going(x, y) /\ y.pc = "release"
    BY <1>1, <1>2 DEF Run, Going
  <1>4. Set(r, y) /\ run'[r] = y /\ \A q \in Runs \ {r} : run'[q] = run[q]
    BY <1>1, <1>2, Types DEF Set, WriteState
  <1>5. UNCHANGED <<dv, series, late, due>>
    BY DEF WriteState
  <1>6. CASE UNCHANGED conn
    BY <1>1, <1>3, <1>4, <1>5, <1>6, GoingOn DEF Sending, Attaching
  <1>7. CASE conn' = [conn EXCEPT ![c] = Settled(x)]
    <2>1. conn \in [Conns -> Connection] /\ conn[c] \in Connection
      BY <1>1, Types
    <2>2. /\ Settled(x).holder = conn[c].holder /\ Settled(x).lease = conn[c].lease
          /\ Settled(x).status = "DISCONNECTED" <=> conn[c].status = "DISCONNECTED"
      BY <1>1, <2>1, SettledConnection
    <2>3. Settled(x).cut = conn[c].cut /\ Settled(x).status # "NONE"
      <3> DEFINE d1 == [conn[c] EXCEPT !.status = "BROKEN", !.stop = x.stop]
                 d2 == [conn[c] EXCEPT !.status = "ACTIVE", !.stop = NoStop, !.reached = TRUE]
                 d3 == [conn[c] EXCEPT !.reached = TRUE]
      <3>1. d1.cut = conn[c].cut /\ d1.status = "BROKEN"
        BY <2>1 DEF Connection
      <3>2. d2.cut = conn[c].cut /\ d2.status = "ACTIVE"
        BY <2>1 DEF Connection
      <3>3. d3.cut = conn[c].cut /\ d3.status = conn[c].status
        BY <2>1 DEF Connection
      <3>4. Settled(x) \in {conn[c], d1, d2, d3}
        BY DEF Settled
      <3> HIDE DEF d1, d2, d3
      <3> QED BY <1>1, <3>1, <3>2, <3>3, <3>4
    <2>4. \A d \in Conns : conn'[d] = IF d = c THEN Settled(x) ELSE conn[d]
      BY <1>7, <2>1
    <2>5. \A q \in Runs \ {r} : run[q].pc # "idle" /\ Holds(q)' => Holds(q)
      BY <1>1, <1>4, <2>2, <2>4, RunFacts DEF Holds
    <2>6. y.conn = x.conn /\ y.owed = x.owed /\ y.seen = x.seen /\ (Holds(r)' => Holds(r))
      BY <1>1, <1>3, <1>4, <2>2, <2>4 DEF Going, Holds
    <2>7. Still => Line(r)'
      BY <1>1, <1>3, <1>4, <2>6, LineGoes DEF Sending, Attaching
    <2>8. \A d \in Conns : /\ conn'[d].status = "DISCONNECTED" <=> conn[d].status = "DISCONNECTED"
                           /\ conn'[d].status = "NONE" <=> conn[d].status = "NONE"
                           /\ conn'[d].cut = conn[d].cut
      BY <1>1, <2>2, <2>3, <2>4
    <2> QED BY <1>1, <1>3, <1>4, <1>5, <2>5, <2>6, <2>7, <2>8, ConnRun
  <1> QED BY <1>6, <1>7 DEF WriteState

(* A run begun for a connection that has been made. *)
LEMMA StartKeeps ==
  ASSUME LInv, IInv', NEW r \in Runs, Start(r)
  PROVE  LInv'
  <1>0. PICK c \in Conns, s \in Softs :
          Set(r, [NewRun EXCEPT
            !.pc = "claim", !.conn = c, !.attempt = conn[c].attempt, !.was = conn[c].status,
            !.night = conn[c].night, !.fresh = conn[c].reached, !.left = Budget, !.soft = s])
          /\ Live(c)
    BY DEF Start
  <1>1. PICK y : y = [NewRun EXCEPT
            !.pc = "claim", !.conn = c, !.attempt = conn[c].attempt, !.was = conn[c].status,
            !.night = conn[c].night, !.fresh = conn[c].reached, !.left = Budget, !.soft = s]
    OBVIOUS
  <1>2. y.pc = "claim" /\ y.seen = Nothing /\ y.conn = c
    BY <1>1, Beginnings DEF Run, NewRun
  <1>3. /\ run \in [Runs -> Run] /\ run' = [run EXCEPT ![r] = y] /\ run'[r] = y /\ Set(r, y) /\ IInv
        /\ \A q \in Runs \ {r} : run'[q] = run[q]
    BY <1>0, <1>1, Types DEF Set, LInv
  <1>4. UNCHANGED <<dv, conn, series, late, due>>
    BY DEF Start
  <1>5. AsksKept
    BY <1>2, <1>3, NotAsking
  <1>6. Still
    BY <1>3, <1>4, <1>5, SameConns, QuietStill
  <1>7. Line(r)'
    BY <1>2, <1>3, LineEmpty DEF Sending
  <1>8. conn[c].status # "NONE"
    BY <1>0 DEF Live
  <1>9. \A q \in Runs \ {r} : Holds(q)' => Holds(q)
    BY <1>3, <1>4 DEF Holds
  <1> QED BY <1>2, <1>3, <1>4, <1>6, <1>7, <1>8, <1>9, RunKeeps

-----------------------------------------------------------------------------
(* A file of new entries. *)

(* The books of the line, after a step on which nothing comes under way.    *)
LEMMA Assembled ==
  ASSUME LInv, IInv', Still, \A e \in Entries : InOrder(e)', \A c \in Conns : InTurn(c)', Known',
         \A q \in Runs : Line(q)'
  PROVE  LInv'
  BY StillBooks DEF LInv, Books

(* The entries of a file are the next of the books, handed to a connection  *)
(* that has been made.                                                      *)
LEMMA FiledStill ==
  ASSUME LInv, NEW c \in Conns, Live(c), dv' = Filed(c, Unfiled), UNCHANGED <<conn, series, late, due>>, AsksKept
  PROVE  /\ Still
         /\ \A e \in Entries : InOrder(e)'
         /\ \A e \in Entries : dv'[e].state # "NEW" => conn'[dv'[e].conn].status # "NONE"
         /\ \A e \in Entries : dv[e].state # "NEW" => dv'[e] = dv[e]
  <1>0. IInv /\ Books
    BY DEF LInv
  <1>1. dv \in [Entries -> Delivery] /\ due \in Nat
    <2>1. LastEntry \in Nat
      BY FortnoxAssumption
    <2> QED BY <1>0, <2>1, Types
  <1>2. PICK n \in Nat : n = Cardinality(Files) + 1
    BY <1>1, FilesFinite
  <1>3. PICK o : o = [NoDelivery EXCEPT !.state = "QUEUED", !.conn = c, !.file = n]
    OBVIOUS
  <1>4. o.state = "QUEUED" /\ o.conn = c
    BY <1>3 DEF NoDelivery
  <1>5. \A e \in Entries : dv'[e] = IF e <= due /\ dv[e].state = "NEW" THEN o ELSE dv[e]
    <2>1. Unfiled = {e \in Entries : e <= due /\ dv[e].state = "NEW"}
      <3>1. due <= LastEntry /\ LastEntry \in Nat
        BY <1>0, Types, FortnoxAssumption
      <3> QED BY <1>1, <3>1 DEF Unfiled, Entries
    <2> QED BY <1>2, <1>3, <2>1 DEF Filed
  <1>6. \A e \in Entries : dv[e].state # "NEW" => dv'[e] = dv[e]
    BY <1>5
  <1>7. Still
    <2>1. \A e \in Entries : Pending(e)' => Pending(e)
      BY FewerAsks DEF Pending
    <2>2. \A e \in Entries : dv[e].state = "NEW" => dv'[e].state # "SENDING"
      BY <1>4, <1>5
    <2>3. ConnsKept
      BY SameConns
    <2> QED BY <1>6, <2>1, <2>2, <2>3 DEF Still, Word
  <1>8. ASSUME NEW e \in Entries, dv'[e].state # "NEW"
        PROVE  /\ e <= due' /\ \A f \in Entries : f < e => dv'[f].state # "NEW"
               /\ conn'[dv'[e].conn].status # "NONE"
    <2>1. e <= due /\ \A f \in Entries : f < e => f <= due
      <3>1. e <= due
        BY <1>0, <1>5, <1>8 DEF Books, InOrder
      <3> QED BY <1>1, <3>1, ConstantFacts
    <2>2. \A f \in Entries : f < e => dv'[f].state # "NEW"
      BY <1>4, <1>5, <2>1
    <2>3. conn[dv'[e].conn].status # "NONE"
      BY <1>0, <1>4, <1>5, <1>8 DEF Books, Known, Live
    <2> QED BY <2>1, <2>2, <2>3
  <1> QED BY <1>6, <1>7, <1>8 DEF InOrder

(* The night's file, made by the holder for its connection.                 *)
LEMMA NightFileKeeps ==
  ASSUME LInv, IInv', NEW r \in Runs, NightFile(r)
  PROVE  LInv'
  <1> DEFINE x == run[r]
  <1>1. x \in Run /\ x.conn \in Conns /\ x.pc = "file" /\ IInv
    BY RunFacts DEF NightFile, LInv
  <1>2. CASE Set(r, Cut(x)) /\ UNCHANGED dv
    BY <1>1, <1>2, EndsTo, LeavingOn DEF NightFile
  <1>3. CASE Set(r, [x EXCEPT !.pc = "close"]) /\ UNCHANGED dv
    <2>1. PICK y : y = [x EXCEPT !.pc = "close"]
      OBVIOUS
    <2>2. Going(x, y) /\ y.pc = "close"
      BY <1>1, <2>1 DEF Run, Going
    <2> QED BY <1>1, <1>3, <2>1, <2>2, GoingOn DEF Sending, Attaching, NightFile
  <1>4. CASE dv' = Filed(x.conn, Unfiled) /\ Set(r, [x EXCEPT !.pc = "line"]) /\ Holds(r)
    <2>1. PICK y : y = [x EXCEPT !.pc = "line"]
      OBVIOUS
    <2>2. Going(x, y) /\ y.pc = "line"
      BY <1>1, <2>1 DEF Run, Going
    <2>3. /\ run' = [run EXCEPT ![r] = y] /\ run'[r] = y /\ y.conn = x.conn
          /\ \A q \in Runs \ {r} : run'[q] = run[q]
      BY <1>1, <1>4, <2>1, <2>2, Types DEF Set, Going
    <2>4. UNCHANGED <<conn, series, late, due>> /\ AsksKept
      <3>1. run \in [Runs -> Run] /\ Set(r, y) /\ y.pc # "ask"
        BY <1>1, <2>2, <2>3, Types DEF Set
      <3>2. AsksKept
        BY <3>1, NotAsking
      <3> QED BY <3>2 DEF NightFile
    <2>5. Live(x.conn)
      <3>1. x.conn \in Conns /\ Open(x.conn) /\ conn[x.conn].status # "NONE"
        BY <1>1, <1>4, HeldOpen
      <3>2. conn[x.conn] \in Connection
        BY <1>1, <3>1, Types
      <3>3. conn[x.conn].status \in {"NONE", "ACTIVE", "BROKEN", "DISCONNECTED"}
        BY <3>2, Zenon DEF Connection
      <3> QED BY <3>1, <3>3 DEF Live, Open
    <2>6. PICK c \in Conns : c = x.conn
      BY <1>1
    <2>7. /\ Still
          /\ \A e \in Entries : InOrder(e)'
          /\ \A e \in Entries : dv'[e].state # "NEW" => conn'[dv'[e].conn].status # "NONE"
          /\ \A e \in Entries : dv[e].state # "NEW" => dv'[e] = dv[e]
      BY <1>4, <2>4, <2>5, <2>6, FiledStill
    <2>8. \A d \in Conns : InTurn(d)'
      BY <2>4 DEF LInv, Books, InTurn
    <2>9. Known'
      BY <1>1, <2>3, <2>4, <2>7 DEF LInv, Books, Known
    <2>10. ASSUME NEW q \in Runs \ {r} PROVE Line(q)'
      <3>1. run'[q] = run[q] /\ (Holds(q)' => Holds(q))
        BY <2>3, <2>4 DEF Holds
      <3>2. ASSUME run[q].pc = "intent" PROVE dv'[Cur(run[q])] = dv[Cur(run[q])]
        <4>1. Cur(run[q]) \in Todo(run[q]) /\ Cur(run[q]) \in Entries
          BY <1>1, <3>2, RunFacts DEF Busy
        <4>2. dv[Cur(run[q])].state # "NEW"
          BY <1>1, <4>1 DEF IInv, Reading
        <4> QED BY <2>7, <4>1, <4>2
      <3> QED BY <2>7, <3>1, <3>2, StillLine
    <2>11. Line(r)'
      <3>1. Holds(r)' => Holds(r)
        BY <1>4
      <3> QED BY <1>1, <2>2, <2>3, <2>7, <3>1, LineGoes DEF Going, Sending, Attaching
    <2> QED BY <2>7, <2>8, <2>9, <2>10, <2>11, Assembled
  <1> QED BY <1>2, <1>3, <1>4 DEF NightFile

-----------------------------------------------------------------------------
(* Steps that are no run's. *)

(* On such a step nothing comes under way, and no run moves but by the time  *)
(* it has left.                                                             *)
LEMMA WorldKeeps ==
  ASSUME LInv, IInv', Still,
         \A e \in Entries : (dv'[e].state = "NEW" <=> dv[e].state = "NEW") /\ dv'[e].conn = dv[e].conn,
         due' \in Nat, due <= due', \A c \in Conns : InTurn(c)',
         \A q \in Runs : /\ run'[q].pc = run[q].pc /\ run'[q].conn = run[q].conn /\ run'[q].owed = run[q].owed
                         /\ run'[q].seen = run[q].seen /\ run'[q].at = run[q].at,
         \A q \in Runs : run[q].pc # "idle" /\ Holds(q)' => Holds(q),
         \A q \in Runs : Holds(q) /\ run[q].pc = "intent" /\ dv'[Cur(run[q])].state = "QUEUED" =>
                           dv[Cur(run[q])].state = "QUEUED"
  PROVE  LInv'
  <1>0. IInv /\ Books
    BY DEF LInv
  <1>1. \A e \in Entries : InOrder(e)'
    <2>1. due \in Nat
      <3>1. LastEntry \in Nat
        BY FortnoxAssumption
      <3> QED BY <1>0, <3>1, Types
    <2>2. \A e \in Entries : e <= due => e <= due'
      BY <2>1, ConstantFacts
    <2> QED BY <1>0, <2>2 DEF Books, InOrder
  <1>2. Known'
    <2>1. ASSUME NEW e \in Entries, dv'[e].state # "NEW" PROVE conn'[dv'[e].conn].status # "NONE"
      <3>1. PICK c \in Conns : c = dv[e].conn
        <4>1. dv[e] \in Delivery
          BY <1>0, Types
        <4> QED BY <1>0, <2>1, <4>1 DEF IInv, Told, Delivery
      <3> QED BY <1>0, <2>1, <3>1 DEF Books, Known, Still, ConnsKept
    <2>2. ASSUME NEW q \in Runs, run'[q].pc # "idle" PROVE conn'[run'[q].conn].status # "NONE"
      <3>1. run'[q].conn \in Conns /\ conn[run'[q].conn].status # "NONE"
        BY <1>0, <2>2, RunFacts DEF Books, Known
      <3> QED BY <3>1 DEF Still, ConnsKept
    <2> QED BY <2>1, <2>2 DEF Known
  <1>3. \A q \in Runs : Line(q)'
    BY StillLine
  <1> QED BY <1>1, <1>2, <1>3, Assembled

(* A person's act on a connection: made next in turn, back, or cut off with *)
(* its vouchers counted.                                                    *)
LEMMA ConnKeeps ==
  ASSUME LInv, IInv', UNCHANGED <<dv, run, series, late, due>>,
         NEW c \in Conns, NEW d, conn' = [conn EXCEPT ![c] = d],
         d.holder = conn[c].holder, d.lease = conn[c].lease,
         conn[c].status # "DISCONNECTED", d.status # "NONE",
         d.status = "DISCONNECTED" => d.cut = Cardinality(Vouchers(c)),
         conn[c].status = "NONE" => \A b \in Conns : b < c => conn[b].status = "DISCONNECTED"
  PROVE  LInv'
  <1>0. IInv /\ Books /\ due \in Nat
    <2>1. LastEntry \in Nat
      BY FortnoxAssumption
    <2> QED BY <2>1, Types DEF LInv
  <1>1. conn'[c] = d /\ \A b \in Conns \ {c} : conn'[b] = conn[b]
    BY <1>0, Types
  <1>2. ConnsKept
    BY <1>1 DEF ConnsKept, Open
  <1>3. AsksKept
    BY DEF AsksKept
  <1>4. Still
    BY <1>0, <1>2, <1>3, QuietStill
  <1>5. ASSUME NEW b \in Conns PROVE InTurn(b)'
    <2>1. ASSUME conn'[b].status # "NONE", NEW a \in Conns, a < b PROVE conn'[a].status = "DISCONNECTED"
      <3>1. a # b /\ a \in Nat /\ b \in Nat
        BY <2>1, ConstantFacts
      <3>2. CASE b = c
        BY <1>0, <1>1, <2>1, <3>1, <3>2 DEF Books, InTurn
      <3>3. CASE b # c
        <4>1. conn[a].status = "DISCONNECTED"
          BY <1>0, <1>1, <2>1, <3>3 DEF Books, InTurn
        <4> QED BY <1>1, <4>1
      <3> QED BY <3>2, <3>3
    <2> QED BY <2>1 DEF InTurn
  <1>6. \A q \in Runs : run[q].pc # "idle" /\ Holds(q)' => Holds(q)
    BY <1>0, <1>1, RunFacts DEF Holds
  <1> QED BY <1>0, <1>4, <1>5, <1>6, WorldKeeps

(* What people do of a connection. *)
LEMMA PersonKeeps ==
  ASSUME LInv, IInv', NEW c \in Conns, Person(c)
  PROVE  LInv'
  <1>1. conn \in [Conns -> Connection] /\ conn[c] \in Connection /\ IInv
    BY Types DEF LInv
  <1>2. CASE Connect(c)
    <2> DEFINE d == [conn[c] EXCEPT !.status = "ACTIVE", !.attempt = 1]
    <2>1. d.status = "ACTIVE" /\ d.holder = conn[c].holder /\ d.lease = conn[c].lease
      BY <1>1 DEF Connection
    <2>2. conn' = [conn EXCEPT ![c] = d]
      BY <1>1, <1>2 DEF Connect
    <2> HIDE DEF d
    <2> QED BY <1>2, <2>1, <2>2, ConnKeeps DEF Connect
  <1>3. CASE Reconnect(c)
    <2> DEFINE n == conn[c].attempt + 1
               d == [conn[c] EXCEPT !.status = "ACTIVE", !.stop = NoStop, !.attempt = n, !.night = TRUE, !.reached = TRUE]
    <2>2. conn' = [conn EXCEPT ![c] = d]
      BY <1>1, <1>3 DEF Reconnect, Connection
    <2> HIDE DEF n
    <2>1. d.status = "ACTIVE" /\ d.holder = conn[c].holder /\ d.lease = conn[c].lease
      BY <1>1 DEF Connection
    <2> HIDE DEF d
    <2> QED BY <1>3, <2>1, <2>2, ConnKeeps DEF Reconnect
  <1>4. CASE Disconnect(c)
    <2> DEFINE n == Cardinality(Vouchers(c))
               d == [conn[c] EXCEPT !.status = "DISCONNECTED", !.cut = n]
    <2>2. conn' = [conn EXCEPT ![c] = d]
      BY <1>1, <1>4 DEF Disconnect
    <2> HIDE DEF n
    <2>1. d.status = "DISCONNECTED" /\ d.cut = n /\ d.holder = conn[c].holder /\ d.lease = conn[c].lease
      BY <1>1 DEF Connection
    <2> HIDE DEF d
    <2> QED BY <1>4, <2>1, <2>2, ConnKeeps DEF Disconnect, Live, n
  <1>5. CASE BookYearEnd(c)
    <2>1. UNCHANGED <<conn, run, series, late, due>> /\ dv' = Filed(c, Unfiled) /\ Live(c)
      BY <1>5 DEF BookYearEnd
    <2>2. AsksKept
      BY <2>1 DEF AsksKept
    <2>3. /\ Still
          /\ \A e \in Entries : InOrder(e)'
          /\ \A e \in Entries : dv'[e].state # "NEW" => conn'[dv'[e].conn].status # "NONE"
          /\ \A e \in Entries : dv[e].state # "NEW" => dv'[e] = dv[e]
      BY <2>1, <2>2, FiledStill
    <2>4. \A d \in Conns : InTurn(d)'
      BY <2>1 DEF LInv, Books, InTurn
    <2>5. Known'
      BY <2>1, <2>3 DEF LInv, Books, Known
    <2>6. ASSUME NEW q \in Runs PROVE Line(q)'
      <3>1. run'[q] = run[q] /\ (Holds(q)' => Holds(q))
        BY <2>1 DEF Holds
      <3>2. ASSUME run[q].pc = "intent" PROVE dv'[Cur(run[q])] = dv[Cur(run[q])]
        <4>1. Cur(run[q]) \in Todo(run[q]) /\ Cur(run[q]) \in Entries
          BY <1>1, <3>2, RunFacts DEF Busy
        <4>2. dv[Cur(run[q])].state # "NEW"
          BY <1>1, <4>1 DEF IInv, Reading
        <4> QED BY <2>3, <4>1, <4>2
      <3> QED BY <2>3, <3>1, <3>2, StillLine
    <2> QED BY <2>3, <2>4, <2>5, <2>6, Assembled
  <1> QED BY <1>2, <1>3, <1>4, <1>5 DEF Person

(* What a person decides is no run's to write, and brings nothing under way. *)
LEMMA DecideKeeps ==
  ASSUME LInv, IInv', UNCHANGED <<conn, run, series, late, due>>,
         \A e \in Entries :
           \/ dv'[e] = dv[e]
           \/ /\ dv[e].state # "NEW" /\ dv'[e].conn = dv[e].conn
              /\ dv'[e].state \in {"BY_HAND", "DOWNLOADED", "QUEUED"}
              /\ dv'[e].state = "QUEUED" => dv[e].state = "SENDING"
              /\ Word(e)'
              /\ \/ conn[dv[e].conn].status = "DISCONNECTED"
                 \/ conn[dv[e].conn].lease = 0 /\ dv[e].state # "SENDING"
  PROVE  LInv'
  <1>0. IInv /\ Books /\ due \in Nat
    <2>1. LastEntry \in Nat
      BY FortnoxAssumption
    <2> QED BY <2>1, Types DEF LInv
  <1>1. AsksKept
    BY DEF AsksKept
  <1>2. \A e \in Entries : Pending(e)' => Pending(e)
    BY <1>1, FewerAsks DEF Pending
  <1>3. ASSUME NEW e \in Entries
        PROVE  /\ dv'[e].state = "NEW" <=> dv[e].state = "NEW"
               /\ dv'[e].conn = dv[e].conn
               /\ dv[e].state = "NEW" => dv'[e].state # "SENDING"
               /\ Word(e) => Word(e)'
               /\ dv'[e].state \in Owed => dv[e].state \in Owed
               /\ Open(dv[e].conn) /\ dv'[e].state = "SENDING" =>
                    dv[e].state = "SENDING" /\ dv'[e].next = dv[e].next
               /\ Open(dv[e].conn) /\ dv[e].state = "SENDING" /\ Pending(e)' => dv'[e].state = "SENDING"
    <2>1. CASE dv'[e] = dv[e]
      BY <2>1 DEF Word
    <2>2. CASE dv'[e] # dv[e]
      BY <2>2 DEF Open, Owed
    <2> QED BY <2>1, <2>2
  <1>4. Still
    <2>1. ConnsKept
      BY SameConns
    <2> QED BY <1>2, <1>3, <2>1 DEF Still
  <1>5. \A c \in Conns : InTurn(c)'
    BY <1>0 DEF Books, InTurn
  <1>6. \A q \in Runs : Holds(q)' => Holds(q)
    BY DEF Holds
  <1>7. ASSUME NEW q \in Runs, Holds(q), run[q].pc = "intent" PROVE dv'[Cur(run[q])] = dv[Cur(run[q])]
    <2>1. Cur(run[q]) \in Todo(run[q]) /\ Cur(run[q]) \in Entries
      BY <1>0, <1>7, RunFacts DEF Busy
    <2>2. dv[Cur(run[q])].conn = run[q].conn
      BY <1>0, <2>1 DEF IInv, Reading
    <2>3. conn[run[q].conn].lease # 0
      <3>1. conn[run[q].conn].lease > 0
        BY <1>7 DEF Holds
      <3> QED BY <3>1
    <2> QED BY <1>7, <2>1, <2>2, <2>3 DEF Holds
  <1> QED BY <1>0, <1>3, <1>4, <1>5, <1>6, <1>7, WorldKeeps

(* Booked by hand: while it is being sent only of a connection cut off.     *)
LEMMA BookByHandKeeps ==
  ASSUME LInv, IInv', NEW e \in Entries, BookByHand(e)
  PROVE  LInv'
  <1>1. dv \in [Entries -> Delivery] /\ dv[e] \in Delivery
    BY Types DEF LInv
  <1>2. PICK o : o = [dv[e] EXCEPT !.state = "BY_HAND", !.next = 0, !.age = 0, !.old = FALSE]
    OBVIOUS
  <1>3. o.state = "BY_HAND" /\ o.conn = dv[e].conn
    BY <1>1, <1>2 DEF Delivery
  <1>4. dv'[e] = o /\ \A f \in Entries : f # e => dv'[f] = dv[f]
    BY <1>1, <1>2 DEF BookByHand
  <1>5. /\ dv[e].state # "NEW"
        /\ \/ conn[dv[e].conn].status = "DISCONNECTED"
           \/ conn[dv[e].conn].lease = 0 /\ dv[e].state # "SENDING"
    BY DEF BookByHand, Decidable
  <1>6. UNCHANGED <<conn, run, series, late, due>>
    BY DEF BookByHand
  <1> QED BY <1>3, <1>4, <1>5, <1>6, DecideKeeps DEF Word

(* Not in Fortnox, as a person says of a connection cut off.                *)
LEMMA NotInFortnoxKeeps ==
  ASSUME LInv, IInv', NEW e \in Entries, NotInFortnox(e)
  PROVE  LInv'
  <1>1. dv \in [Entries -> Delivery] /\ dv[e] \in Delivery
    BY Types DEF LInv
  <1>2. PICK o : o = [dv[e] EXCEPT !.state = "QUEUED", !.next = 0, !.age = 0, !.denied = TRUE]
    OBVIOUS
  <1>3. o.state = "QUEUED" /\ o.conn = dv[e].conn /\ o.denied
    BY <1>1, <1>2 DEF Delivery
  <1>4. dv'[e] = o /\ \A f \in Entries : f # e => dv'[f] = dv[f]
    BY <1>1, <1>2 DEF NotInFortnox
  <1>5. dv[e].state = "SENDING" /\ conn[dv[e].conn].status = "DISCONNECTED"
    BY DEF NotInFortnox
  <1>6. UNCHANGED <<conn, run, series, late, due>>
    BY DEF NotInFortnox
  <1> QED BY <1>3, <1>4, <1>5, <1>6, DecideKeeps DEF Word

(* A file handed over: of a connection cut off. *)
LEMMA HandOverKeeps ==
  ASSUME LInv, IInv', NEW n, HandOver(n)
  PROVE  LInv'
  <1>1. dv \in [Entries -> Delivery]
    BY Types DEF LInv
  <1>2. ASSUME NEW e \in Entries, dv'[e] # dv[e]
        PROVE  /\ dv[e].state = "QUEUED" /\ conn[dv[e].conn].status = "DISCONNECTED"
               /\ dv'[e].state = "DOWNLOADED" /\ dv'[e].conn = dv[e].conn
    <2>1. PICK o : o = [dv[e] EXCEPT !.state = "DOWNLOADED"]
      OBVIOUS
    <2>2. o.state = "DOWNLOADED" /\ o.conn = dv[e].conn
      BY <1>1, <2>1 DEF Delivery
    <2>3. dv[e].state = "QUEUED" /\ conn[dv[e].conn].status = "DISCONNECTED" /\ dv'[e] = o
      BY <1>2, <2>1 DEF HandOver
    <2> QED BY <2>2, <2>3
  <1>3. UNCHANGED <<conn, run, series, late, due>>
    BY DEF HandOver
  <1> QED BY <1>2, <1>3, DecideKeeps DEF Word

(* A new entry of the books comes after those before it.                    *)
LEMMA NewEntryKeeps ==
  ASSUME LInv, IInv', NewEntry
  PROVE  LInv'
  <1>1. UNCHANGED <<dv, conn, run, series, late>> /\ due' = due + 1 /\ IInv
    BY DEF NewEntry, LInv
  <1>2. due \in Nat
    <2>1. LastEntry \in Nat
      BY FortnoxAssumption
    <2> QED BY <1>1, <2>1, Types
  <1>3. Still
    <2>1. AsksKept /\ ConnsKept
      BY <1>1, SameConns DEF AsksKept
    <2> QED BY <1>1, <2>1, QuietStill
  <1>4. \A c \in Conns : InTurn(c)'
    BY <1>1 DEF LInv, Books, InTurn
  <1>5. \A q \in Runs : Holds(q)' => Holds(q)
    BY <1>1 DEF Holds
  <1>6. due' \in Nat /\ due <= due'
    BY <1>1, <1>2
  <1> QED BY <1>1, <1>3, <1>4, <1>5, <1>6, WorldKeeps

(* Time takes what is left, and brings nothing under way.                   *)
LEMMA TickKeeps ==
  ASSUME LInv, IInv', Tick
  PROVE  LInv'
  <1>0. IInv /\ due \in Nat
    <2>1. LastEntry \in Nat
      BY FortnoxAssumption
    <2> QED BY <2>1, Types DEF LInv
  <1>1. series' = series /\ due' = due
    BY DEF Tick
  <1>2. \A e \in Entries : late'[e] > 0 => late[e] > 0
    <2>1. \A e \in Entries : late[e] \in Nat /\ late'[e] = Less(late[e])
      BY <1>0, Types DEF Tick
    <2> QED BY <2>1, Lessened
  <1>3. ASSUME NEW r \in Runs
        PROVE  /\ run'[r].pc = run[r].pc /\ run'[r].conn = run[r].conn /\ run'[r].owed = run[r].owed
               /\ run'[r].seen = run[r].seen /\ run'[r].at = run[r].at
               /\ (run'[r].left > 0 => run[r].left > 0)
    <2>1. run[r] \in Run /\ run[r].left \in Nat
      BY <1>0, Types, ConstantFacts DEF Run
    <2>2. run'[r] = [run[r] EXCEPT !.left = Less(@)]
      BY <1>0, TickTypes
    <2>3. /\ run'[r].pc = run[r].pc /\ run'[r].conn = run[r].conn /\ run'[r].owed = run[r].owed
          /\ run'[r].seen = run[r].seen /\ run'[r].at = run[r].at /\ run'[r].left = Less(run[r].left)
      BY <2>1, <2>2 DEF Run
    <2> QED BY <2>1, <2>3, Lessened
  <1>4. \A e \in Entries : Pending(e)' => Pending(e)
    <2>1. \A r \in Runs : Cur(run'[r]) = Cur(run[r])
      BY <1>3 DEF Cur, Todo
    <2>2. \A r \in Runs, e \in Entries : Asking(r, e)' => Asking(r, e)
      BY <1>3, <2>1 DEF Asking
    <2> QED BY <1>2, <2>2 DEF Pending
  <1>5. \A e \in Entries : /\ dv'[e].state = dv[e].state /\ dv'[e].conn = dv[e].conn
                           /\ dv'[e].next = dv[e].next /\ dv'[e].denied = dv[e].denied
    BY <1>0, TickTypes
  <1>6. \A c \in Conns : /\ conn'[c].status = conn[c].status /\ conn'[c].holder = conn[c].holder
                         /\ conn'[c].lease > 0 => conn[c].lease > 0
    BY <1>0, TickTypes
  <1>7. ASSUME NEW c \in Conns PROVE conn'[c].cut = conn[c].cut
    <2>1. PICK n : n = Less(conn[c].lease)
      OBVIOUS
    <2>2. conn'[c] = [conn[c] EXCEPT !.lease = n] /\ conn[c] \in Connection
      BY <1>0, <2>1, Types DEF Tick
    <2> QED BY <2>2 DEF Connection
  <1>8. Still
    <2>1. ConnsKept
      BY <1>6, <1>7 DEF ConnsKept, Open
    <2> QED BY <1>1, <1>4, <1>5, <2>1 DEF Still, Word
  <1>9. \A c \in Conns : InTurn(c)'
    BY <1>6 DEF LInv, Books, InTurn
  <1>10. \A q \in Runs : run[q].pc # "idle" /\ Holds(q)' => Holds(q)
    BY <1>0, <1>3, <1>6, RunFacts DEF Holds
  <1>11. ASSUME NEW q \in Runs, Holds(q), run[q].pc = "intent"
         PROVE  dv'[Cur(run[q])].state = dv[Cur(run[q])].state
    BY <1>0, <1>5, <1>11, RunFacts DEF Busy
  <1> QED BY <1>0, <1>1, <1>3, <1>5, <1>8, <1>9, <1>10, <1>11, WorldKeeps

(* A day without a run. *)
LEMMA DayPassesKeeps ==
  ASSUME LInv, IInv', DayPasses
  PROVE  LInv'
  <1>0. IInv /\ due \in Nat /\ UNCHANGED <<run, series, late, due>>
    <2>1. LastEntry \in Nat
      BY FortnoxAssumption
    <2>2. UNCHANGED <<run, series, late, due>>
      BY DEF DayPasses
    <2> QED BY <2>1, <2>2, Types DEF LInv
  <1>1. \A r \in Runs : run[r].pc = "idle"
    BY DEF DayPasses, Under
  <1>2. ASSUME NEW e \in Entries
        PROVE  /\ dv'[e].state = dv[e].state /\ dv'[e].conn = dv[e].conn
               /\ dv'[e].next = dv[e].next /\ dv'[e].denied = dv[e].denied
    <2>1. dv[e] \in Delivery
      BY <1>0, Types
    <2>2. CASE dv[e].state = "SENDING"
      <3>1. PICK o : o = [dv[e] EXCEPT !.age = Unsure]
        OBVIOUS
      <3>2. dv'[e] = o
        BY <2>2, <3>1 DEF DayPasses
      <3> QED BY <2>1, <3>1, <3>2 DEF Delivery
    <2>3. CASE dv[e].state = "BOOKED"
      <3>1. PICK o : o = [dv[e] EXCEPT !.old = TRUE]
        OBVIOUS
      <3>2. dv'[e] = o
        BY <2>3, <3>1 DEF DayPasses
      <3> QED BY <2>1, <3>1, <3>2 DEF Delivery
    <2>4. CASE dv[e].state \notin {"SENDING", "BOOKED"}
      <3>1. dv'[e] = dv[e]
        BY <2>4 DEF DayPasses
      <3> QED BY <3>1
    <2> QED BY <2>2, <2>3, <2>4
  <1>3. ASSUME NEW c \in Conns PROVE conn'[c].status = conn[c].status /\ conn'[c].cut = conn[c].cut
    <2>1. conn[c] \in Connection
      BY <1>0, Types
    <2>2. PICK d : d = [conn[c] EXCEPT !.lease = 0, !.night = FALSE, !.reached = FALSE]
      OBVIOUS
    <2>3. d.status = conn[c].status /\ d.cut = conn[c].cut
      BY <2>1, <2>2 DEF Connection
    <2>4. conn'[c] = d \/ conn'[c] = conn[c]
      BY <2>2 DEF DayPasses
    <2> QED BY <2>3, <2>4
  <1>4. Still
    <2>1. \A e \in Entries : Pending(e)' => Pending(e)
      BY <1>0, FewerAsks DEF Pending, AsksKept
    <2>2. ConnsKept
      BY <1>3 DEF ConnsKept, Open
    <2> QED BY <1>0, <1>2, <2>1, <2>2 DEF Still, Word
  <1>5. \A c \in Conns : InTurn(c)'
    BY <1>3 DEF LInv, Books, InTurn
  <1> QED BY <1>0, <1>1, <1>2, <1>4, <1>5, WorldKeeps

-----------------------------------------------------------------------------
(* A voucher made. *)

(* What the series gains by one voucher more. *)
LEMMA Gained ==
  ASSUME NEW v, series \in Seq(Entries \cup {Other}), v \in Entries \cup {Other}, series' = Append(series, v)
  PROVE  /\ Len(series) + 1 \notin DOMAIN series /\ Len(series) \in Nat
         /\ DOMAIN series' = DOMAIN series \cup {Len(series) + 1}
         /\ \A i \in DOMAIN series : series'[i] = series[i]
         /\ series'[Len(series) + 1] = v
  OBVIOUS

(* One member more. *)
LEMMA OneMore ==
  ASSUME NEW S, IsFiniteSet(S), NEW i
  PROVE  /\ Cardinality(S) \in Nat /\ Cardinality(S \cup {i}) \in Nat
         /\ Cardinality(S \cup {i}) <= Cardinality(S) + 1
  <1> DEFINE m == Cardinality(S)
             k == Cardinality(S \cup {i})
  <1>1. IsFiniteSet(S \cup {i}) /\ k = IF i \in S THEN m ELSE m + 1
    BY FS_AddElement
  <1>2. m \in Nat
    BY FS_CardinalityType
  <1> HIDE DEF m, k
  <1>3. k \in Nat /\ k <= m + 1
    <2>1. CASE i \in S
      BY <1>1, <1>2, <2>1
    <2>2. CASE i \notin S
      BY <1>1, <1>2, <2>2
    <2> QED BY <2>1, <2>2
  <1> QED BY <1>2, <1>3 DEF m, k

(* A voucher is made of a request under way, which is then through, or is   *)
(* somebody else's.                                                         *)
LEMMA AppendKeeps ==
  ASSUME LInv, IInv', NEW v, v \in Entries \cup {Other}, series' = Append(series, v),
         UNCHANGED <<dv, conn, run, due>>,
         \A e \in Entries : IF v = e THEN late[e] > 0 /\ late'[e] = 0 ELSE late'[e] = late[e],
         v = Other => Cardinality(Made(Other, 1)) < MaxOthers
  PROVE  LInv'
  <1> DEFINE n == Len(series) + 1
  <1>0. IInv /\ Books /\ series \in Seq(Entries \cup {Other})
    BY Types DEF LInv
  <1>1. /\ n \notin DOMAIN series /\ DOMAIN series' = DOMAIN series \cup {n} /\ n \in Nat /\ n >= 1
        /\ \A i \in DOMAIN series : series'[i] = series[i]
        /\ series'[n] = v
    BY <1>0, Gained
  <1> HIDE DEF n
  <1>2. v # Other => v \in Entries /\ Pending(v)
    BY DEF Pending
  <1>3. ASSUME NEW e \in Entries, Pending(e)' PROVE Pending(e) /\ e # v
    <2>1. \A r \in Runs : Asking(r, e)' <=> Asking(r, e)
      BY DEF Asking
    <2>2. v = e => \A r \in Runs : ~Asking(r, e)
      BY <1>0 DEF IInv, Single
    <2> QED BY <1>3, <2>1, <2>2 DEF Pending
  <1>4. ASSUME NEW e \in Entries, InSeries(e) PROVE InSeries(e)'
    BY <1>1, <1>4 DEF InSeries, Made
  <1>5. ASSUME NEW k, Window(k) PROVE Window(k)'
    <2>1. ASSUME NEW i \in DOMAIN series, i >= k, series[i] # Other, v # Other PROVE dv[v].conn # dv[series[i]].conn
      BY <1>2, <1>5, <2>1 DEF Window
    <2>2. ASSUME NEW e \in Entries, Pending(e)', v # Other PROVE dv[e].conn # dv[v].conn
      BY <1>0, <1>2, <1>3, <2>2 DEF Books, Alone
    <2>3. ASSUME NEW i \in DOMAIN series, i >= k, series[i] # Other
          PROVE  /\ \A j \in DOMAIN series' : j >= k /\ series'[j] # Other /\ dv[series'[j]].conn = dv[series[i]].conn => j = i
                 /\ \A e \in Entries : Pending(e)' => dv[e].conn # dv[series[i]].conn
      <3>1. \A j \in DOMAIN series : j >= k /\ series[j] # Other /\ dv[series[j]].conn = dv[series[i]].conn => j = i
        BY <1>5, <2>3 DEF Window
      <3>2. \A e \in Entries : Pending(e)' => dv[e].conn # dv[series[i]].conn
        BY <1>3, <1>5, <2>3 DEF Window
      <3> QED BY <1>1, <2>1, <2>3, <3>1, <3>2
    <2>4. ASSUME v # Other
          PROVE  /\ \A j \in DOMAIN series' : j >= k /\ series'[j] # Other /\ dv[series'[j]].conn = dv[v].conn => j = n
                 /\ \A e \in Entries : Pending(e)' => dv[e].conn # dv[v].conn
      BY <1>1, <2>1, <2>2, <2>4
    <2> QED BY <1>1, <2>3, <2>4 DEF Window
  <1>6. \A e \in Entries : InOrder(e)'
    BY <1>0 DEF Books, InOrder
  <1>7. \A e \in Entries : Front(e)'
    BY <1>0, <1>3, <1>4, <1>5 DEF Books, Front, Open, Word, Window
  <1>8. (\A c \in Conns : InTurn(c)') /\ Known' /\ Alone'
    BY <1>0, <1>3 DEF Books, InTurn, Known, Alone
  <1>9. Cardinality(Made(Other, 1)') <= MaxOthers
    <2>1. CASE v # Other
      BY <1>0, <2>1, MadeSame DEF Books, Counted
    <2>2. CASE v = Other
      <3>1. Made(Other, 1)' = Made(Other, 1) \cup {n}
        BY <1>1, <2>2 DEF Made
      <3>2. IsFiniteSet(Made(Other, 1))
        <4>1. Len(series) \in Nat /\ DOMAIN series = 1 .. Len(series)
          BY <1>0
        <4>2. IsFiniteSet(DOMAIN series)
          BY <4>1, FS_Interval
        <4>3. Made(Other, 1) \in SUBSET DOMAIN series
          BY DEF Made
        <4> QED BY <4>2, <4>3, FS_Subset
      <3>3. Cardinality(Made(Other, 1)) \in Nat /\ MaxOthers \in Nat
        BY <3>2, FS_CardinalityType, FortnoxAssumption
      <3>4. Cardinality(Made(Other, 1) \cup {n}) <= Cardinality(Made(Other, 1)) + 1
        BY <3>2, OneMore
      <3>5. Cardinality(Made(Other, 1) \cup {n}) \in Nat
        BY <3>2, OneMore
      <3>6. Cardinality(Made(Other, 1)) < MaxOthers
        BY <2>2
      <3>7. PICK m, k : m = Cardinality(Made(Other, 1)) /\ k = Cardinality(Made(Other, 1) \cup {n})
        OBVIOUS
      <3>8. k <= MaxOthers
        BY <3>3, <3>4, <3>5, <3>6, <3>7
      <3> QED BY <3>1, <3>7, <3>8
    <2> QED BY <2>1, <2>2
  <1>10. ASSUME NEW c \in Conns, conn[c].status = "DISCONNECTED"
         PROVE  /\ Cardinality(Vouchers(c)') <= conn[c].cut + 1
                /\ \A e \in Entries : Pending(e)' /\ dv[e].conn = c => Cardinality(Vouchers(c)') <= conn[c].cut
    <2>0. /\ Cardinality(Vouchers(c)) <= conn[c].cut + 1
          /\ \A e \in Entries : Pending(e) /\ dv[e].conn = c => Cardinality(Vouchers(c)) <= conn[c].cut
      BY <1>0, <1>10 DEF Books, Counted
    <2>1. CASE v = Other \/ dv[v].conn # c
      <3>1. Vouchers(c)' = Vouchers(c)
        BY <1>1, <2>1 DEF Vouchers
      <3> QED BY <1>3, <2>0, <3>1
    <2>2. CASE v # Other /\ dv[v].conn = c
      <3>1. Vouchers(c)' = Vouchers(c) \cup {n}
        BY <1>1, <2>2 DEF Vouchers
      <3>2. IsFiniteSet(Vouchers(c))
        <4>1. Len(series) \in Nat /\ DOMAIN series = 1 .. Len(series)
          BY <1>0
        <4>2. IsFiniteSet(DOMAIN series)
          BY <4>1, FS_Interval
        <4>3. Vouchers(c) \in SUBSET DOMAIN series
          BY DEF Vouchers
        <4> QED BY <4>2, <4>3, FS_Subset
      <3>3. Cardinality(Vouchers(c)) \in Nat /\ conn[c].cut \in Nat
        <4>1. conn[c] \in Connection
          BY <1>0, Types
        <4>2. conn[c].cut \in Nat
          BY <4>1, Zenon DEF Connection
        <4> QED BY <3>2, <4>2, FS_CardinalityType
      <3>4. Cardinality(Vouchers(c) \cup {n}) <= Cardinality(Vouchers(c)) + 1
        BY <3>2, OneMore
      <3>5. Cardinality(Vouchers(c) \cup {n}) \in Nat
        BY <3>2, OneMore
      <3>6. Cardinality(Vouchers(c)) <= conn[c].cut
        BY <1>2, <2>0, <2>2
      <3>7. \A e \in Entries : Pending(e)' => dv[e].conn # c
        BY <1>0, <1>2, <1>3, <2>2 DEF Books, Alone
      <3> QED BY <3>1, <3>3, <3>4, <3>5, <3>6, <3>7
    <2> QED BY <2>1, <2>2
  <1>11. Counted'
    BY <1>9, <1>10 DEF Counted
  <1>12. ASSUME NEW r \in Runs PROVE Line(r)'
    <2>1. Line(r) /\ (Holds(r)' <=> Holds(r)) /\ run'[r] = run[r]
      BY DEF LInv, Holds
    <2>2. PICK k, c, e : k = run[r].at /\ c = run[r].conn /\ e = Cur(run[r])
      OBVIOUS
    <2>3. ASSUME run[r].pc = "intent", Holds(r), ~run[r].owed, dv[e].state = "QUEUED"
          PROVE  /\ Window(k)'
                 /\ \A i \in DOMAIN series' : i >= k /\ series'[i] # Other => dv[series'[i]].conn # c
      <3>1. /\ Window(k)
            /\ \A i \in DOMAIN series : i >= k /\ series[i] # Other => dv[series[i]].conn # c
        BY <2>1, <2>2, <2>3 DEF Line
      <3>2. e \in Entries
        BY <1>0, <2>2, <2>3, RunFacts DEF Busy
      <3>3. v # Other => dv[v].conn # c
        BY <1>2, <2>2, <2>3, <3>2, ItsTurn
      <3> QED BY <1>1, <1>5, <3>1, <3>3
    <2>4. Cur(run'[r]) = e /\ Todo(run'[r]) = Todo(run[r])
      BY <2>1, <2>2
    <2>5. /\ run[r].pc \in Sending => ~run[r].owed
          /\ run[r].pc = "next" => run[r].owed
          /\ run[r].pc # "idle" /\ Holds(r) /\ ~run[r].owed =>
               /\ \A g \in Todo(run[r]), f \in Entries :
                    f < g /\ dv[f].conn = c /\ dv[f].state \in Owed => f \in Todo(run[r])
               /\ run[r].pc \in Attaching => dv[e].state \notin Owed
      BY <2>1, <2>2 DEF Line
    <2> QED BY <2>1, <2>2, <2>3, <2>4, <2>5 DEF Line, Window
  <1> QED BY <1>6, <1>7, <1>8, <1>11, <1>12 DEF LInv, Books

(* A request lands. *)
LEMMA LandKeeps ==
  ASSUME LInv, IInv', NEW e \in Entries, Land(e)
  PROVE  LInv'
  <1>1. late \in [Entries -> 0 .. Landing]
    BY Types DEF LInv
  <1>2. \A f \in Entries : IF e = f THEN late[f] > 0 /\ late'[f] = 0 ELSE late'[f] = late[f]
    BY <1>1 DEF Land
  <1>3. e # Other /\ e \in Entries \cup {Other}
    BY ConstantFacts
  <1> QED BY <1>2, <1>3, AppendKeeps DEF Land

(* Others make a voucher. *)
LEMMA OtherVoucherKeeps ==
  ASSUME LInv, IInv', OtherVoucher
  PROVE  LInv'
  <1>1. \A f \in Entries : Other # f
    BY ConstantFacts
  <1> QED BY <1>1, AppendKeeps DEF OtherVoucher

-----------------------------------------------------------------------------
(* The invariant, and what follows from it. *)

(* At the start there is nothing in the books. *)
LEMMA LInvInit == Init => LInv
  <1> SUFFICES ASSUME Init PROVE LInv
    OBVIOUS
  <1>1. IInv
    BY InitOK
  <1>2. /\ \A r \in Runs : run[r].pc = "idle"
        /\ \A c \in Conns : conn[c].status = "NONE"
        /\ \A e \in Entries : dv[e].state = "NEW" /\ late[e] = 0
        /\ series = <<>>
    BY DEF Init, NewRun, NoConnection, Nothing, NoDelivery
  <1>3. \A e \in Entries : ~Pending(e)
    BY <1>2 DEF Pending, Asking
  <1>4. Counted
    <2>1. Made(Other, 1) = {}
      BY <1>2 DEF Made
    <2>2. 0 <= MaxOthers
      BY FortnoxAssumption
    <2> QED BY <1>2, <2>1, <2>2, FS_EmptySet DEF Counted
  <1>5. Books
    BY <1>2, <1>3, <1>4 DEF Books, InOrder, Front, InTurn, Known, Alone
  <1>6. \A r \in Runs : Line(r)
    BY <1>2 DEF Line, Sending, Attaching
  <1> QED BY <1>1, <1>5, <1>6 DEF LInv

(* Every step keeps the books of the line and the line of every run.        *)
LEMMA LInvStep == LInv /\ [Next]_vars => LInv'
  <1> SUFFICES ASSUME LInv, [Next]_vars PROVE LInv'
    OBVIOUS
  <1>0. IInv'
    BY ScanEnough, StepOK DEF LInv
  <1>1. ASSUME NEW r \in Runs, Advance(r) PROVE LInv'
    BY <1>0, <1>1, ClaimKeeps, HelloKeeps, ReadLineKeeps, BookKeeps, ReconcileKeeps, RequeueKeeps,
       SendKeeps, IntentKeeps, AskKeeps, AnswerKeeps, WriteBookedKeeps, ReadOwedKeeps, NextOwedKeeps,
       AttachPdfKeeps, KeepMarkKeeps, ConnectFileKeeps, WriteDoneKeeps, EndKeeps, NightFileKeeps,
       CloseNightKeeps, WriteStateKeeps, ReleaseKeeps
       DEF Advance
  <1>2. ASSUME NEW r \in Runs, Start(r) \/ Throw(r) \/ Crash(r) PROVE LInv'
    BY <1>0, <1>2, StartKeeps, EndKeeps
  <1>3. ASSUME NEW c \in Conns, Person(c) PROVE LInv'
    BY <1>0, <1>3, PersonKeeps
  <1>4. ASSUME NEW e \in Entries, BookByHand(e) \/ NotInFortnox(e) \/ Land(e) PROVE LInv'
    BY <1>0, <1>4, BookByHandKeeps, NotInFortnoxKeeps, LandKeeps
  <1>5. ASSUME NEW e \in Entries, HandOver(dv[e].file) PROVE LInv'
    <2>1. PICK n : n = dv[e].file
      OBVIOUS
    <2> QED BY <1>0, <1>5, <2>1, HandOverKeeps
  <1>6. CASE OtherVoucher \/ NewEntry \/ Tick \/ DayPasses
    BY <1>0, <1>6, OtherVoucherKeeps, NewEntryKeeps, TickKeeps, DayPassesKeeps
  <1>7. CASE UNCHANGED vars
    <2>1. UNCHANGED <<dv, conn, run, series, late, due>>
      BY <1>7 DEF vars
    <2> QED BY <1>0, <2>1, DecideKeeps
  <1> QED BY <1>1, <1>2, <1>3, <1>4, <1>5, <1>6, <1>7 DEF Next

(* The sender's state, the books of the line and the line of every run are  *)
(* what its parts rely on, for ever.                                        *)
THEOREM Invariant == Spec => []LInv
  BY LInvInit, LInvStep, PTL DEF Spec

(* A reconcile looks at enough numbers: the voucher of an entry being sent   *)
(* stands among the Scan numbers from the one kept before it was asked for,  *)
(* however many connections and others have made vouchers meanwhile.         *)
THEOREM ScanHolds == Spec => []WithinScan
  BY Invariant, ScanEnough, PTL

(* The kill switch: of a disconnected connection at most the one voucher    *)
(* already asked for still comes.                                           *)
THEOREM CutsOff == Spec => []CutOff
  <1>1. LInv => CutOff
    BY DEF LInv, Books, Counted, CutOff
  <1> QED BY <1>1, Invariant, PTL

(* Nothing is sent twice: with any number of entries, runs and connections, *)
(* however answers are lost, runs die, leases lapse and people decide, each *)
(* entry has at most one voucher in Fortnox.                                *)
THEOREM Once == Spec => []OneVoucher
  <1>1. LInv => OneVoucher
    BY IInvMeans DEF LInv
  <1> QED BY <1>1, Invariant, PTL

(* A delivery booked or done names its own voucher, and no voucher of the   *)
(* sender stands in Fortnox without the delivery saying it may.             *)
THEOREM Accounted == Spec => []VouchersAccounted
  <1>1. LInv => VouchersAccounted
    BY IInvMeans DEF LInv
  <1> QED BY <1>1, Invariant, PTL

(* Each variable has its type.                                              *)
THEOREM Typed == Spec => []TypeOK
  <1>1. LInv => TypeOK
    BY DEF LInv, IInv
  <1> QED BY <1>1, Invariant, PTL

(* A stop only a person mends stands until a person reconnects or           *)
(* disconnects, and a run settles only the connection it was started on, in *)
(* the consent it was started under.                                        *)
THEOREM Stands == Spec => PersonsStopStands
  <1> DEFINE S == \A c \in Conns : Steady(conn[c])
             A == \A c \in Conns :
                    conn'[c].status # conn[c].status \/ conn'[c].stop # conn[c].stop =>
                      \/ conn'[c].status = "DISCONNECTED"
                      \/ conn'[c].attempt # conn[c].attempt
                      \/ /\ conn[c].stop.kind # "terminal"
                         /\ \E r \in Runs : /\ run[r].conn = c /\ run'[r] # run[r]
                                            /\ run[r].attempt = conn[c].attempt
  <1>1. Init => S
    BY DEF Init, Steady, NoConnection
  <1>2. LInv /\ S /\ [Next]_vars => S' /\ A
    BY MovedSteadily DEF LInv
  <1>3. PersonsStopStands <=> [][A]_vars
    BY DEF PersonsStopStands
  <1> HIDE DEF S, A
  <1> QED BY <1>1, <1>2, <1>3, Invariant, PTL DEF Spec

-----------------------------------------------------------------------------
(* The nightly send implements its promise. *)

(* A step that makes no voucher, hands nothing to a connection, and takes   *)
(* back no person's word.                                                   *)
Decided ==
  /\ series' = series
  /\ \A e \in Entries : /\ dv'[e].conn = dv[e].conn
                        /\ Word(e) => Word(e)'
                        /\ Word(e)' => Word(e) \/ dv[e].conn # NoConn

(* Such a step is a person's decision in the book, or nothing.              *)
LEMMA DecidedIsPromised ==
  ASSUME Decided
  PROVE  [Promise!Next]_(Promise!bookVars)
  <1>0. PICK D : D = {e \in Entries : Word(e)' /\ ~Word(e)}
    OBVIOUS
  <1> DEFINE own == [e \in Entries |-> dv[e].conn]
             said == [e \in Entries |-> dv[e].denied \/ dv[e].state \in {"BY_HAND", "DOWNLOADED"}]
  <1>1. series' = series /\ own' = own
    BY DEF Decided
  <1>2. \A e \in Entries : (said'[e] <=> Word(e)') /\ (said[e] <=> Word(e))
    BY DEF Word
  <1>3. said' = [e \in Entries |-> said[e] \/ e \in D]
    <2>1. said' = [e \in Entries |-> dv'[e].denied \/ dv'[e].state \in {"BY_HAND", "DOWNLOADED"}]
      OBVIOUS
    <2>2. \A e \in Entries : (dv'[e].denied \/ dv'[e].state \in {"BY_HAND", "DOWNLOADED"}) = (said[e] \/ e \in D)
      BY <1>0, Zenon DEF Decided, Word
    <2> QED BY <2>1, <2>2, Zenon
  <1>4. CASE D = {}
    <2>1. said' = said
      <3>1. \A e \in Entries : (dv'[e].denied \/ dv'[e].state \in {"BY_HAND", "DOWNLOADED"})
                                 = (dv[e].denied \/ dv[e].state \in {"BY_HAND", "DOWNLOADED"})
        BY <1>0, <1>4, Zenon DEF Decided, Word
      <3> QED BY <3>1, Zenon
    <2> QED BY <1>1, <2>1, Zenon DEF Promise!bookVars
  <1>5. CASE D # {}
    <2>1. \A e \in D : own[e] # NoConn /\ ~said[e]
      BY <1>0, <1>2 DEF Decided
    <2>2. D \in SUBSET Entries
      BY <1>0
    <2>3. Promise!Decide(D)
      <3>1. said' = [e \in Promise!Entries |-> said[e] \/ e \in D]
        BY <1>3 DEF Promise!Entries, Entries
      <3>2. <<own, series>>' = <<own, series>>
        BY <1>1
      <3> QED BY <1>5, <2>1, <3>1, <3>2, Zenon DEF Promise!Decide
    <2>4. D \in SUBSET Promise!Entries
      BY <2>2 DEF Promise!Entries, Entries
    <2>5. Promise!Next
      BY <2>3, <2>4, Zenon DEF Promise!Next
    <2> QED BY <2>5
  <1> QED BY <1>4, <1>5

(* A delivery written keeps its connection and what a person has said.      *)
LEMMA Rewritten ==
  ASSUME IInv, NEW e \in Entries, NEW o, dv' = dv \/ dv' = [dv EXCEPT ![e] = o], series' = series,
         o.conn = dv[e].conn, dv[e].denied => o.denied,
         dv[e].state \notin {"NEW", "BY_HAND", "DOWNLOADED"}
  PROVE  Decided
  <1>1. dv[e].conn # NoConn
    BY DEF IInv, Told
  <1>2. \A f \in Entries : dv'[f] = dv[f] \/ (f = e /\ dv'[f] = o)
    BY Types
  <1> QED BY <1>1, <1>2 DEF Decided, Word

(* What a run writes of a delivery is no person's word.                     *)
LEMMA RunDecides ==
  ASSUME IInv, NEW r \in Runs,
         Requeue(r) \/ Intent(r) \/ WriteBooked(r) \/ KeepMark(r) \/ WriteDone(r)
  PROVE  Decided
  <1>1. run[r].pc \in Busy
    BY DEF Busy, Requeue, Intent, WriteBooked, KeepMark, WriteDone
  <1>2. PICK e \in Entries : e = Cur(run[r])
    BY <1>1, RunFacts
  <1>3. dv \in [Entries -> Delivery] /\ dv[e] \in Delivery
    BY Types
  <1>4. series' = series
    BY DEF Requeue, Intent, WriteBooked, KeepMark, WriteDone
  <1>5. CASE dv' = dv
    BY <1>4, <1>5 DEF Decided, Word
  <1>6. ASSUME NEW o, dv' = [dv EXCEPT ![e] = o], o.conn = dv[e].conn /\ o.denied = dv[e].denied,
               dv[e].state \in {"SENDING", "QUEUED", "BOOKED"}
        PROVE  Decided
    BY <1>4, <1>6, Rewritten
  <1>7. CASE Requeue(r)
    <2>1. PICK o : o = [dv[e] EXCEPT !.state = "QUEUED", !.next = 0, !.age = 0]
      OBVIOUS
    <2>2. o.conn = dv[e].conn /\ o.denied = dv[e].denied
      BY <1>3, <2>1 DEF Delivery
    <2>3. [dv EXCEPT ![e].state = "QUEUED", ![e].next = 0, ![e].age = 0] = [dv EXCEPT ![e] = o]
      BY <1>3, <2>1
    <2>4. dv' = dv \/ (dv' = [dv EXCEPT ![e] = o] /\ dv[e].state = "SENDING")
      BY <1>2, <1>7, <2>3 DEF Requeue, Lost
    <2> QED BY <1>5, <1>6, <2>2, <2>4
  <1>8. CASE Intent(r)
    <2>0. PICK n : n = run[r].at
      OBVIOUS
    <2>1. PICK o : o = [dv[e] EXCEPT !.state = "SENDING", !.next = n, !.age = 0]
      OBVIOUS
    <2>2. o.conn = dv[e].conn /\ o.denied = dv[e].denied
      BY <1>3, <2>1 DEF Delivery
    <2>3. [dv EXCEPT ![e].state = "SENDING", ![e].next = n, ![e].age = 0] = [dv EXCEPT ![e] = o]
      BY <1>3, <2>1
    <2>4. dv' = dv \/ (dv' = [dv EXCEPT ![e] = o] /\ dv[e].state = "QUEUED")
      BY <1>2, <1>8, <2>0, <2>3 DEF Intent, Lost
    <2> QED BY <1>5, <1>6, <2>2, <2>4
  <1>9. CASE WriteBooked(r)
    <2>0. PICK n : n = run[r].at
      OBVIOUS
    <2>1. PICK o : o = [dv[e] EXCEPT !.state = "BOOKED", !.number = n, !.next = 0, !.age = 0]
      OBVIOUS
    <2>2. o.conn = dv[e].conn /\ o.denied = dv[e].denied
      BY <1>3, <2>1 DEF Delivery
    <2>3. [dv EXCEPT ![e].state = "BOOKED", ![e].number = n, ![e].next = 0, ![e].age = 0] = [dv EXCEPT ![e] = o]
      BY <1>3, <2>1
    <2>4. dv' = dv \/ (dv' = [dv EXCEPT ![e] = o] /\ dv[e].state = "SENDING")
      BY <1>2, <1>9, <2>0, <2>3 DEF WriteBooked, Lost
    <2> QED BY <1>5, <1>6, <2>2, <2>4
  <1>10. CASE KeepMark(r)
    <2>1. PICK o : o = [dv[e] EXCEPT !.kept = TRUE]
      OBVIOUS
    <2>2. o.conn = dv[e].conn /\ o.denied = dv[e].denied
      BY <1>3, <2>1 DEF Delivery
    <2>3. [dv EXCEPT ![e].kept = TRUE] = [dv EXCEPT ![e] = o]
      BY <1>3, <2>1
    <2>4. dv' = dv \/ (dv' = [dv EXCEPT ![e] = o] /\ dv[e].state = "BOOKED")
      BY <1>2, <1>10, <2>3 DEF KeepMark, Lost
    <2> QED BY <1>5, <1>6, <2>2, <2>4
  <1>11. CASE WriteDone(r)
    <2>1. PICK o : o = [dv[e] EXCEPT !.state = "DONE", !.kept = TRUE, !.old = FALSE]
      OBVIOUS
    <2>2. o.conn = dv[e].conn /\ o.denied = dv[e].denied
      BY <1>3, <2>1 DEF Delivery
    <2>3. [dv EXCEPT ![e].state = "DONE", ![e].kept = TRUE, ![e].old = FALSE] = [dv EXCEPT ![e] = o]
      BY <1>3, <2>1
    <2>4. dv' = dv \/ (dv' = [dv EXCEPT ![e] = o] /\ dv[e].state = "BOOKED")
      BY <1>2, <1>11, <2>3 DEF WriteDone, Lost
    <2> QED BY <1>5, <1>6, <2>2, <2>4
  <1> QED BY <1>7, <1>8, <1>9, <1>10, <1>11

(* What people decide, and what time changes.                               *)
LEMMA WorldDecides ==
  ASSUME IInv,
         \/ \E e \in Entries : BookByHand(e) \/ NotInFortnox(e) \/ \E n : HandOver(n)
         \/ Tick \/ DayPasses
  PROVE  Decided
  <1>1. dv \in [Entries -> Delivery]
    BY Types
  <1>2. ASSUME NEW e \in Entries, BookByHand(e) PROVE Decided
    <2>1. PICK o : o = [dv[e] EXCEPT !.state = "BY_HAND", !.next = 0, !.age = 0, !.old = FALSE]
      OBVIOUS
    <2>2. o.conn = dv[e].conn /\ o.denied = dv[e].denied
      BY <1>1, <2>1 DEF Delivery
    <2>3. dv' = [dv EXCEPT ![e] = o] /\ series' = series
      BY <1>1, <1>2, <2>1 DEF BookByHand
    <2>4. dv[e].state \notin {"NEW", "BY_HAND", "DOWNLOADED"}
      BY <1>2 DEF BookByHand, Decidable
    <2> QED BY <2>2, <2>3, <2>4, Rewritten
  <1>3. ASSUME NEW e \in Entries, NotInFortnox(e) PROVE Decided
    <2>1. PICK o : o = [dv[e] EXCEPT !.state = "QUEUED", !.next = 0, !.age = 0, !.denied = TRUE]
      OBVIOUS
    <2>2. o.conn = dv[e].conn /\ o.denied
      BY <1>1, <2>1 DEF Delivery
    <2>3. dv' = [dv EXCEPT ![e] = o] /\ series' = series /\ dv[e].state = "SENDING"
      BY <1>1, <1>3, <2>1 DEF NotInFortnox
    <2> QED BY <2>2, <2>3, Rewritten
  <1>4. ASSUME NEW n, HandOver(n) PROVE Decided
    <2>1. ASSUME NEW e \in Entries, dv'[e] # dv[e]
          PROVE  /\ dv[e].conn # NoConn /\ dv'[e].conn = dv[e].conn /\ dv'[e].denied = dv[e].denied
                 /\ dv[e].state \notin {"BY_HAND", "DOWNLOADED"}
      <3>1. PICK o : o = [dv[e] EXCEPT !.state = "DOWNLOADED"]
        OBVIOUS
      <3>2. o.denied = dv[e].denied /\ o.conn = dv[e].conn
        BY <1>1, <3>1 DEF Delivery
      <3>3. dv[e].state = "QUEUED" /\ dv'[e] = o
        BY <1>4, <2>1, <3>1 DEF HandOver
      <3> QED BY <3>2, <3>3 DEF IInv, Told
    <2>2. series' = series
      BY <1>4 DEF HandOver
    <2> QED BY <2>1, <2>2 DEF Decided, Word
  <1>5. CASE Tick
    <2>1. \A e \in Entries : /\ dv'[e].state = dv[e].state /\ dv'[e].conn = dv[e].conn
                             /\ dv'[e].denied = dv[e].denied
      BY <1>5, TickTypes
    <2>2. series' = series
      BY <1>5 DEF Tick
    <2> QED BY <2>1, <2>2 DEF Decided, Word
  <1>6. CASE DayPasses
    <2>1. ASSUME NEW e \in Entries
          PROVE  /\ dv'[e].conn = dv[e].conn /\ dv'[e].denied = dv[e].denied /\ dv'[e].state = dv[e].state
      <3>1. PICK o, p : o = [dv[e] EXCEPT !.age = Unsure] /\ p = [dv[e] EXCEPT !.old = TRUE]
        OBVIOUS
      <3>2. dv'[e] \in {o, p, dv[e]}
        BY <1>6, <3>1, Zenon DEF DayPasses
      <3>3. dv[e] \in Delivery
        BY <1>1
      <3>4. o.conn = dv[e].conn /\ o.denied = dv[e].denied /\ o.state = dv[e].state
        BY <3>1, <3>3 DEF Delivery
      <3>5. p.conn = dv[e].conn /\ p.denied = dv[e].denied /\ p.state = dv[e].state
        BY <3>1, <3>3 DEF Delivery
      <3> QED BY <3>2, <3>4, <3>5
    <2>2. series' = series
      BY <1>6 DEF DayPasses
    <2> QED BY <2>1, <2>2 DEF Decided, Word
  <1> QED BY <1>2, <1>3, <1>4, <1>5, <1>6

(* A file hands the next entries of the books to a connection.              *)
LEMMA FiledIsPromised ==
  ASSUME IInv, NEW c \in Conns, dv' = Filed(c, Unfiled), Unfiled # {}, series' = series
  PROVE  Promise!Next
  <1> DEFINE own == [e \in Entries |-> dv[e].conn]
             said == [e \in Entries |-> dv[e].denied \/ dv[e].state \in {"BY_HAND", "DOWNLOADED"}]
  <1>1. dv \in [Entries -> Delivery]
    BY Types
  <1>2. PICK n \in Nat : n = Cardinality(Files) + 1
    BY <1>1, FilesFinite
  <1>3. PICK o : o = [NoDelivery EXCEPT !.state = "QUEUED", !.conn = c, !.file = n]
    OBVIOUS
  <1>4. o.state = "QUEUED" /\ o.conn = c /\ ~o.denied
    BY <1>3 DEF NoDelivery
  <1>5. Unfiled \in SUBSET Entries
    <2>1. due \in 0 .. LastEntry /\ LastEntry \in Nat
      BY Types, FortnoxAssumption
    <2>2. 1 .. due \subseteq Entries
      BY <2>1 DEF Entries
    <2> QED BY <2>2 DEF Unfiled
  <1>6. \A e \in Unfiled : e \in Entries /\ dv[e].state = "NEW" /\ dv[e].conn = NoConn /\ ~dv[e].denied
    <2>1. \A e \in Unfiled : e \in Entries /\ dv[e].state = "NEW"
      BY <1>5 DEF Unfiled
    <2> QED BY <2>1, ConstantFacts DEF IInv, Told
  <1>7. \A e \in Entries : dv'[e] = IF e \in Unfiled THEN o ELSE dv[e]
    BY <1>2, <1>3 DEF Filed
  <1> HIDE DEF Unfiled
  <1>8. own' = [e \in Entries |-> IF e \in Unfiled THEN c ELSE own[e]]
    BY <1>4, <1>7
  <1>9. said' = said
    <2>1. \A e \in Entries : (dv'[e].denied \/ dv'[e].state \in {"BY_HAND", "DOWNLOADED"})
                               = (dv[e].denied \/ dv[e].state \in {"BY_HAND", "DOWNLOADED"})
      <3>1. ASSUME NEW e \in Entries, e \in Unfiled
            PROVE  /\ ~(dv'[e].denied \/ dv'[e].state \in {"BY_HAND", "DOWNLOADED"})
                   /\ ~(dv[e].denied \/ dv[e].state \in {"BY_HAND", "DOWNLOADED"})
        BY <1>4, <1>6, <1>7, <3>1
      <3>2. \A e \in Entries : e \notin Unfiled => dv'[e] = dv[e]
        BY <1>7
      <3> QED BY <3>1, <3>2, Zenon
    <2> QED BY <2>1, Zenon
  <1>10. \A e \in Unfiled : own[e] = NoConn
    BY <1>6
  <1>11. Promise!Entrust(Unfiled, c)
    BY <1>8, <1>9, <1>10, Zenon DEF Promise!Entrust, Promise!Entries, Entries
  <1>12. Unfiled \in SUBSET Promise!Entries
    BY <1>5 DEF Promise!Entries, Entries
  <1> QED BY <1>11, <1>12, Zenon DEF Promise!Next

(* A request lands in its turn. *)
LEMMA LandIsPromised ==
  ASSUME LInv, NEW e \in Entries, Land(e)
  PROVE  Promise!Next
  <1> DEFINE own == [f \in Entries |-> dv[f].conn]
             said == [f \in Entries |-> dv[f].denied \/ dv[f].state \in {"BY_HAND", "DOWNLOADED"}]
  <1>1. Pending(e) /\ IInv /\ late[e] > 0 /\ series' = Append(series, e) /\ UNCHANGED dv
    BY DEF Land, LInv, Pending
  <1>2. Made(e, 1) = {} /\ own[e] # NoConn
    BY <1>1, PendingFacts, ConstantFacts
  <1>3. \A f \in Entries : Promise!InBook(f) <=> Made(f, 1) # {}
    <2>1. \A i \in DOMAIN series : i >= 1
      BY <1>1, Types
    <2> QED BY <2>1 DEF Promise!InBook, Made
  <1>4. \A f \in Entries : f < e /\ own[f] = own[e] => Promise!InBook(f) \/ said[f]
    BY <1>1, <1>3 DEF LInv, Books, Front, InSeries, Word
  <1>5. own' = own /\ said' = said
    BY <1>1
  <1>6. Promise!Voucher(e)
    BY <1>1, <1>2, <1>3, <1>4, <1>5, Zenon DEF Promise!Voucher, Promise!Entries, Entries
  <1>7. e \in Promise!Entries
    BY DEF Promise!Entries, Entries
  <1> QED BY <1>6, <1>7, Zenon DEF Promise!Next

(* Every step of the sender is one of the book's, or none.                  *)
LEMMA PromisedStep == LInv /\ [Next]_vars => [Promise!Next]_(Promise!bookVars)
  <1> SUFFICES ASSUME LInv, [Next]_vars PROVE [Promise!Next]_(Promise!bookVars)
    OBVIOUS
  <1>0. IInv
    BY DEF LInv
  <1>1. CASE UNCHANGED <<dv, series>>
    BY <1>1, DecidedIsPromised DEF Decided, Word
  <1>2. ASSUME NEW r \in Runs, Advance(r) PROVE [Promise!Next]_(Promise!bookVars)
    <2>1. CASE Requeue(r) \/ Intent(r) \/ WriteBooked(r) \/ KeepMark(r) \/ WriteDone(r)
      BY <1>0, <2>1, RunDecides, DecidedIsPromised
    <2>2. CASE NightFile(r)
      <3>1. series' = series
        BY <2>2 DEF NightFile
      <3>2. CASE dv' = Filed(run[r].conn, Unfiled) /\ Unfiled # {}
        <4>1. run[r].conn \in Conns
          BY <1>0, <2>2, RunFacts DEF NightFile
        <4> QED BY <1>0, <3>1, <3>2, <4>1, FiledIsPromised
      <3>3. CASE UNCHANGED dv
        BY <1>1, <3>1, <3>3
      <3> QED BY <2>2, <3>2, <3>3 DEF NightFile
    <2>3. CASE \/ Claim(r) \/ Hello(r) \/ ReadLine(r) \/ Book(r) \/ Reconcile(r)
               \/ Send(r) \/ Ask(r) \/ Answer(r)
               \/ ReadOwed(r) \/ NextOwed(r) \/ AttachPdf(r) \/ ConnectFile(r)
               \/ Night(r) \/ CloseNight(r) \/ Settle(r) \/ WriteState(r) \/ Release(r)
      BY <1>1, <2>3 DEF Claim, Hello, ReadLine, Book, Reconcile, Send, Ask, Answer, ReadOwed, NextOwed,
                        AttachPdf, ConnectFile, Night, CloseNight, Settle, WriteState, Release
    <2> QED BY <1>2, <2>1, <2>2, <2>3 DEF Advance
  <1>3. ASSUME NEW r \in Runs, Start(r) \/ Throw(r) \/ Crash(r) PROVE [Promise!Next]_(Promise!bookVars)
    BY <1>1, <1>3 DEF Start, Throw, Crash
  <1>4. ASSUME NEW c \in Conns, Person(c) PROVE [Promise!Next]_(Promise!bookVars)
    <2>1. CASE BookYearEnd(c)
      BY <1>0, <2>1, FiledIsPromised DEF BookYearEnd
    <2>2. CASE Connect(c) \/ Reconnect(c) \/ Disconnect(c)
      BY <1>1, <2>2 DEF Connect, Reconnect, Disconnect
    <2> QED BY <1>4, <2>1, <2>2 DEF Person
  <1>5. ASSUME NEW e \in Entries, BookByHand(e) \/ NotInFortnox(e) \/ HandOver(dv[e].file)
        PROVE  [Promise!Next]_(Promise!bookVars)
    <2>1. \E n : n = dv[e].file
      OBVIOUS
    <2>2. Decided
      BY <1>0, <1>5, <2>1, WorldDecides
    <2> QED BY <2>2, DecidedIsPromised
  <1>6. ASSUME NEW e \in Entries, Land(e) PROVE [Promise!Next]_(Promise!bookVars)
    BY <1>6, LandIsPromised
  <1>7. CASE OtherVoucher
    <2>1. UNCHANGED dv /\ series' = Append(series, 0)
      BY <1>7 DEF OtherVoucher, Other
    <2> QED BY <2>1, Zenon DEF Promise!Next, Promise!OthersVoucher
  <1>8. CASE Tick \/ DayPasses
    BY <1>0, <1>8, WorldDecides, DecidedIsPromised
  <1>9. CASE NewEntry \/ UNCHANGED vars
    BY <1>1, <1>9 DEF NewEntry, vars
  <1> QED BY <1>2, <1>3, <1>4, <1>5, <1>6, <1>7, <1>8, <1>9 DEF Next

(* The nightly send keeps its promise: each entry gets at most one voucher, *)
(* those of a connection in their order, and none is passed over but by a   *)
(* person's word, whatever answers are lost and whichever runs die.         *)
THEOREM Promised == Spec => ImplementsVoucherBook
  <1>1. Init => Promise!Init
    <2> SUFFICES ASSUME Init PROVE Promise!Init
      OBVIOUS
    <2>1. /\ [e \in Entries |-> dv[e].conn] = [e \in Entries |-> NoConn]
          /\ [e \in Entries |-> dv[e].denied \/ dv[e].state \in {"BY_HAND", "DOWNLOADED"}] = [e \in Entries |-> FALSE]
          /\ series = <<>>
      BY DEF Init, Nothing, NoDelivery
    <2> QED BY <2>1 DEF Promise!Init, Promise!Entries, Entries
  <1> QED BY <1>1, PromisedStep, Invariant, PTL DEF Spec, ImplementsVoucherBook, Promise!Spec
=============================================================================
