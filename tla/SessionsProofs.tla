-------------------------- MODULE SessionsProofs ----------------------------
(***************************************************************************)
(* Proofs about module Sessions, for any number of requests and sessions:  *)
(* types, ownership, what the pool does to whole deletion, what the purge  *)
(* spares, and the implementation of Conversations.                        *)
(***************************************************************************)
EXTENDS Sessions, FiniteSetTheorems, SequenceTheorems, TLAPS

-----------------------------------------------------------------------------
(* The inductive invariant *)

\* Ids are handed out in order.
Ids == \E n \in Nat : Known = 1..n

\* The purger and the requests each keep to their own statements.
Places ==
  /\ pc[Purger] \in {"pragma", "sweep", "waiting"}
  /\ kind[Purger] \in {"startup", "purge"}
  /\ \A p \in Requests :
       /\ pc[p] \notin {"sweep", "waiting"}
       /\ pc[p] = "pragma" => kind[p] = "delete"

\* A request has a user from its start, and a session except where it is
\* about to open one.
Busy == Statements \cup {"think"}
Asked ==
  \A p \in Requests : pc[p] \in Busy =>
    user[p] \in Users /\ (pc[p] # "create" => sess[p] \in Known)

TypeInv == TypeOK /\ Ids /\ Places /\ Asked

\* Where the process p may go on.
Leads(p, next) ==
  /\ p = Purger => next \in {"pragma", "sweep", "waiting"}
  /\ p # Purger =>
       /\ next \in (Busy \cup {"over"}) \ {"sweep", "get"}
       /\ next = "pragma" => kind[p] = "delete"
       /\ next # "over" => user[p] \in Users
       /\ next \notin {"over", "create"} => sess[p] \in Known

-----------------------------------------------------------------------------
(* The pool *)

\* Giving a connection back keeps the pool in its limits.
LEMMA ReleaseKeepsPool ==
  ASSUME PoolOK, NEW p \in Processes, NEW setting \in {"on", "off"},
         ReleaseAs(p, setting)
  PROVE  PoolOK'
<1>1. conn' \in [Processes -> {"on", "off", "none"}] /\ shared' \in BOOLEAN
  BY DEF PoolOK, ReleaseAs
<1>2. free' \in Seq({"on", "off"}) /\ Len(free') <= MaxIdle
  <2>1. CASE Len(free) < MaxIdle
    BY <2>1, SessionBounds DEF PoolOK, ReleaseAs
  <2>2. CASE ~(Len(free) < MaxIdle)
    BY <2>2 DEF PoolOK, ReleaseAs
  <2> QED BY <2>1, <2>2
<1> QED BY <1>1, <1>2 DEF PoolOK

\* So does taking one.
LEMMA AcquireKeepsPool ==
  ASSUME PoolOK, NEW p \in Processes, Acquire(p)
  PROVE  PoolOK'
<1>1. CASE free # <<>>
  <2>1. free[Len(free)] \in {"on", "off"}
    BY <1>1 DEF PoolOK
  <2>2. free' \in Seq({"on", "off"}) /\ Len(free') <= MaxIdle
    <3>1. /\ free \in Seq({"on", "off"}) /\ Len(free) \in Nat /\ Len(free) # 0
          /\ Len(free) <= MaxIdle /\ MaxIdle \in Nat
      BY <1>1, SessionBounds DEF PoolOK
    <3>2. free' = SubSeq(free, 1, Len(free) - 1)
      BY <1>1 DEF Acquire
    <3>3. \A i \in 1..(Len(free) - 1) : free[i] \in {"on", "off"}
      BY <3>1
    <3>4. 1 \in Int /\ Len(free) - 1 \in Int /\ Len(free) - 1 >= 0
      BY <3>1
    <3>5. free' \in Seq({"on", "off"})
      BY <3>2, <3>3, <3>4, SubSeqProperties
    <3>6. Len(free') = Len(free) - 1
      <4> DEFINE n == Len(free) - 1
      <4>1. n \in Nat
        BY <3>1
      <4>2. Len(free') = IF 1 <= n THEN n - 1 + 1 ELSE 0
        BY <3>2, <3>3, <3>4, SubSeqProperties
      <4> HIDE DEF n
      <4>3. Len(free') = n
        BY <4>1, <4>2
      <4> QED BY <4>3 DEF n
    <3> QED BY <3>1, <3>5, <3>6
  <2> QED BY <1>1, <2>1, <2>2 DEF PoolOK, Acquire
<1>2. CASE free = <<>>
  BY <1>2 DEF PoolOK, Acquire
<1> QED BY <1>1, <1>2

-----------------------------------------------------------------------------
(* Control *)

\* A process that goes on where it may keeps the requests well formed.
LEMMA GotoKeepsProcesses ==
  ASSUME TypeInv, NEW p \in Processes, NEW next, Leads(p, next), Goto(p, next),
         owner' = owner, untouched' \subseteq Requests, faults' \in 0..MaxFaults
  PROVE  ProcessesOK' /\ Places' /\ Asked'
<1>1. next \in Statements \cup {"idle", "think", "over", "waiting"}
  BY DEF Leads, Busy, Statements
<1>2. Known' = Known
  BY DEF Known
<1>3. /\ pc' \in [Processes -> Statements \cup {"idle", "think", "over", "waiting"}]
      /\ kind' \in [Processes -> Kinds \cup {"none", "startup", "purge"}]
      /\ user' \in [Processes -> Users \cup {None}]
      /\ sess' \in [Processes -> Known \cup {0}]
  BY <1>1 DEF TypeInv, TypeOK, ProcessesOK, Goto
<1>4. \A q \in Processes \ {p} : /\ pc'[q] = pc[q] /\ kind'[q] = kind[q]
                                 /\ user'[q] = user[q] /\ sess'[q] = sess[q]
  BY DEF TypeInv, TypeOK, ProcessesOK, Goto
<1>5. pc'[p] = next
  BY DEF TypeInv, TypeOK, ProcessesOK, Goto
<1>6. next # "over" => user'[p] = user[p] /\ sess'[p] = sess[p]
  BY DEF Goto
<1>7. next \notin {"over", "waiting"} => kind'[p] = kind[p]
  BY DEF Goto
<1>8. next = "waiting" => kind'[p] = "purge"
  BY DEF TypeInv, TypeOK, ProcessesOK, Goto
<1>9. Places'
  <2>1. Purger \in Processes /\ Requests \subseteq Processes /\ Purger \notin Requests
    BY ProcessAssumption DEF Processes
  <2>2. CASE p = Purger
    BY <1>4, <1>5, <1>7, <1>8, <2>1, <2>2 DEF Places, Leads, TypeInv
  <2>3. CASE p # Purger
    BY <1>4, <1>5, <1>7, <2>1, <2>3
       DEF Places, Leads, TypeInv, Busy, Statements, AuditPlaces, Touches
  <2> QED BY <2>2, <2>3
<1>10. Asked'
  <2>1. Requests \subseteq Processes /\ Purger \notin Requests
    BY ProcessAssumption DEF Processes
  <2> QED BY <1>2, <1>4, <1>5, <1>6, <2>1
       DEF Asked, Leads, TypeInv, Busy, Statements, AuditPlaces, Touches
<1>11. Acting \subseteq Busy \ {"create"}
  BY DEF Acting, Busy
<1> QED BY <1>2, <1>3, <1>9, <1>10, <1>11 DEF ProcessesOK, Asked

\* A process that does not move, while sessions may be added.
LEMMA StayKeepsProcesses ==
  ASSUME TypeInv, UNCHANGED <<pc, requestVars, faultVars, owner>>
  PROVE  ProcessesOK' /\ Places' /\ Asked'
BY DEF TypeInv, TypeOK, ProcessesOK, Places, Asked, requestVars, faultVars, Known,
       Acting, Busy, Statements

-----------------------------------------------------------------------------
(* The steps *)

\* All statements but Create give the connection back, go on, and leave the
\* ids as they are.
LEMMA StatementKeepsTypes ==
  ASSUME TypeInv, NEW p \in Processes, NEW setting \in {"on", "off"}, NEW next,
         ReleaseAs(p, setting), Goto(p, next), Leads(p, next), owner' = owner,
         untouched' \subseteq Requests, faults' \in 0..MaxFaults,
         live' \subseteq Known, fresh' \subseteq Known, rows' \subseteq Row
  PROVE  TypeInv'
<1>1. PoolOK'
  BY ReleaseKeepsPool DEF TypeInv, TypeOK
<1>2. ProcessesOK' /\ Places' /\ Asked'
  BY GotoKeepsProcesses
<1>3. Known' = Known /\ Row' = Row
  BY DEF Known, Row
<1>4. TablesOK' /\ Ids'
  BY <1>3 DEF TypeInv, TypeOK, TablesOK, Ids
<1> QED BY <1>1, <1>2, <1>4 DEF TypeInv, TypeOK

\* The connection a statement runs on.
LEMMA RunsOn ==
  ASSUME TypeInv, NEW p \in Processes, conn[p] # "none"
  PROVE  conn[p] \in {"on", "off"}
BY DEF TypeInv, TypeOK, PoolOK

\* Who runs statements of which kind.
LEMMA Runners ==
  ASSUME TypeInv, NEW p \in Processes
  PROVE  /\ pc[p] \notin {"pragma", "sweep", "waiting"} => p # Purger /\ p \in Requests
         /\ p # Purger /\ pc[p] \in Busy =>
              user[p] \in Users /\ (pc[p] # "create" => sess[p] \in Known)
         /\ p = Purger => kind[p] \in {"startup", "purge"}
         /\ p # Purger => pc[p] \notin {"sweep", "waiting"}
         /\ p # Purger /\ pc[p] = "pragma" => kind[p] = "delete"
BY ProcessAssumption DEF Processes, TypeInv, Places, Asked

\* A new row refers to a session that has an id.
LEMMA NewRowOK ==
  ASSUME TypeInv, NEW p \in Requests, sess[p] \in Known, user[p] \in Users,
         NEW what \in Messages \cup {"audit", "rate"}
  PROVE  NewRow(p, what) \in Row
BY DEF NewRow, Row

-----------------------------------------------------------------------------
(* Types *)

LEMMA InitTypes == Init => TypeInv
<1> SUFFICES ASSUME Init PROVE TypeInv
  OBVIOUS
<1>1. Known = 1..Stored /\ Stored \in Nat /\ MaxFaults \in Nat /\ MaxIdle \in Nat
  BY SessionBounds DEF Init, Known
<1>2. PoolOK
  <2>1. <<"on">> \in Seq({"on", "off"}) /\ Len(<<"on">>) = 1
    OBVIOUS
  <2>2. free \in Seq({"on", "off"}) /\ Len(free) = 1
    BY <2>1 DEF Init
  <2>3. conn \in [Processes -> {"on", "off", "none"}] /\ shared \in BOOLEAN
    BY DEF Init
  <2> QED BY <1>1, <2>2, <2>3, SessionBounds DEF PoolOK
<1>3. TablesOK
  <2>1. rows \subseteq Row
    BY <1>1 DEF Init, Row, Messages, Known
  <2> QED BY <1>1, <2>1 DEF Init, TablesOK, Known
<1>4. ProcessesOK
  BY <1>1, ProcessAssumption
     DEF Init, ProcessesOK, Processes, Statements, Acting, Kinds, AuditPlaces, Touches
<1>5. Places /\ Asked
  BY ProcessAssumption
     DEF Init, Places, Asked, Busy, Processes, Statements, AuditPlaces, Touches
<1> QED BY <1>1, <1>2, <1>3, <1>4, <1>5 DEF TypeInv, TypeOK, Ids

\* A request that begins.
LEMMA BeginTypes ==
  ASSUME TypeInv, NEW p \in Processes, Begin(p)
  PROVE  TypeInv'
<1>1. UNCHANGED <<poolVars, tableVars, faultVars>> /\ p # Purger /\ p \in Requests
  BY DEF Begin, Processes
<1>2. PoolOK' /\ TablesOK' /\ Ids' /\ Known' = Known
  BY <1>1 DEF TypeInv, TypeOK, PoolOK, TablesOK, Ids, Known, Row, poolVars, tableVars
<1>3. PICK k \in Kinds, u \in Users, s \in Known \cup {0} :
        /\ s = 0 => k = "chat"
        /\ kind' = [kind EXCEPT ![p] = k]
        /\ user' = [user EXCEPT ![p] = u]
        /\ sess' = [sess EXCEPT ![p] = s]
        /\ pc' = [pc EXCEPT ![p] = IF s = 0 THEN "create" ELSE "get"]
  BY DEF Begin
<1>4. /\ pc'[p] \in {"create", "get"} /\ user'[p] = u /\ sess'[p] = s
      /\ pc'[p] # "create" => s \in Known
  BY <1>3 DEF TypeInv, TypeOK, ProcessesOK
<1>5. \A q \in Processes \ {p} : /\ pc'[q] = pc[q] /\ kind'[q] = kind[q]
                                 /\ user'[q] = user[q] /\ sess'[q] = sess[q]
  BY <1>3 DEF TypeInv, TypeOK, ProcessesOK
<1>6. Places'
  BY <1>1, <1>4, <1>5, ProcessAssumption DEF TypeInv, Places, Processes
<1>7. Asked'
  BY <1>1, <1>2, <1>3, <1>4, <1>5, ProcessAssumption DEF TypeInv, Asked, Processes
<1>8. ProcessesOK'
  <2>1. /\ pc' \in [Processes -> Statements \cup {"idle", "think", "over", "waiting"}]
        /\ kind' \in [Processes -> Kinds \cup {"none", "startup", "purge"}]
        /\ user' \in [Processes -> Users \cup {None}]
        /\ sess' \in [Processes -> Known \cup {0}]
    BY <1>3 DEF TypeInv, TypeOK, ProcessesOK, Statements
  <2> QED BY <1>1, <1>2, <1>7, <2>1
          DEF TypeInv, TypeOK, ProcessesOK, Asked, Acting, Busy, faultVars
<1> QED BY <1>2, <1>6, <1>7, <1>8 DEF TypeInv, TypeOK

\* A request that takes a connection.
LEMMA AcquireTypes ==
  ASSUME TypeInv, NEW p \in Processes, Acquire(p)
  PROVE  TypeInv'
<1>1. PoolOK'
  BY AcquireKeepsPool DEF TypeInv, TypeOK
<1>2. UNCHANGED <<tableVars, pc, requestVars, faultVars>>
  BY DEF Acquire
<1>3. TablesOK' /\ Ids'
  BY <1>2 DEF TypeInv, TypeOK, TablesOK, Ids, Known, Row, tableVars
<1>4. ProcessesOK' /\ Places' /\ Asked'
  BY <1>2, StayKeepsProcesses DEF tableVars
<1> QED BY <1>1, <1>3, <1>4 DEF TypeInv, TypeOK

\* The next id is new.
LEMMA NewIDIsNew ==
  ASSUME Ids
  PROVE  /\ NewID \in Nat \ {0} /\ NewID \notin Known
         /\ \E n \in Nat : Known \cup {NewID} = 1..n
<1>1. PICK n \in Nat : Known = 1..n
  BY DEF Ids
<1>2. Cardinality(1..n) = n
  BY <1>1, FS_Interval
<1>3. NewID = n + 1 /\ Known \cup {NewID} = 1..(n + 1)
  BY <1>1, <1>2 DEF NewID
<1> QED BY <1>1, <1>3
\* Statements that read, and the updates of sessions.
LEMMA ReadTypes ==
  ASSUME TypeInv, NEW p \in Processes,
         GetForChat(p) \/ GetForOther(p) \/ Load(p) \/ Read(p) \/ Meta(p) \/ Touch(p)
  PROVE  TypeInv'
<1>1. conn[p] \in {"on", "off"}
  BY RunsOn DEF GetForChat, GetForOther, Load, Read, Meta, Touch, Runs
<1>2. UNCHANGED <<live, owner, rows, faultVars>> /\ fresh' \subseteq Known
  BY DEF GetForChat, GetForOther, Load, Read, Meta, Touch, tableVars, TypeInv, TypeOK,
         TablesOK, Update
<1>3. /\ untouched' \subseteq Requests /\ faults' \in 0..MaxFaults
      /\ live' \subseteq Known /\ rows' \subseteq Row
  BY <1>2 DEF TypeInv, TypeOK, TablesOK, ProcessesOK, faultVars
<1>4. pc[p] \in {"get", "load", "read", "meta"} \cup Touches
  BY DEF GetForChat, GetForOther, Load, Read, Meta, Touch, Runs
<1>5. p \in Requests /\ p # Purger /\ user[p] \in Users /\ sess[p] \in Known
  BY <1>4, Runners DEF Busy, Statements, Touches
<1>6. \E next : Step(p, next) /\ Leads(p, next)
  <2>1. CASE GetForChat(p)
    <3>1. PICK next \in {"meta", "load", "over", "create"} : Step(p, next)
      BY <2>1 DEF GetForChat
    <3> QED BY <1>5, <3>1 DEF Leads, Busy, Statements
  <2>2. CASE GetForOther(p)
    <3>1. \/ Step(p, "pragma") /\ kind[p] = "delete"
          \/ Step(p, "read") \/ Step(p, "rate") \/ Step(p, "over")
      BY <2>2 DEF GetForOther, First
    <3> QED BY <1>5, <3>1 DEF Leads, Busy, Statements
  <2>3. CASE Load(p)
    BY <1>5, <2>3 DEF Load, Leads, Busy, Statements, AuditPlaces
  <2>4. CASE Read(p)
    BY <1>5, <2>4 DEF Read, Leads
  <2>5. CASE Meta(p)
    BY <1>5, <2>5 DEF Meta, Leads, Busy, Statements
  <2>6. CASE Touch(p)
    <3>1. TouchNext[pc[p]] \in AuditPlaces /\ Step(p, TouchNext[pc[p]])
      BY <2>6 DEF Touch, Touches, TouchNext, AuditPlaces
    <3> QED BY <1>5, <3>1 DEF Leads, Busy, Statements, AuditPlaces
  <2> QED BY <2>1, <2>2, <2>3, <2>4, <2>5, <2>6
<1> QED BY <1>1, <1>2, <1>3, <1>6, StatementKeepsTypes DEF Step, Release

\* Statements that add a row.
LEMMA AddTypes ==
  ASSUME TypeInv, NEW p \in Processes, Insert(p) \/ Audit(p) \/ Rate(p)
  PROVE  TypeInv'
<1>1. conn[p] \in {"on", "off"}
  BY RunsOn DEF Insert, Audit, Rate, Runs
<1>2. UNCHANGED <<live, owner, fresh, faultVars>>
  BY DEF Insert, Audit, Rate
<1>3. pc[p] \in {"ask", "reply", "rate"} \cup AuditPlaces
  BY DEF Insert, Audit, Rate, Runs, AddMessageNext
<1>4. p \in Requests /\ p # Purger /\ user[p] \in Users /\ sess[p] \in Known
  BY <1>3, Runners DEF Busy, Statements, AuditPlaces
<1>5. /\ untouched' \subseteq Requests /\ faults' \in 0..MaxFaults
      /\ live' \subseteq Known /\ fresh' \subseteq Known
  BY <1>2 DEF TypeInv, TypeOK, TablesOK, ProcessesOK, faultVars
<1>6. /\ \E next : Step(p, next) /\ Leads(p, next)
      /\ rows' \subseteq Row
  <2>1. rows \subseteq Row
    BY DEF TypeInv, TypeOK, TablesOK
  <2>2. CASE Insert(p)
    <3>1. pc[p] \in {"ask", "reply"}
      BY <2>2 DEF Insert, AddMessageNext
    <3>2. \E next \in Touches \cup AuditPlaces : Step(p, next)
      BY <2>2, <3>1 DEF Insert, AddMessageNext, Touches, AuditPlaces
    <3>3. rows' \subseteq rows \cup {NewRow(p, pc[p])} /\ NewRow(p, pc[p]) \in Row
      BY <1>4, <2>2, <3>1, NewRowOK DEF Insert, Messages
    <3> QED BY <1>4, <2>1, <3>2, <3>3 DEF Leads, Busy, Statements, AuditPlaces, Touches
  <2>3. CASE Audit(p)
    <3>1. AuditNext(p) \in {"ask", "think", "over"} /\ Step(p, AuditNext(p))
      BY <2>3 DEF Audit, AuditNext
    <3>2. rows' \subseteq rows \cup {NewRow(p, "audit")} /\ NewRow(p, "audit") \in Row
      BY <1>4, <2>3, NewRowOK DEF Audit
    <3> QED BY <1>4, <2>1, <3>1, <3>2 DEF Leads, Busy, Statements
  <2>4. CASE Rate(p)
    <3>1. \E next \in {"rateAudit", "over"} : Step(p, next)
      BY <2>4 DEF Rate
    <3>2. rows' \subseteq rows \cup {NewRow(p, "rate")} /\ NewRow(p, "rate") \in Row
      BY <1>4, <2>4, NewRowOK DEF Rate
    <3> QED BY <1>4, <2>1, <3>1, <3>2 DEF Leads, Busy, Statements, AuditPlaces
  <2> QED BY <2>2, <2>3, <2>4
<1> QED BY <1>1, <1>2, <1>5, <1>6, StatementKeepsTypes DEF Step, Release

\* Statements that delete, and the setting before them.
LEMMA DeleteTypes ==
  ASSUME TypeInv, NEW p \in Processes, Pragma(p) \/ Drop(p) \/ Sweep(p)
  PROVE  TypeInv'
<1>1. conn[p] \in {"on", "off"}
  BY RunsOn DEF Pragma, Drop, Sweep, Runs
<1>2. /\ UNCHANGED <<owner, fresh, faultVars>> /\ live' \subseteq live
      /\ rows' \subseteq rows
  BY DEF Pragma, Drop, Sweep, Delete, tableVars
<1>3. /\ untouched' \subseteq Requests /\ faults' \in 0..MaxFaults
      /\ live' \subseteq Known /\ fresh' \subseteq Known /\ rows' \subseteq Row
  BY <1>2 DEF TypeInv, TypeOK, TablesOK, ProcessesOK, faultVars
<1>4. CASE Pragma(p)
  <2>1. Goto(p, PragmaNext[kind[p]]) /\ ReleaseAs(p, "on") /\ pc[p] = "pragma"
    BY <1>4 DEF Pragma, Runs
  <2>2. CASE p = Purger
    <3>1. PragmaNext[kind[p]] = "sweep"
      BY <2>2, Runners DEF PragmaNext
    <3> QED BY <1>2, <1>3, <2>1, <2>2, <3>1, StatementKeepsTypes DEF Leads
  <2>3. CASE p # Purger
    <3>1. kind[p] = "delete" /\ user[p] \in Users /\ sess[p] \in Known
      BY <2>1, <2>3, Runners DEF Busy, Statements
    <3>2. PragmaNext[kind[p]] = "drop"
      BY <3>1 DEF PragmaNext
    <3>3. Leads(p, "drop")
      BY <2>3, <3>1 DEF Leads, Busy, Statements
    <3> QED BY <1>2, <1>3, <2>1, <3>2, <3>3, StatementKeepsTypes
  <2> QED BY <2>2, <2>3
<1>5. CASE Drop(p)
  <2>1. Leads(p, "over") /\ Step(p, "over")
    BY <1>5, Runners DEF Drop, Runs, Leads
  <2> QED BY <1>1, <1>2, <1>3, <2>1, StatementKeepsTypes DEF Step, Release
<1>6. CASE Sweep(p)
  <2>1. Leads(p, "waiting") /\ Step(p, "waiting")
    BY <1>6, Runners DEF Sweep, Runs, Leads
  <2> QED BY <1>1, <1>2, <1>3, <2>1, StatementKeepsTypes DEF Step, Release
<1> QED BY <1>4, <1>5, <1>6
\* A session that is created.
LEMMA CreateTypes ==
  ASSUME TypeInv, NEW p \in Processes, Create(p)
  PROVE  TypeInv'
<1>1. pc[p] = "create" /\ conn[p] \in {"on", "off"}
  BY RunsOn DEF Create, Runs
<1>2. p \in Requests /\ p # Purger /\ user[p] \in Users
  BY <1>1, Runners DEF Busy, Statements
<1>3. /\ NewID \in Nat \ {0} /\ NewID \notin Known
      /\ \E n \in Nat : Known \cup {NewID} = 1..n
  BY NewIDIsNew DEF TypeInv
<1>4. owner' = [s \in Known \cup {NewID} |-> IF s = NewID THEN user[p] ELSE owner[s]]
  BY DEF Create
<1>5. Known' = Known \cup {NewID} /\ \A s \in Known : owner'[s] = owner[s]
  BY <1>3, <1>4 DEF Known
<1>6. PoolOK'
  BY <1>1, ReleaseKeepsPool DEF Create, Release, TypeInv, TypeOK
<1>7. Ids'
  BY <1>3, <1>5 DEF Ids
<1>8. TablesOK'
  <2>1. owner' \in [Known' -> Users]
    BY <1>2, <1>4, <1>5 DEF TypeInv, TypeOK, TablesOK
  <2>2. Row \subseteq Row'
    BY <1>5 DEF Row
  <2>3. live' \subseteq Known' /\ fresh' \subseteq Known' /\ rows' = rows
    BY <1>5 DEF Create, TypeInv, TypeOK, TablesOK
  <2> QED BY <1>3, <1>5, <2>1, <2>2, <2>3 DEF TypeInv, TypeOK, TablesOK
<1>9. /\ pc' = [pc EXCEPT ![p] = "prompt"] /\ sess' = [sess EXCEPT ![p] = NewID]
      /\ kind' = kind /\ user' = user
  BY DEF Create
<1>10. untouched' \subseteq Requests /\ faults' \in 0..MaxFaults
  BY SessionBounds DEF Create, Fault, faultVars, TypeInv, TypeOK, ProcessesOK
<1>11. Places'
  BY <1>2, <1>9, ProcessAssumption DEF TypeInv, TypeOK, ProcessesOK, Places, Processes
<1>12. Asked'
  BY <1>2, <1>5, <1>9, ProcessAssumption
     DEF TypeInv, TypeOK, ProcessesOK, Asked, Processes, Busy
<1>13. ProcessesOK'
  <2>1. /\ pc' \in [Processes -> Statements \cup {"idle", "think", "over", "waiting"}]
        /\ kind' \in [Processes -> Kinds \cup {"none", "startup", "purge"}]
        /\ user' \in [Processes -> Users \cup {None}]
        /\ sess' \in [Processes -> Known' \cup {0}]
    BY <1>5, <1>9 DEF TypeInv, TypeOK, ProcessesOK, Statements, AuditPlaces
  <2> QED BY <1>10, <1>12, <2>1 DEF ProcessesOK, Asked, Acting, Busy
<1> QED BY <1>6, <1>7, <1>8, <1>11, <1>12, <1>13 DEF TypeInv, TypeOK

\* Steps without a statement.
LEMMA GotoTypes ==
  ASSUME TypeInv, NEW p \in Processes, Think(p) \/ (p = Purger /\ PurgeAgain)
  PROVE  TypeInv'
<1>1. UNCHANGED <<poolVars, tableVars, faultVars>>
  BY DEF Think, PurgeAgain
<1>2. PoolOK' /\ TablesOK' /\ Ids'
  BY <1>1 DEF TypeInv, TypeOK, PoolOK, TablesOK, Ids, Known, Row, poolVars, tableVars
<1>3. untouched' \subseteq Requests /\ faults' \in 0..MaxFaults /\ owner' = owner
  BY <1>1 DEF TypeInv, TypeOK, ProcessesOK, faultVars, tableVars
<1>4. \E next : Goto(p, next) /\ Leads(p, next)
  <2>1. CASE Think(p)
    <3>1. PICK next \in {"scratchpad", "toolAudit", "reply", "over"} : Goto(p, next)
      BY <2>1 DEF Think
    <3>2. p # Purger /\ user[p] \in Users /\ sess[p] \in Known
      BY <2>1, Runners DEF Think, Busy
    <3> QED BY <3>1, <3>2 DEF Leads, Busy, Statements, AuditPlaces, Touches
  <2>2. CASE p = Purger /\ PurgeAgain
    BY <2>2 DEF PurgeAgain, Leads
  <2> QED BY <2>1, <2>2
<1>5. ProcessesOK' /\ Places' /\ Asked'
  BY <1>3, <1>4, GotoKeepsProcesses
<1> QED BY <1>2, <1>5 DEF TypeInv, TypeOK

\* A statement that fails.
LEMMA FailsTypes ==
  ASSUME TypeInv, NEW p \in Processes, Fails(p)
  PROVE  TypeInv'
<1>1. conn[p] \in {"on", "off"} /\ pc[p] \in Statements \ {"create", "load", "read"}
  BY RunsOn DEF Fails, Runs
<1>2. UNCHANGED tableVars /\ Step(p, ErrorNext(p))
  BY DEF Fails
<1>3. live' \subseteq Known /\ fresh' \subseteq Known /\ rows' \subseteq Row /\ owner' = owner
  BY <1>2 DEF TypeInv, TypeOK, TablesOK, tableVars
<1>4. untouched' \subseteq Requests /\ faults' \in 0..MaxFaults
  <2>1. faults' \in 0..MaxFaults
    BY SessionBounds DEF Fails, Fault, TypeInv, TypeOK, ProcessesOK
  <2>2. pc[p] \in Touches => p \in Requests
    BY Runners DEF Touches
  <2> QED BY <2>1, <2>2 DEF Fails, TypeInv, TypeOK, ProcessesOK
<1>5. Leads(p, ErrorNext(p))
  <2>1. CASE p = Purger
    <3>1. pc[p] \in {"pragma", "sweep"} /\ kind[p] \in {"startup", "purge"}
      BY <1>1, <2>1 DEF TypeInv, Places, Statements, AuditPlaces, Touches
    <3>2. ErrorNext(p) \in {"sweep", "waiting"}
      BY <3>1 DEF ErrorNext, PragmaNext, AddMessageNext, Touches, AuditPlaces
    <3> QED BY <2>1, <3>2 DEF Leads
  <2>2. CASE p # Purger
    <3>1. /\ user[p] \in Users /\ sess[p] \in Known /\ pc[p] # "sweep"
          /\ pc[p] = "pragma" => kind[p] = "delete"
      BY <1>1, <2>2, Runners DEF Busy
    <3>2. ErrorNext(p) \in {"create", "load", "over", "drop", "think", "ask"} \cup AuditPlaces
      <4>1. CASE pc[p] \in {"ask", "reply"}
        <5>1. pc[p] \in DOMAIN AddMessageNext
              /\ AddMessageNext[pc[p]][2] \in {"askAudit", "replyAudit"}
          BY <4>1 DEF AddMessageNext
        <5>2. ErrorNext(p) = AddMessageNext[pc[p]][2]
          BY <4>1, <5>1 DEF ErrorNext, Touches, AuditPlaces
        <5> QED BY <5>1, <5>2 DEF AuditPlaces
      <4>2. CASE pc[p] \in Touches
        BY <4>2 DEF ErrorNext, AddMessageNext, AuditPlaces, Touches, TouchNext
      <4>3. CASE pc[p] \in AuditPlaces
        BY <4>3 DEF ErrorNext, AddMessageNext, AuditPlaces, Touches, AuditNext
      <4>4. CASE pc[p] = "pragma"
        BY <3>1, <4>4 DEF ErrorNext, AddMessageNext, AuditPlaces, Touches, PragmaNext
      <4>5. CASE pc[p] \in {"get", "meta", "drop", "rate"}
        BY <4>5 DEF ErrorNext, AddMessageNext, AuditPlaces, Touches
      <4> QED BY <1>1, <3>1, <4>1, <4>2, <4>3, <4>4, <4>5 DEF Statements
    <3> QED BY <2>2, <3>1, <3>2 DEF Leads, Busy, Statements, AuditPlaces
  <2> QED BY <2>1, <2>2
<1> QED BY <1>1, <1>2, <1>3, <1>4, <1>5, StatementKeepsTypes DEF Step, Release

\* A restart.
LEMMA CrashTypes ==
  ASSUME TypeInv, Crash
  PROVE  TypeInv'
<1>1. UNCHANGED <<shared, tableVars>> /\ Known' = Known
  BY DEF Crash, Known, tableVars
<1>2. TablesOK' /\ Ids'
  BY <1>1 DEF TypeInv, TypeOK, TablesOK, Ids, Known, Row, tableVars
<1>3. PoolOK'
  <2>1. <<"on">> \in Seq({"on", "off"}) /\ Len(<<"on">>) = 1
    OBVIOUS
  <2>2. free' \in Seq({"on", "off"}) /\ Len(free') = 1
    BY <2>1 DEF Crash
  <2>3. conn' \in [Processes -> {"on", "off", "none"}] /\ shared' \in BOOLEAN
    BY <1>1 DEF Crash, TypeInv, TypeOK, PoolOK
  <2> QED BY <2>2, <2>3, SessionBounds DEF PoolOK
<1>4. Purger \in Processes /\ Purger \notin Requests /\ Requests \subseteq Processes
  BY ProcessAssumption DEF Processes
<1>5. /\ pc'[Purger] = "pragma" /\ kind'[Purger] = "startup"
      /\ \A p \in Requests : pc'[p] \in {"idle", "over"}
  BY <1>4 DEF Crash, TypeInv, TypeOK, ProcessesOK
<1>6. Places' /\ Asked'
  BY <1>5 DEF Places, Asked, Busy, Statements, AuditPlaces, Touches
<1>7. ProcessesOK'
  <2>1. /\ pc' \in [Processes -> Statements \cup {"idle", "think", "over", "waiting"}]
        /\ kind' \in [Processes -> Kinds \cup {"none", "startup", "purge"}]
        /\ user' \in [Processes -> Users \cup {None}]
        /\ sess' \in [Processes -> Known' \cup {0}]
    BY DEF Crash, TypeInv, TypeOK, ProcessesOK, Statements
  <2>2. untouched' \subseteq Requests /\ faults' \in 0..MaxFaults
    BY SessionBounds DEF Crash, Fault, TypeInv, TypeOK, ProcessesOK
  <2> QED BY <1>6, <2>1, <2>2 DEF ProcessesOK, Asked, Acting, Busy
<1> QED BY <1>2, <1>3, <1>6, <1>7 DEF TypeInv, TypeOK

\* Every step keeps the types.
LEMMA NextTypes == TypeInv /\ [Next]_vars => TypeInv'
<1> SUFFICES ASSUME TypeInv, [Next]_vars PROVE TypeInv'
  OBVIOUS
<1>1. CASE \E p \in Processes : Process(p)
  <2>1. PICK p \in Processes : Process(p)
    BY <1>1
  <2> QED BY <2>1, BeginTypes, AcquireTypes, ReadTypes, AddTypes, DeleteTypes,
             CreateTypes, GotoTypes, FailsTypes DEF Process
<1>2. CASE PurgeAgain
  BY <1>2, GotoTypes DEF Processes
<1>3. CASE Crash
  BY <1>3, CrashTypes
<1>4. CASE UNCHANGED vars
  <2>1. UNCHANGED <<poolVars, tableVars, pc, requestVars, faultVars>>
    BY <1>4 DEF vars
  <2>2. PoolOK' /\ TablesOK' /\ Ids'
    BY <2>1 DEF TypeInv, TypeOK, PoolOK, TablesOK, Ids, Known, Row, poolVars, tableVars
  <2>3. ProcessesOK' /\ Places' /\ Asked'
    BY <2>1, StayKeepsProcesses DEF tableVars
  <2> QED BY <2>2, <2>3 DEF TypeInv, TypeOK
<1> QED BY <1>1, <1>2, <1>3, <1>4 DEF Next

\* The invariant the other theorems rest on.
THEOREM TypesHold == Spec => []TypeInv
BY InitTypes, NextTypes, PTL DEF Spec

\* Every variable stays in its range.
THEOREM TypeCorrect == Spec => []TypeOK
<1>1. TypeInv => TypeOK
  BY DEF TypeInv
<1> QED BY <1>1, TypesHold, PTL

-----------------------------------------------------------------------------
(* Ownership *)

\* An id keeps its owner.
LEMMA OwnersStay ==
  ASSUME TypeInv, [Next]_vars, NEW s \in Known
  PROVE  s \in Known' /\ owner'[s] = owner[s]
<1>1. CASE \E p \in Processes : Create(p)
  <2>1. NewID \notin Known
    BY NewIDIsNew DEF TypeInv
  <2> QED BY <1>1, <2>1 DEF Create, Known
<1>2. CASE owner' = owner
  BY <1>2 DEF Known
<1>3. CASE \E p \in Processes : Process(p) /\ ~Create(p)
  <2>1. owner' = owner
    BY <1>3 DEF Process, Begin, Acquire, GetForChat, GetForOther, Load, Read, Meta,
                Insert, Touch, Audit, Rate, Think, Pragma, Drop, Sweep, Delete, Fails, tableVars
  <2> QED BY <1>2, <2>1
<1>4. CASE PurgeAgain \/ Crash \/ UNCHANGED vars
  <2>1. owner' = owner
    BY <1>4 DEF PurgeAgain, Crash, vars, tableVars
  <2> QED BY <1>2, <2>1
<1> QED BY <1>1, <1>3, <1>4 DEF Next

\* Only Insert, Audit and Rate store rows, each a row of its process.
LEMMA RowsGrow ==
  ASSUME TypeInv, [Next]_vars, NEW r \in rows', r \notin rows
  PROVE  \E p \in Requests, what \in Messages \cup {"audit", "rate"} :
           /\ r = NewRow(p, what) /\ pc[p] \in Acting \ {"think"}
           /\ Insert(p) \/ Audit(p) \/ Rate(p)
<1>1. PICK p \in Processes : Insert(p) \/ Audit(p) \/ Rate(p)
  BY DEF Next, Process, Begin, Acquire, GetForChat, GetForOther, Load, Read, Create, Meta,
         Touch, Think, Pragma, Drop, Sweep, Delete, Fails, PurgeAgain, Crash, vars, tableVars
<1>2. pc[p] \in {"ask", "reply", "rate"} \cup AuditPlaces
  BY <1>1 DEF Insert, Audit, Rate, Runs, AddMessageNext
<1>3. p \in Requests
  BY <1>2, Runners DEF AuditPlaces
<1>4. \E what \in Messages \cup {"audit", "rate"} : r = NewRow(p, what)
  BY <1>1 DEF Insert, Audit, Rate, AddMessageNext, Messages
<1>5. pc[p] \in Acting \ {"think"}
  BY <1>2 DEF Acting, Statements, AuditPlaces
<1> QED BY <1>1, <1>3, <1>4, <1>5

\* A request acts on its own session or on none.
LEMMA ActorsStay ==
  ASSUME TypeInv, OwnSessionsOnly, [Next]_vars, NEW p \in Requests, pc'[p] \in Acting
  PROVE  user'[p] = owner'[sess'[p]]
<1>1. p \in Processes /\ p # Purger
  BY ProcessAssumption DEF Processes
<1>2. CASE pc[p] \in Acting /\ sess'[p] = sess[p] /\ user'[p] = user[p]
  BY <1>2, OwnersStay DEF OwnSessionsOnly, TypeInv, TypeOK, ProcessesOK
<1>3. CASE UNCHANGED <<pc, sess, user>>
  BY <1>2, <1>3
<1>4. CASE \E q \in Processes : Process(q)
  <2>1. PICK q \in Processes : Process(q)
    BY <1>4
  <2>2. CASE q # p
    <3>1. pc'[p] = pc[p] /\ sess'[p] = sess[p] /\ user'[p] = user[p]
      BY <1>1, <2>1, <2>2
         DEF Process, Begin, Acquire, GetForChat, GetForOther, Load, Read, Create, Meta,
             Insert, Touch, Audit, Rate, Think, Pragma, Drop, Sweep, Fails, Step, Goto,
             TypeInv, TypeOK, ProcessesOK, requestVars
    <3> QED BY <1>2, <3>1
  <2>3. CASE q = p /\ pc[p] \in Acting
    <3>1. UNCHANGED <<pc, sess, user>> \/ \E next : Goto(p, next)
      <4>1. ~Begin(p) /\ ~Create(p)
        BY <2>3 DEF Begin, Create, Runs, Acting, Statements, AuditPlaces, Touches
      <4> QED BY <2>1, <2>3, <4>1
         DEF Process, Acquire, GetForChat, GetForOther, Load, Read, Meta,
             Insert, Touch, Audit, Rate, Think, Pragma, Drop, Sweep, Fails, Step, requestVars
    <3>2. (\E next : Goto(p, next)) => sess'[p] = sess[p] /\ user'[p] = user[p]
      <4> SUFFICES ASSUME NEW next, Goto(p, next)
                   PROVE  sess'[p] = sess[p] /\ user'[p] = user[p]
        OBVIOUS
      <4>1. next # "over"
        BY <1>1 DEF Goto, TypeInv, TypeOK, ProcessesOK, Acting, Statements, AuditPlaces, Touches
      <4> QED BY <4>1 DEF Goto
    <3> QED BY <1>2, <1>3, <2>3, <3>1, <3>2
  <2>4. CASE q = p /\ pc[p] \notin Acting
    <3>1. \/ Begin(p) \/ Create(p) \/ Acquire(p)
          \/ pc[p] = "get" /\ (GetForChat(p) \/ GetForOther(p) \/ Fails(p))
      BY <2>1, <2>4
         DEF Process, Load, Read, Meta, Insert, Touch, Audit, Rate, Think, Pragma, Drop, Sweep,
             Fails, GetForChat, GetForOther, Runs, AddMessageNext, Acting, Statements,
             AuditPlaces, Touches
    <3>2. CASE Begin(p)
      <4>1. pc'[p] \in {"create", "get"}
        BY <1>1, <3>2 DEF Begin, TypeInv, TypeOK, ProcessesOK
      <4> QED BY <4>1 DEF Acting
    <3>3. CASE Acquire(p)
      BY <1>3, <3>3 DEF Acquire, requestVars
    <3>4. CASE Create(p)
      <4>1. sess'[p] = NewID /\ user'[p] = user[p]
        BY <1>1, <3>4 DEF Create, TypeInv, TypeOK, ProcessesOK
      <4>2. owner'[NewID] = user[p]
        BY <3>4 DEF Create
      <4> QED BY <4>1, <4>2
    <3>5. CASE pc[p] = "get" /\ GetForChat(p)
      <4>1. PICK next : Step(p, next) /\ (next \notin {"over", "create"} => Own(p))
        BY <3>5 DEF GetForChat
      <4>2. next \notin {"over", "create"}
        BY <1>1, <4>1 DEF Step, Goto, TypeInv, TypeOK, ProcessesOK, Acting, Statements,
                         AuditPlaces, Touches
      <4>3. owner' = owner
        BY <3>5 DEF GetForChat, tableVars
      <4> QED BY <4>1, <4>2, <4>3 DEF Step, Goto, Own
    <3>6. CASE pc[p] = "get" /\ GetForOther(p)
      <4>1. PICK next : Step(p, next) /\ (next # "over" => Own(p))
        BY <3>6 DEF GetForOther
      <4>2. next # "over"
        BY <1>1, <4>1 DEF Step, Goto, TypeInv, TypeOK, ProcessesOK, Acting, Statements,
                         AuditPlaces, Touches
      <4>3. owner' = owner
        BY <3>6 DEF GetForOther, tableVars
      <4> QED BY <4>1, <4>2, <4>3 DEF Step, Goto, Own
    <3>7. CASE pc[p] = "get" /\ Fails(p)
      <4>1. ErrorNext(p) \in {"create", "over"}
        BY <3>7 DEF ErrorNext, AddMessageNext, Touches, AuditPlaces
      <4>2. pc'[p] = ErrorNext(p)
        BY <1>1, <3>7 DEF Fails, Step, Goto, TypeInv, TypeOK, ProcessesOK
      <4> QED BY <4>1, <4>2 DEF Acting, Statements, AuditPlaces, Touches
    <3> QED BY <3>1, <3>2, <3>3, <3>4, <3>5, <3>6, <3>7
  <2> QED BY <2>2, <2>3, <2>4
<1>5. CASE PurgeAgain
  <2>1. pc'[p] = pc[p] /\ sess'[p] = sess[p] /\ user'[p] = user[p]
    BY <1>1, <1>5 DEF PurgeAgain, Goto, TypeInv, TypeOK, ProcessesOK
  <2> QED BY <1>2, <2>1
<1>6. CASE Crash
  <2>1. pc'[p] \in {"idle", "over"}
    BY <1>1, <1>6 DEF Crash, TypeInv, TypeOK, ProcessesOK
  <2> QED BY <2>1 DEF Acting, Statements, AuditPlaces, Touches
<1>7. CASE UNCHANGED vars
  BY <1>3, <1>7 DEF vars, requestVars
<1> QED BY <1>4, <1>5, <1>6, <1>7 DEF Next

\* Nobody stores into, reads or deletes a conversation of somebody else.
THEOREM OwnershipHolds == Spec => []OwnSessionsOnly
<1>1. Init => OwnSessionsOnly
  <2> SUFFICES ASSUME Init PROVE OwnSessionsOnly
    OBVIOUS
  <2>1. TypeInv
    BY InitTypes
  <2>2. \A r \in rows : r.by = owner[r.session]
    BY DEF Init
  <2>3. \A p \in Requests : pc[p] = "idle"
    BY ProcessAssumption DEF Init, Processes
  <2> QED BY <2>2, <2>3 DEF OwnSessionsOnly, Acting, Statements, AuditPlaces, Touches
<1>2. TypeInv /\ OwnSessionsOnly /\ [Next]_vars => OwnSessionsOnly'
  <2> SUFFICES ASSUME TypeInv, OwnSessionsOnly, [Next]_vars PROVE OwnSessionsOnly'
    OBVIOUS
  <2>1. ASSUME NEW r \in rows' PROVE r.by = owner'[r.session]
    <3>1. CASE r \in rows
      <4>1. r.session \in Known /\ r.by = owner[r.session]
        BY <3>1 DEF TypeInv, TypeOK, TablesOK, Row, OwnSessionsOnly
      <4> QED BY <4>1, OwnersStay
    <3>2. CASE r \notin rows
      <4>1. PICK p \in Requests : r.session = sess[p] /\ r.by = user[p] /\ pc[p] \in Acting
        BY <2>1, <3>2, RowsGrow DEF NewRow
      <4>2. sess[p] \in Known /\ user[p] = owner[sess[p]]
        BY <4>1 DEF OwnSessionsOnly, TypeInv, TypeOK, ProcessesOK
      <4> QED BY <4>1, <4>2, OwnersStay
    <3> QED BY <3>1, <3>2
  <2>2. ASSUME NEW p \in Requests, pc'[p] \in Acting PROVE user'[p] = owner'[sess'[p]]
    BY <2>2, ActorsStay
  <2> QED BY <2>1, <2>2 DEF OwnSessionsOnly
<1> QED BY <1>1, <1>2, TypesHold, PTL DEF Spec

-----------------------------------------------------------------------------
(* The pool and whole deletion *)

\* While one connection was enough, it is idle or one process holds it, and
\* it enforces references.
OneConnection ==
  ~shared => \/ free = <<"on">> /\ \A p \in Processes : conn[p] = "none"
             \/ /\ free = <<>>
                /\ \E p \in Processes :
                     conn[p] = "on" /\ \A q \in Processes \ {p} : conn[q] = "none"

\* Giving the only connection back, as it was or switched on.
LEMMA ReleaseKeepsOne ==
  ASSUME TypeInv, OneConnection, NEW p \in Processes, conn[p] # "none",
         NEW setting \in {"on", conn[p]}, ReleaseAs(p, setting)
  PROVE  OneConnection'
<1> SUFFICES ASSUME ~shared PROVE OneConnection'
  BY DEF OneConnection, ReleaseAs
<1>1. free = <<>> /\ conn[p] = "on" /\ \A q \in Processes \ {p} : conn[q] = "none"
  BY DEF OneConnection
<1>2. free' = <<"on">>
  BY <1>1, SessionBounds DEF ReleaseAs
<1>3. \A q \in Processes : conn'[q] = "none"
  BY <1>1 DEF ReleaseAs, TypeInv, TypeOK, PoolOK
<1> QED BY <1>2, <1>3 DEF OneConnection

LEMMA AcquireKeepsOne ==
  ASSUME TypeInv, OneConnection, NEW p \in Processes, Acquire(p)
  PROVE  OneConnection'
<1> SUFFICES ASSUME ~shared' PROVE OneConnection'
  BY DEF OneConnection
<1>1. ~shared
  BY DEF Acquire
<1>2. free # <<>>
  <2>1. SUFFICES ASSUME free = <<>> PROVE FALSE
    OBVIOUS
  <2>2. Holders # {}
    BY <1>1, <2>1 DEF OneConnection, Holders
  <2> QED BY <2>1, <2>2 DEF Acquire
<1>3. free = <<"on">> /\ \A q \in Processes : conn[q] = "none"
  BY <1>1, <1>2 DEF OneConnection
<1>4. Len(free) = 1 /\ free[Len(free)] = "on"
  BY <1>3
<1>5. free' = SubSeq(free, 1, 0) /\ conn' = [conn EXCEPT ![p] = "on"]
  BY <1>2, <1>4 DEF Acquire
<1>6. free' = <<>>
  BY <1>5, SubSeqEmpty
<1>7. conn'[p] = "on" /\ \A q \in Processes \ {p} : conn'[q] = "none"
  BY <1>3, <1>5 DEF TypeInv, TypeOK, PoolOK
<1> QED BY <1>6, <1>7 DEF OneConnection

LEMMA NextKeepsOne == TypeInv /\ OneConnection /\ [Next]_vars => OneConnection'
<1> SUFFICES ASSUME TypeInv, OneConnection, [Next]_vars PROVE OneConnection'
  OBVIOUS
<1>1. CASE UNCHANGED poolVars
  BY <1>1 DEF OneConnection, poolVars
<1>2. CASE \E p \in Processes : Process(p)
  <2>1. PICK p \in Processes : Process(p)
    BY <1>2
  <2>2. \/ UNCHANGED poolVars \/ Acquire(p)
        \/ conn[p] # "none" /\ \E setting \in {"on", conn[p]} : ReleaseAs(p, setting)
    BY <2>1 DEF Process, Begin, GetForChat, GetForOther, Load, Read, Create, Meta, Insert,
                Touch, Audit, Rate, Think, Pragma, Drop, Sweep, Fails, Runs, Step, Release
  <2> QED BY <1>1, <2>2, AcquireKeepsOne, ReleaseKeepsOne
<1>3. CASE PurgeAgain \/ UNCHANGED vars
  BY <1>1, <1>3 DEF PurgeAgain, vars
<1>4. CASE Crash
  BY <1>4 DEF Crash, OneConnection
<1> QED BY <1>2, <1>3, <1>4 DEF Next

\* Without a second connection no statement runs unenforced.
LEMMA RunsEnforced ==
  ASSUME TypeInv, OneConnection, ~shared, NEW p \in Processes, conn[p] # "none"
  PROVE  conn[p] = "on"
BY DEF OneConnection

\* As long as one connection was enough, deletion leaves nothing behind.
THEOREM WholeDeletion == Spec => []OneConnectionNoOrphans
<1> DEFINE Inv == OneConnection /\ OneConnectionNoOrphans
<1>1. Init => Inv
  BY DEF Init, OneConnection, OneConnectionNoOrphans, NoOrphans
<1>2. TypeInv /\ Inv /\ [Next]_vars => Inv'
  <2> SUFFICES ASSUME TypeInv, OneConnection, OneConnectionNoOrphans, [Next]_vars, ~shared'
               PROVE  NoOrphans'
    BY NextKeepsOne DEF OneConnectionNoOrphans
  <2>1. ~shared
    BY DEF Next, Process, Begin, Acquire, GetForChat, GetForOther, Load, Read, Create, Meta,
           Insert, Touch, Audit, Rate, Think, Pragma, Drop, Sweep, Fails, PurgeAgain, Crash,
           Step, Release, ReleaseAs, poolVars, vars
  <2>2. NoOrphans
    BY <2>1 DEF OneConnectionNoOrphans
  <2>3. CASE \E p \in Processes : Drop(p) \/ Sweep(p)
    <3>1. PICK p \in Processes : Drop(p) \/ Sweep(p)
      BY <2>3
    <3>2. conn[p] = "on"
      BY <2>1, <3>1, RunsEnforced DEF Drop, Sweep, Runs
    <3>3. PICK S : Delete(p, S)
      BY <3>1 DEF Drop, Sweep
    <3> QED BY <2>2, <3>2, <3>3 DEF Delete, NoOrphans
  <2>4. CASE rows' \subseteq rows /\ live \subseteq live'
    BY <2>2, <2>4 DEF NoOrphans
  <2>5. CASE \E p \in Processes : Insert(p) \/ Audit(p) \/ Rate(p)
    <3>1. PICK p \in Processes : Insert(p) \/ Audit(p) \/ Rate(p)
      BY <2>5
    <3>2. conn[p] = "on"
      BY <2>1, <3>1, RunsEnforced DEF Insert, Audit, Rate, Runs
    <3>3. live' = live
      BY <3>1 DEF Insert, Audit, Rate
    <3>4. rows' = rows \/ \E what : rows' = rows \cup {NewRow(p, what)} /\ Exists(p)
      BY <3>1, <3>2 DEF Insert, Audit, Rate, ReferenceOK
    <3> QED BY <2>2, <3>3, <3>4 DEF NoOrphans, NewRow, Exists
  <2> QED
    BY <2>3, <2>4, <2>5
       DEF Next, Process, Begin, Acquire, GetForChat, GetForOther, Load, Read, Create, Meta,
           Touch, Think, Pragma, Fails, PurgeAgain, Crash, tableVars, vars
<1> QED BY <1>1, <1>2, TypesHold, PTL DEF Spec

-----------------------------------------------------------------------------
(* The purge *)

\* A request makes its rows after it has found its session, which it keeps.
RowsOfRequests ==
  \A r \in rows : r.of # Earlier =>
    /\ r.of \in Requests
    /\ pc[r.of] \notin {"idle", "get", "create"}
    /\ pc[r.of] # "over" => r.session = sess[r.of]

\* A message keeps its session fresh, unless its request is still about to.
MessagesFresh ==
  \A r \in rows : r.what \in Messages /\ r.of # Earlier /\ r.session \in live =>
    r.session \in fresh \/ BeingStored(r)

\* A request that has its session goes forward, with it.
LEMMA Forward ==
  ASSUME TypeInv, [Next]_vars, NEW p \in Requests, pc[p] \notin {"idle", "get", "create"}
  PROVE  /\ pc'[p] \notin {"idle", "get", "create"}
         /\ pc'[p] # "over" => pc[p] # "over" /\ sess'[p] = sess[p]
<1>1. p \in Processes /\ p # Purger
  BY ProcessAssumption DEF Processes
<1>2. CASE UNCHANGED <<pc, sess>>
  BY <1>2
<1>3. CASE \E q \in Processes : Process(q)
  <2>1. PICK q \in Processes : Process(q)
    BY <1>3
  <2>2. CASE q # p
    <3>1. pc'[p] = pc[p] /\ sess'[p] = sess[p]
      BY <1>1, <2>1, <2>2
         DEF Process, Begin, Acquire, GetForChat, GetForOther, Load, Read, Create, Meta,
             Insert, Touch, Audit, Rate, Think, Pragma, Drop, Sweep, Fails, Step, Goto,
             TypeInv, TypeOK, ProcessesOK, requestVars
    <3> QED BY <3>1
  <2>3. CASE q = p
    <3>1. pc[p] # "over" /\ ~Begin(p) /\ ~Create(p) /\ ~GetForChat(p) /\ ~GetForOther(p)
      BY <2>1, <2>3
         DEF Process, Begin, Acquire, GetForChat, GetForOther, Load, Read, Create, Meta,
             Insert, Touch, Audit, Rate, Think, Pragma, Drop, Sweep, Fails, Runs, Statements,
             AuditPlaces, Touches, AddMessageNext
    <3>2. \/ UNCHANGED <<pc, sess>>
          \/ \E next : Goto(p, next) /\ next \notin {"idle", "get", "create"}
      <4>1. CASE Acquire(p)
        BY <4>1 DEF Acquire, requestVars
      <4>2. CASE Load(p) \/ Read(p) \/ Meta(p) \/ Rate(p) \/ Think(p) \/ Drop(p) \/ Sweep(p)
        BY <4>2 DEF Load, Read, Meta, Rate, Think, Drop, Sweep, Step
      <4>3. CASE Insert(p)
        BY <4>3 DEF Insert, Step, AddMessageNext
      <4>4. CASE Touch(p)
        BY <4>4 DEF Touch, Step, Touches, TouchNext
      <4>5. CASE Audit(p)
        BY <4>5 DEF Audit, Step, AuditNext
      <4>6. CASE Pragma(p)
        <5>1. kind[p] = "delete"
          BY <1>1, <4>6, Runners DEF Pragma, Runs
        <5> QED BY <4>6, <5>1 DEF Pragma, PragmaNext
      <4>7. CASE Fails(p)
        <5>1. Goto(p, ErrorNext(p)) /\ pc[p] \in Statements
          BY <4>7 DEF Fails, Step
        <5>2. ErrorNext(p) \notin {"idle", "get", "create"}
          <6>1. CASE pc[p] \in {"ask", "reply"}
            <7>1. pc[p] \in DOMAIN AddMessageNext
                  /\ AddMessageNext[pc[p]][2] \in {"askAudit", "replyAudit"}
              BY <6>1 DEF AddMessageNext
            <7>2. ErrorNext(p) = AddMessageNext[pc[p]][2]
              BY <6>1, <7>1 DEF ErrorNext, Touches, AuditPlaces
            <7> QED BY <7>1, <7>2
          <6>2. CASE pc[p] \in Touches
            BY <6>2 DEF ErrorNext, AddMessageNext, AuditPlaces, Touches, TouchNext
          <6>3. CASE pc[p] \in AuditPlaces
            BY <6>3 DEF ErrorNext, AddMessageNext, AuditPlaces, Touches, AuditNext
          <6>4. CASE pc[p] = "pragma"
            <7>1. kind[p] = "delete"
              BY <1>1, <6>4, Runners
            <7> QED BY <6>4, <7>1 DEF ErrorNext, AddMessageNext, AuditPlaces, Touches, PragmaNext
          <6>5. CASE pc[p] \in {"meta", "drop", "rate", "load", "read", "sweep"}
            BY <6>5 DEF ErrorNext, AddMessageNext, AuditPlaces, Touches
          <6> QED BY <5>1, <6>1, <6>2, <6>3, <6>4, <6>5 DEF Statements
        <5> QED BY <5>1, <5>2
      <4> QED BY <2>1, <2>3, <3>1, <4>1, <4>2, <4>3, <4>4, <4>5, <4>6, <4>7 DEF Process
    <3>3. ASSUME NEW next, Goto(p, next), next \notin {"idle", "get", "create"}
          PROVE  pc'[p] = next /\ (next # "over" => sess'[p] = sess[p])
      BY <1>1, <3>3 DEF Goto, TypeInv, TypeOK, ProcessesOK
    <3> QED BY <3>1, <3>2, <3>3
  <2> QED BY <2>2, <2>3
<1>4. CASE PurgeAgain
  <2>1. pc'[p] = pc[p] /\ sess'[p] = sess[p]
    BY <1>1, <1>4 DEF PurgeAgain, Goto, TypeInv, TypeOK, ProcessesOK
  <2> QED BY <2>1
<1>5. CASE Crash
  <2>1. pc'[p] = "over"
    BY <1>1, <1>5 DEF Crash, TypeInv, TypeOK, ProcessesOK
  <2> QED BY <2>1
<1>6. CASE UNCHANGED vars
  BY <1>2, <1>6 DEF vars, requestVars
<1> QED BY <1>3, <1>4, <1>5, <1>6 DEF Next

LEMMA NextKeepsRows == TypeInv /\ RowsOfRequests /\ [Next]_vars => RowsOfRequests'
<1> SUFFICES ASSUME TypeInv, RowsOfRequests, [Next]_vars,
                    NEW r \in rows', r.of # Earlier
             PROVE  /\ r.of \in Requests
                    /\ pc'[r.of] \notin {"idle", "get", "create"}
                    /\ pc'[r.of] # "over" => r.session = sess'[r.of]
  BY DEF RowsOfRequests
<1>1. /\ r.of \in Requests
      /\ pc[r.of] \notin {"idle", "get", "create"}
      /\ pc[r.of] # "over" => r.session = sess[r.of]
  <2>1. CASE r \in rows
    BY <2>1 DEF RowsOfRequests
  <2>2. CASE r \notin rows
    BY <2>2, RowsGrow DEF NewRow, Acting, Statements, AuditPlaces, Touches
  <2> QED BY <2>1, <2>2
<1> QED BY <1>1, Forward

\* Where a request is about to touch its session: it stays there, or has
\* touched it, or was kept from it.
LEMMA TouchOrNot ==
  ASSUME TypeInv, [Next]_vars, NEW p \in Requests, pc[p] \in Touches
  PROVE  \/ pc'[p] \in Touches
         \/ p \in untouched'
         \/ fresh' = fresh \cup ({sess[p]} \cap live)
<1>1. p \in Processes /\ p # Purger
  BY ProcessAssumption DEF Processes
<1>2. CASE pc' = pc
  BY <1>2
<1>3. CASE \E q \in Processes : Process(q)
  <2>1. PICK q \in Processes : Process(q)
    BY <1>3
  <2>2. CASE q # p
    <3>1. pc'[p] = pc[p]
      BY <1>1, <2>1, <2>2
         DEF Process, Begin, Acquire, GetForChat, GetForOther, Load, Read, Create, Meta,
             Insert, Touch, Audit, Rate, Think, Pragma, Drop, Sweep, Fails, Step, Goto,
             TypeInv, TypeOK, ProcessesOK, requestVars
    <3> QED BY <3>1
  <2>3. CASE q = p
    <3>1. Acquire(p) \/ Touch(p) \/ Fails(p)
      BY <2>1, <2>3
         DEF Process, Begin, GetForChat, GetForOther, Load, Read, Create, Meta, Insert,
             Audit, Rate, Think, Pragma, Drop, Sweep, Runs, AuditPlaces, Touches, AddMessageNext
    <3>2. CASE Acquire(p)
      BY <1>2, <3>2 DEF Acquire
    <3>3. CASE Touch(p)
      BY <3>3 DEF Touch, Update
    <3>4. CASE Fails(p)
      BY <3>4 DEF Fails
    <3> QED BY <3>1, <3>2, <3>3, <3>4
  <2> QED BY <2>2, <2>3
<1>4. CASE PurgeAgain
  <2>1. pc'[p] = pc[p]
    BY <1>1, <1>4 DEF PurgeAgain, Goto, TypeInv, TypeOK, ProcessesOK
  <2> QED BY <2>1
<1>5. CASE Crash
  BY <1>5 DEF Crash
<1>6. CASE UNCHANGED vars
  BY <1>2, <1>6 DEF vars
<1> QED BY <1>3, <1>4, <1>5, <1>6 DEF Next

\* Sessions stay fresh, requests stay kept from touching theirs, and new
\* sessions have new ids.
LEMMA Histories ==
  ASSUME TypeInv, [Next]_vars
  PROVE  /\ fresh \subseteq fresh' /\ untouched \subseteq untouched'
         /\ \A s \in live' : s \in Known => s \in live
<1>1. fresh \subseteq fresh'
  BY DEF Next, Process, Begin, Acquire, GetForChat, GetForOther, Load, Read, Create, Meta,
         Insert, Touch, Audit, Rate, Think, Pragma, Drop, Sweep, Delete, Fails, PurgeAgain,
         Crash, Update, vars, tableVars
<1>2. untouched \subseteq untouched'
  BY DEF Next, Process, Begin, Acquire, GetForChat, GetForOther, Load, Read, Create, Meta,
         Insert, Touch, Audit, Rate, Think, Pragma, Drop, Sweep, Delete, Fails, PurgeAgain,
         Crash, vars, faultVars
<1>3. live' \subseteq live \cup {NewID}
  BY DEF Next, Process, Begin, Acquire, GetForChat, GetForOther, Load, Read, Create, Meta,
         Insert, Touch, Audit, Rate, Think, Pragma, Drop, Sweep, Delete, Fails, PurgeAgain,
         Crash, vars, tableVars
<1>4. NewID \notin Known
  BY NewIDIsNew DEF TypeInv
<1> QED BY <1>1, <1>2, <1>3, <1>4

LEMMA NextKeepsFresh ==
  TypeInv /\ RowsOfRequests /\ MessagesFresh /\ [Next]_vars => MessagesFresh'
<1> SUFFICES ASSUME TypeInv, RowsOfRequests, MessagesFresh, [Next]_vars, NEW r \in rows',
                    r.what \in Messages, r.of # Earlier, r.session \in live'
             PROVE  r.session \in fresh' \/ r.of \in untouched' \/ pc'[r.of] \in Touches
  BY DEF MessagesFresh, BeingStored
<1>1. CASE r \in rows
  <2>1. r.session \in live /\ r.of \in Requests
    BY <1>1, Histories DEF TypeInv, TypeOK, TablesOK, Row, RowsOfRequests
  <2>2. r.session \in fresh \/ r.of \in untouched \/ pc[r.of] \in Touches
    BY <1>1, <2>1 DEF MessagesFresh, BeingStored
  <2>3. CASE pc[r.of] \in Touches
    <3>1. r.session = sess[r.of]
      BY <1>1, <2>3 DEF RowsOfRequests, Touches
    <3> QED BY <2>1, <2>3, <3>1, TouchOrNot
  <2> QED BY <2>2, <2>3, Histories
<1>2. CASE r \notin rows
  <2>1. PICK p \in Requests, what \in Messages \cup {"audit", "rate"} :
          /\ r = NewRow(p, what)
          /\ Insert(p) \/ Audit(p) \/ Rate(p)
    BY <1>2, RowsGrow
  <2>2. r.what = what /\ r.of = p
    BY <2>1 DEF NewRow
  <2>3. ~Audit(p) /\ ~Rate(p)
    BY <1>2, <2>2 DEF Audit, Rate, NewRow, Messages
  <2>4. pc[p] \in {"ask", "reply"} /\ Step(p, AddMessageNext[pc[p]][1])
    BY <1>2, <2>1, <2>3 DEF Insert, AddMessageNext
  <2>5. AddMessageNext[pc[p]][1] \in Touches
    BY <2>4 DEF AddMessageNext, Touches
  <2>6. pc'[p] \in Touches
    BY <2>4, <2>5 DEF Step, Goto, TypeInv, TypeOK, ProcessesOK, Processes
  <2> QED BY <2>2, <2>6
<1> QED BY <1>1, <1>2

\* The retention purge takes no session with a message of this run, unless its
\* request is still storing it or was kept from that.
THEOREM PurgeSpares == Spec => PurgeSparesActive
<1> DEFINE Inv == RowsOfRequests /\ MessagesFresh
           Spared == \A r \in rows :
             r.what \in Messages /\ r.of # Earlier /\ pc[Purger] = "sweep"
               /\ pc'[Purger] = "waiting" /\ r.session \in live \ live' => BeingStored(r)
<1>1. Init => Inv
  BY DEF Init, RowsOfRequests, MessagesFresh
<1>2. TypeInv /\ Inv /\ [Next]_vars => Inv'
  BY NextKeepsRows, NextKeepsFresh
<1>3. TypeInv /\ Inv /\ [Next]_vars => [Spared]_vars
  <2> SUFFICES ASSUME TypeInv, Inv, [Next]_vars, NEW r \in rows, r.what \in Messages,
                      r.of # Earlier, pc[Purger] = "sweep", pc'[Purger] = "waiting",
                      r.session \in live \ live'
               PROVE  BeingStored(r)
    OBVIOUS
  <2>1. PICK p \in Processes : Drop(p) \/ Sweep(p)
    BY DEF Next, Process, Begin, Acquire, GetForChat, GetForOther, Load, Read, Create, Meta,
           Insert, Touch, Audit, Rate, Think, Pragma, Fails, PurgeAgain, Crash, vars, tableVars
  <2>2. CASE Sweep(p)
    <3>1. r.session \notin fresh
      BY <2>2 DEF Sweep, Delete
    <3> QED BY <3>1 DEF MessagesFresh
  <2>3. CASE Drop(p)
    <3>1. p # Purger
      BY <2>3 DEF Drop, Runs
    <3>2. pc'[Purger] = pc[Purger]
      BY <2>3, <3>1 DEF Drop, Step, Goto, TypeInv, TypeOK, ProcessesOK, Processes
    <3> QED BY <3>2
  <2> QED BY <2>1, <2>2, <2>3
<1> HIDE DEF Inv, Spared
<1>4. TypeInv /\ Inv /\ [Next]_vars => [Spared]_vars
  BY <1>3
<1>5. Spec => [][Spared]_vars
  BY <1>1, <1>2, <1>4, TypesHold, PTL DEF Spec
<1> QED BY <1>5 DEF Spared, PurgeSparesActive

-----------------------------------------------------------------------------
(* Conversations are kept *)

\* What does not concern messages is a stutter.
LEMMA SameTalks ==
  ASSUME owner' = owner, live' = live,
         \A r : r.what \in Messages => (r \in rows' <=> r \in rows)
  PROVE  UNCHANGED <<Known, owner, Talks>>
<1>1. \A s \in live : {r \in rows' : r.what \in Messages /\ r.session = s}
                      = {r \in rows : r.what \in Messages /\ r.session = s}
  OBVIOUS
<1>2. Talks' = Talks
  BY <1>1 DEF Talks
<1> QED BY <1>2 DEF Known

\* A session that is created is a conversation that is opened.
LEMMA CreateOpens ==
  ASSUME TypeInv, NEW p \in Processes, Create(p)
  PROVE  Promised!Next
<1>1. NewID \notin Known
  BY NewIDIsNew DEF TypeInv
<1>2. owner' = [s \in Known \cup {NewID} |-> IF s = NewID THEN user[p] ELSE owner[s]]
  BY DEF Create
<1>3. Known' = Known \cup {NewID} /\ owner'[NewID] = user[p]
  BY <1>2 DEF Known
<1>4. \A r \in rows : r.session # NewID
  BY <1>1 DEF TypeInv, TypeOK, TablesOK, Row
<1>5. CASE live' = live
  <2>1. Talks' = Talks
    BY <1>5 DEF Create, Talks
  <2>2. Promised!Open(NewID, owner'[NewID])
    BY <1>1, <1>2, <1>3, <2>1 DEF Promised!Open
  <2> QED BY <1>1, <1>3, <2>2 DEF Promised!Next
<1>6. CASE live' = live \cup {NewID}
  <2>1. NewID \notin live /\ DOMAIN Talks = live
    BY <1>1 DEF TypeInv, TypeOK, TablesOK, Talks
  <2>2. {r \in rows : r.what \in Messages /\ r.session = NewID} = {}
    BY <1>4
  <2>3. Talks' = [i \in live \cup {NewID} |->
                   {r \in rows : r.what \in Messages /\ r.session = i}]
    BY <1>6 DEF Create, Talks
  <2>4. \A i \in live : Talks[i] = {r \in rows : r.what \in Messages /\ r.session = i}
    BY DEF Talks
  <2>5. Talks' = [i \in DOMAIN Talks \cup {NewID} |-> IF i = NewID THEN {} ELSE Talks[i]]
    BY <2>1, <2>2, <2>3, <2>4
  <2>6. Promised!Open(NewID, owner'[NewID])
    BY <1>1, <1>2, <1>3, <2>5 DEF Promised!Open
  <2> QED BY <1>1, <1>3, <2>6 DEF Promised!Next
<1> QED BY <1>5, <1>6 DEF Create

\* A message that is stored is posted, unless its session is gone.
LEMMA InsertPosts ==
  ASSUME TypeInv, OwnSessionsOnly, NEW p \in Processes, Insert(p)
  PROVE  Promised!Next \/ UNCHANGED <<Known, owner, Talks>>
<1>1. owner' = owner /\ live' = live /\ pc[p] \in {"ask", "reply"}
  BY DEF Insert, AddMessageNext
<1>2. CASE rows' = rows
  BY <1>1, <1>2, SameTalks
<1>3. CASE rows' = rows \cup {NewRow(p, pc[p])}
  <2> DEFINE m == NewRow(p, pc[p])
  <2>1. m.session = sess[p] /\ m.by = user[p] /\ m.what \in Messages
    BY <1>1 DEF NewRow, Messages
  <2>2. user[p] = owner[sess[p]]
    BY <1>1, Runners DEF OwnSessionsOnly, Acting, Statements
  <2> HIDE DEF m
  <2>3. CASE sess[p] \in live
    <3>1. DOMAIN Talks = live /\ DOMAIN Talks' = live
      BY <1>1 DEF Talks
    <3>2. \A i \in live : Talks'[i] = IF i = sess[p] THEN Talks[i] \cup {m} ELSE Talks[i]
      <4> TAKE i \in live
      <4>1. /\ Talks'[i] = {r \in rows' : r.what \in Messages /\ r.session = i}
            /\ Talks[i] = {r \in rows : r.what \in Messages /\ r.session = i}
        BY <1>1 DEF Talks
      <4> QED BY <1>3, <2>1, <4>1 DEF m
    <3>3. Talks' = [Talks EXCEPT ![sess[p]] = @ \cup {m}]
      <4>1. Talks' = [i \in live |-> Talks'[i]] /\ Talks = [i \in live |-> Talks[i]]
        BY <1>1 DEF Talks
      <4> QED BY <2>3, <3>1, <3>2, <4>1
    <3>4. Promised!Post(sess[p], m)
      BY <1>1, <2>1, <2>2, <2>3, <3>1, <3>3 DEF Promised!Post, Known
    <3>5. m \in Talks'[sess[p]]
      BY <2>3, <3>2
    <3> QED BY <2>3, <3>1, <3>4, <3>5 DEF Promised!Next
  <2>4. CASE sess[p] \notin live
    <3>1. \A i \in live : {r \in rows' : r.what \in Messages /\ r.session = i}
                          = {r \in rows : r.what \in Messages /\ r.session = i}
      BY <1>3, <2>1, <2>4 DEF m
    <3>2. Talks' = Talks
      BY <1>1, <3>1 DEF Talks
    <3> QED BY <1>1, <3>2 DEF Known
  <2> QED BY <2>3, <2>4
<1> QED BY <1>2, <1>3 DEF Insert

\* Sessions that are deleted are conversations that are removed as a whole.
LEMMA DeleteRemoves ==
  ASSUME NEW p, NEW S, Delete(p, S)
  PROVE  Promised!Next
<1>1. /\ live' = live \ S /\ owner' = owner /\ DOMAIN Talks = live
      /\ DOMAIN Talks' = live'
  BY DEF Delete, Talks
<1>2. \A i \in live' : {r \in rows' : r.what \in Messages /\ r.session = i}
                       = {r \in rows : r.what \in Messages /\ r.session = i}
  BY <1>1 DEF Delete
<1>3. Talks' = [i \in live' |-> {r \in rows : r.what \in Messages /\ r.session = i}]
  BY <1>2 DEF Talks
<1>4. Talks' = [i \in live' |-> Talks[i]]
  BY <1>1, <1>3 DEF Talks
<1>5. live' = DOMAIN Talks \ (DOMAIN Talks \ DOMAIN Talks')
  BY <1>1
<1>6. Promised!Remove(DOMAIN Talks \ DOMAIN Talks')
  BY <1>1, <1>4, <1>5 DEF Promised!Remove, Known
<1> QED BY <1>6 DEF Promised!Next

LEMMA StepsAsPromised ==
  TypeInv /\ OwnSessionsOnly /\ [Next]_vars => [Promised!Next]_<<Known, owner, Talks>>
<1> SUFFICES ASSUME TypeInv, OwnSessionsOnly, [Next]_vars
             PROVE  Promised!Next \/ UNCHANGED <<Known, owner, Talks>>
  OBVIOUS
<1>1. CASE \E p \in Processes : Create(p)
  BY <1>1, CreateOpens
<1>2. CASE \E p \in Processes : Insert(p)
  BY <1>2, InsertPosts
<1>3. CASE \E p \in Processes : Drop(p) \/ Sweep(p)
  BY <1>3, DeleteRemoves DEF Drop, Sweep
<1>4. CASE \E p \in Processes : Audit(p) \/ Rate(p)
  <2>1. PICK p \in Processes : Audit(p) \/ Rate(p)
    BY <1>4
  <2>2. owner' = owner /\ live' = live
    BY <2>1 DEF Audit, Rate
  <2>3. \E what \in {"audit", "rate"} : rows' \in {rows, rows \cup {NewRow(p, what)}}
    BY <2>1 DEF Audit, Rate
  <2>4. \A r : r.what \in Messages => (r \in rows' <=> r \in rows)
    BY <2>3 DEF NewRow, Messages
  <2> QED BY <2>2, <2>4, SameTalks
<1>5. CASE UNCHANGED <<owner, live, rows>>
  BY <1>5, SameTalks
<1> QED
  BY <1>1, <1>2, <1>3, <1>4, <1>5
     DEF Next, Process, Begin, Acquire, GetForChat, GetForOther, Load, Read, Meta, Touch,
         Think, Pragma, Fails, PurgeAgain, Crash, vars, tableVars

\* Conversations behave as module Conversations promises: each is opened once,
\* grows by messages of its owner only, and disappears as a whole and for good.
THEOREM KeepsConversations == Spec => Implements
<1>1. Init => Promised!Init
  <2> SUFFICES ASSUME Init PROVE Promised!Init
    OBVIOUS
  <2>1. TypeInv
    BY InitTypes
  <2> QED BY <2>1 DEF TypeInv, TypeOK, TablesOK, Promised!Init, Talks
<1>2. Spec => Promised!Spec
  BY <1>1, StepsAsPromised, TypesHold, OwnershipHolds, PTL DEF Spec, Promised!Spec
<1> QED BY <1>2 DEF Implements
=============================================================================
