-------------------------- MODULE McpClientsProofs --------------------------
(***************************************************************************)
(* Proofs about module McpClients, for any number of callers, calls and    *)
(* messages on their way, and for servers that answer in any order, twice, *)
(* late or never: types, what the table of calls holds, and that no call   *)
(* returns the answer to another one (the safety part of module Rpc).      *)
(*                                                                         *)
(* The two clients drive one table.  TableStep is what either may do to    *)
(* it; the table is proved about once, and each client is shown to take    *)
(* only such steps and to send only what the table expects.                *)
(***************************************************************************)
EXTENDS McpClients, FiniteSetTheorems, SequenceTheorems, TLAPS

-----------------------------------------------------------------------------
(* The inductive invariant of the table *)

\* Callers in jsonRPC that have no id yet.
Checking == {c \in Callers : pc[c] = "check"}

\* Every id was handed out for a call, and no call has two.
Counting == IsFiniteSet(Checking) /\ nextID + Cardinality(Checking) <= calls + 1

\* What a caller holds at each place: the number of its call, and an id of its
\* own.
Places ==
  /\ \A c \in Callers :
       /\ asked[c] = 0 <=> pc[c] = "idle"
       /\ pc[c] \in InCall => id[c] \in 2..nextID
       /\ pc[c] = "clean" => answer[c] \in {asked[c], Failed}
  /\ \A c, d \in Callers : pc[c] \in InCall /\ pc[d] \in InCall /\ id[c] = id[d] => c = d

\* An id is in the table, or in the reader's hand, or has had its answer; the
\* first two of a call in progress only.
Table ==
  /\ \A i \in responses : mailbox[i] = <<>> /\ \E c \in Callers : id[c] = i /\ pc[c] \in InCall
  /\ \A m \in sending : mailbox[m.id] = <<>> /\ m.id \notin responses
  /\ \A m, n \in sending : m = n
  /\ \A c \in Callers : pc[c] \in {"send", "write", "wait"} =>
       \/ id[c] \in responses \/ mailbox[id[c]] # <<>>
       \/ \E m \in sending : m.id = id[c]

\* A response is to the call that has its id, if that is still in progress.
Fits(m) ==
  /\ m \in Response /\ m.id <= nextID
  /\ \A c \in Callers : pc[c] \in InCall /\ id[c] = m.id => m.payload = asked[c]

Messages ==
  /\ \A k \in DOMAIN incoming : Fits(incoming[k])
  /\ \A m \in sending : Fits(m)
  /\ \A i \in Ids : \A k \in DOMAIN mailbox[i] : mailbox[i][k].id = i /\ Fits(mailbox[i][k])

TableInv == CallsTypeOK /\ Counting /\ Places /\ Table /\ Messages

\* What is on its way to the server, or with it, fits too.
Outgoing ==
  /\ \A m \in jobs : Fits(m)
  /\ \A k \in DOMAIN toServer : toServer[k] = Stdio!Notification \/ Fits(toServer[k])

\* Over stdio the one who writes holds the lock.
StdioInv ==
  /\ boot \in {"started", "initialize", "notify", "discover", "serving", "skipped"}
  /\ connected \in BOOLEAN
  /\ lock = {c \in Callers : pc[c] = "write"}
  /\ \A c, d \in lock : c = d
  /\ toServer \in Seq(Response \cup {Stdio!Notification})
  /\ jobs \subseteq Response
  /\ server \in {"up", "hung", "exited"}
  /\ reader \in {"reading", "closed"}
  /\ waiter \in {"waiting", "done"}

\* Over SSE nobody calls before the endpoint is known.
SSEInv ==
  /\ endpoint # "taken" => calls = 0 /\ boot \in {"opening", "skipped"}
  /\ boot \in {"opening", "discover", "serving", "skipped"}
  /\ endpoint \in {"none", "queued", "taken"}
  /\ stream \in {"open", "closed"}
  /\ jobs \subseteq Response /\ toServer = <<>>

IInv ==
  /\ TableInv /\ Outgoing
  /\ transport \in {"stdio", "sse"}
  /\ IF transport = "stdio" THEN StdioInv ELSE SSEInv

-----------------------------------------------------------------------------
(* What either client may do to the table *)

Move(c) ==
  /\ \/ pc[c] = "send" /\ Goto(c, "write")
     \/ pc[c] = "write" /\ Goto(c, "wait")
  /\ UNCHANGED <<id, calls, asked, answer, tableVars, incoming>>

Abandon(c) ==
  /\ pc[c] \in {"send", "write", "wait"} /\ Fail(c)
  /\ UNCHANGED <<id, calls, asked, tableVars, incoming>>

\* Responses come and get lost.
Arrive ==
  /\ incoming' \in Seq(Response) /\ \A k \in DOMAIN incoming' : Fits(incoming'[k])
  /\ UNCHANGED <<callVars, tableVars>>

CallStep(c) ==
  Begin(c) \/ Refuse(c) \/ Register(c) \/ Move(c) \/ Abandon(c) \/ Receive(c) \/ Clean(c)

TableStep == (\E c \in Callers : CallStep(c)) \/ Take \/ Deliver \/ Arrive

-----------------------------------------------------------------------------
(* Ids *)

\* There is always an id left for a call, and nobody has it yet.
LEMMA IdIsFresh ==
  ASSUME TableInv, NEW c \in Callers, pc[c] = "check"
  PROVE  /\ nextID + 1 \in Ids /\ nextID \in Nat
         /\ \A d \in Callers : pc[d] \in InCall => id[d] # nextID + 1
         /\ nextID + 1 \notin responses
<1>1. nextID \in Nat /\ nextID >= 1 /\ calls \in Nat /\ calls <= MaxCalls /\ MaxCalls \in Nat
  BY BoundsAssumption DEF TableInv, CallsTypeOK
<1>2. Cardinality(Checking) \in Nat /\ Cardinality(Checking) # 0
  <2>1. IsFiniteSet(Checking) /\ c \in Checking
    BY DEF TableInv, Counting, Checking
  <2> QED BY <2>1, FS_CardinalityType, FS_EmptySet
<1>3. nextID + 1 <= MaxCalls + 1
  <2>1. nextID + Cardinality(Checking) <= calls + 1
    BY DEF TableInv, Counting
  <2> QED BY <1>1, <1>2, <2>1
<1>4. \A d \in Callers : pc[d] \in InCall => id[d] # nextID + 1
  BY <1>1 DEF TableInv, Places
<1>5. nextID + 1 \notin responses
  BY <1>4 DEF TableInv, Table
<1> QED BY <1>1, <1>3, <1>4, <1>5 DEF Ids

LEMMA CheckingKept ==
  ASSUME TableInv, TableStep
  PROVE  Counting'
<1>1. /\ IsFiniteSet(Checking) /\ nextID + Cardinality(Checking) <= calls + 1
      /\ pc \in [Callers -> {"idle", "check"} \cup InCall] /\ nextID \in Nat /\ calls \in Nat
      /\ Cardinality(Checking) \in Nat
  BY FS_CardinalityType DEF TableInv, Counting, CallsTypeOK
<1>2. ASSUME NEW c \in Callers, Begin(c) PROVE Counting'
  <2>1. Checking' = Checking \cup {c} /\ c \notin Checking
    BY <1>1, <1>2 DEF Begin, Goto, Checking
  <2>2. calls' = calls + 1 /\ nextID' = nextID
    BY <1>2 DEF Begin, tableVars
  <2>3. IsFiniteSet(Checking') /\ Cardinality(Checking') = Cardinality(Checking) + 1
    BY <1>1, <2>1, FS_AddElement
  <2> QED BY <1>1, <2>2, <2>3 DEF Counting
<1>3. ASSUME NEW c \in Callers, Refuse(c) \/ Register(c) PROVE Counting'
  <2>1. Checking' = Checking \ {c} /\ c \in Checking
    BY <1>1, <1>3 DEF Refuse, Register, Goto, Checking, InCall
  <2>2. calls' = calls /\ nextID' \in {nextID, nextID + 1}
    BY <1>3 DEF Refuse, Register, Allocate, tableVars
  <2>3. IsFiniteSet(Checking') /\ Cardinality(Checking') = Cardinality(Checking) - 1
    BY <1>1, <2>1, FS_RemoveElement
  <2> QED BY <1>1, <2>2, <2>3 DEF Counting
<1>4. ASSUME NEW c \in Callers, Move(c) \/ Abandon(c) \/ Receive(c) \/ Clean(c) PROVE Counting'
  <2>1. Checking' = Checking
    BY <1>1, <1>4 DEF Move, Abandon, Fail, Receive, Clean, Goto, Checking
  <2>2. calls' = calls /\ nextID' = nextID
    BY <1>4 DEF Move, Abandon, Receive, Clean, tableVars
  <2> QED BY <1>1, <2>1, <2>2 DEF Counting
<1>5. ASSUME Take \/ Deliver \/ Arrive PROVE Counting'
  <2>1. pc' = pc /\ calls' = calls /\ nextID' = nextID
    BY <1>5 DEF Take, Deliver, Arrive, callVars, tableVars
  <2>2. Checking' = Checking
    BY <2>1 DEF Checking
  <2> QED BY <1>1, <2>1, <2>2 DEF Counting
<1> QED BY <1>2, <1>3, <1>4, <1>5 DEF TableStep, CallStep

-----------------------------------------------------------------------------
(* What a step leaves to the other messages and calls *)

\* A message that fits goes on fitting: a call in progress keeps its id, and
\* the id of a new one is in no message.
LEMMA FitsKept ==
  ASSUME TableInv, TableStep, NEW m, Fits(m)
  PROVE  Fits(m)'
<1>1. /\ m \in Response /\ m.id <= nextID /\ nextID \in Nat /\ m.id \in Nat
      /\ pc \in [Callers -> {"idle", "check"} \cup InCall]
      /\ id \in [Callers -> Ids \cup {0}] /\ asked \in [Callers -> 0..MaxCalls]
      /\ \A c \in Callers : pc[c] \in InCall /\ id[c] = m.id => m.payload = asked[c]
  BY DEF Fits, TableInv, CallsTypeOK, Response, Ids
<1>2. Response' = Response
  BY DEF Response, Ids
<1>3. ASSUME NEW c \in Callers, Begin(c) \/ Refuse(c) \/ Move(c) \/ Abandon(c) \/ Receive(c) \/ Clean(c)
      PROVE  Fits(m)'
  <2>1. id' = id /\ nextID' = nextID
    BY <1>3 DEF Begin, Refuse, Move, Abandon, Receive, Clean, tableVars
  <2>2. \A d \in Callers : pc'[d] \in InCall => pc[d] \in InCall /\ asked'[d] = asked[d]
    BY <1>1, <1>3 DEF Begin, Refuse, Move, Abandon, Receive, Clean, Fail, Goto, InCall
  <2> QED BY <1>1, <1>2, <2>1, <2>2 DEF Fits
<1>4. ASSUME NEW c \in Callers, Register(c) PROVE Fits(m)'
  <2>1. /\ nextID' = nextID + 1 /\ asked' = asked
        /\ id'[c] = nextID + 1
        /\ \A d \in Callers \ {c} : id'[d] = id[d] /\ pc'[d] = pc[d]
    BY <1>1, <1>4 DEF Register, Allocate, Goto
  <2>2. \A d \in Callers : pc'[d] \in InCall /\ id'[d] = m.id => m.payload = asked'[d]
    BY <1>1, <2>1
  <2> QED BY <1>1, <1>2, <2>1, <2>2 DEF Fits
<1>5. ASSUME Take \/ Deliver \/ Arrive PROVE Fits(m)'
  BY <1>1, <1>2, <1>5 DEF Take, Deliver, Arrive, callVars, tableVars, Fits
<1> QED BY <1>3, <1>4, <1>5 DEF TableStep, CallStep

-----------------------------------------------------------------------------
(* The parts of the invariant, step by step *)

LEMMA TypesKept ==
  ASSUME TableInv, TableStep
  PROVE  CallsTypeOK'
<1> USE DEF CallsTypeOK
<1>1. CallsTypeOK /\ MaxCalls \in Nat
  BY BoundsAssumption DEF TableInv
<1>2. ASSUME NEW c \in Callers, Begin(c) PROVE CallsTypeOK'
  BY <1>1, <1>2 DEF Begin, Goto, tableVars
<1>3. ASSUME NEW c \in Callers, Refuse(c) \/ Move(c) \/ Abandon(c) \/ Clean(c) PROVE CallsTypeOK'
  <2>1. pc' \in [Callers -> {"idle", "check"} \cup InCall]
    BY <1>1, <1>3 DEF Refuse, Move, Abandon, Clean, Fail, Goto, InCall
  <2>2. asked' \in [Callers -> 0..MaxCalls]
    BY <1>1, <1>3 DEF Refuse, Move, Abandon, Clean
  <2>3. answer' \in [Callers -> {Pending, Failed} \cup 1..MaxCalls]
    BY <1>1, <1>3 DEF Refuse, Move, Abandon, Clean, Fail
  <2>4. responses' \subseteq responses /\ UNCHANGED <<id, calls, nextID, mailbox, sending, incoming>>
    BY <1>3 DEF Refuse, Move, Abandon, Clean, tableVars
  <2> QED BY <1>1, <2>1, <2>2, <2>3, <2>4
<1>4. ASSUME NEW c \in Callers, Register(c) PROVE CallsTypeOK'
  <2>1. nextID + 1 \in Ids /\ nextID + 1 \in 1..(MaxCalls + 1)
    BY <1>1, <1>4, IdIsFresh DEF Register, Ids
  <2>2. mailbox' \in [Ids -> Seq(Response)]
    BY <1>1, <1>4, <2>1 DEF Register
  <2> QED BY <1>1, <1>4, <2>1, <2>2 DEF Register, Allocate, Goto, InCall
<1>5. ASSUME NEW c \in Callers, Receive(c) PROVE CallsTypeOK'
  <2>1. id[c] \in Ids
    BY <1>1, <1>5 DEF Receive, InCall, TableInv, Places, Ids
  <2>2. mailbox[id[c]] \in Seq(Response) /\ mailbox[id[c]] # <<>>
    BY <1>1, <1>5, <2>1 DEF Receive
  <2>3. Head(mailbox[id[c]]) \in Response /\ Tail(mailbox[id[c]]) \in Seq(Response)
    BY <2>2, HeadTailProperties
  <2>4. mailbox' \in [Ids -> Seq(Response)]
    BY <1>1, <1>5, <2>1, <2>3 DEF Receive
  <2>5. answer' \in [Callers -> {Pending, Failed} \cup 1..MaxCalls]
    BY <1>1, <1>5, <2>3 DEF Receive, Response
  <2>6. pc' \in [Callers -> {"idle", "check"} \cup InCall]
    BY <1>1, <1>5 DEF Receive, Goto, InCall
  <2> QED BY <1>1, <1>5, <2>4, <2>5, <2>6 DEF Receive
<1>6. CASE Take
  <2>1. Head(incoming) \in Response /\ Tail(incoming) \in Seq(Response)
    BY <1>1, <1>6, HeadTailProperties DEF Take
  <2> QED BY <1>1, <1>6, <2>1 DEF Take, Dispatch, callVars
<1>7. CASE Deliver
  <2>1. PICK m \in sending : mailbox' = [mailbox EXCEPT ![m.id] = Append(@, m)]
    BY <1>7 DEF Deliver
  <2>2. m \in Response /\ m.id \in Ids
    BY <1>1, <2>1 DEF Response
  <2>3. mailbox' \in [Ids -> Seq(Response)]
    BY <1>1, <2>1, <2>2, AppendProperties
  <2> QED BY <1>1, <1>7, <2>3 DEF Deliver, callVars
<1>8. CASE Arrive
  BY <1>1, <1>8 DEF Arrive, callVars, tableVars
<1> QED BY <1>2, <1>3, <1>4, <1>5, <1>6, <1>7, <1>8 DEF TableStep, CallStep

\* The response in the channel of a call that waits is to that call.
LEMMA ReceivesItsOwn ==
  ASSUME TableInv, NEW c \in Callers, Receive(c)
  PROVE  Head(mailbox[id[c]]).payload = asked[c] /\ id[c] \in Ids
<1>1. id[c] \in Ids
  BY DEF Receive, InCall, TableInv, Places, Ids, CallsTypeOK
<1>2. mailbox[id[c]] \in Seq(Response) /\ mailbox[id[c]] # <<>>
  BY <1>1 DEF Receive, TableInv, CallsTypeOK
<1>3. 1 \in DOMAIN mailbox[id[c]] /\ Head(mailbox[id[c]]) = mailbox[id[c]][1]
  BY <1>2
<1>4. mailbox[id[c]][1].id = id[c] /\ Fits(mailbox[id[c]][1])
  BY <1>1, <1>3 DEF TableInv, Messages
<1> QED BY <1>1, <1>3, <1>4 DEF Fits, Receive, InCall

LEMMA PlacesKept ==
  ASSUME TableInv, TableStep
  PROVE  Places'
<1>1. /\ Places /\ nextID \in Nat /\ nextID >= 1 /\ calls \in Nat
      /\ pc \in [Callers -> {"idle", "check"} \cup InCall]
      /\ id \in [Callers -> Ids \cup {0}]
      /\ asked \in [Callers -> 0..MaxCalls]
      /\ answer \in [Callers -> {Pending, Failed} \cup 1..MaxCalls]
  BY BoundsAssumption DEF TableInv, CallsTypeOK
<1>2. ASSUME NEW c \in Callers, Begin(c) PROVE Places'
  BY <1>1, <1>2 DEF Begin, Goto, tableVars, Places, InCall
<1>3. ASSUME NEW c \in Callers, Refuse(c) \/ Clean(c) PROVE Places'
  BY <1>1, <1>3 DEF Refuse, Clean, Goto, tableVars, Places, InCall
<1>4. ASSUME NEW c \in Callers, Register(c) PROVE Places'
  <2>1. \A d \in Callers : pc[d] \in InCall => id[d] # nextID + 1
    BY <1>4, IdIsFresh DEF Register
  <2>2. pc[c] = "check" /\ pc' = [pc EXCEPT ![c] = "send"] /\ id' = [id EXCEPT ![c] = nextID + 1]
        /\ nextID' = nextID + 1 /\ asked' = asked /\ answer' = answer
    BY <1>4 DEF Register, Allocate, Goto
  <2>3. \A d, e \in Callers : pc'[d] \in InCall /\ pc'[e] \in InCall /\ id'[d] = id'[e] => d = e
    BY <1>1, <2>1, <2>2 DEF Places
  <2>4. \A d \in Callers : /\ asked'[d] = 0 <=> pc'[d] = "idle"
                           /\ pc'[d] \in InCall => id'[d] \in 2..nextID'
                           /\ pc'[d] = "clean" => answer'[d] \in {asked'[d], Failed}
    BY <1>1, <2>2 DEF Places, InCall
  <2> QED BY <2>3, <2>4 DEF Places
<1>5. ASSUME NEW c \in Callers, Move(c) \/ Abandon(c) PROVE Places'
  BY <1>1, <1>5 DEF Move, Abandon, Fail, Goto, tableVars, Places, InCall
<1>6. ASSUME NEW c \in Callers, Receive(c) PROVE Places'
  <2>1. answer' = [answer EXCEPT ![c] = asked[c]]
    BY <1>6, ReceivesItsOwn DEF Receive
  <2> QED BY <1>1, <1>6, <2>1 DEF Receive, Goto, Places, InCall
<1>7. ASSUME Take \/ Deliver \/ Arrive PROVE Places'
  BY <1>1, <1>7 DEF Take, Deliver, Arrive, callVars, tableVars, Places
<1> QED BY <1>2, <1>3, <1>4, <1>5, <1>6, <1>7 DEF TableStep, CallStep

LEMMA TableKept ==
  ASSUME TableInv, TableStep
  PROVE  Table'
<1>1. /\ Table /\ Places /\ nextID \in Nat
      /\ pc \in [Callers -> {"idle", "check"} \cup InCall]
      /\ id \in [Callers -> Ids \cup {0}]
      /\ responses \subseteq Ids /\ mailbox \in [Ids -> Seq(Response)]
  BY DEF TableInv, CallsTypeOK
<1>2. \A m \in sending : m \in Response /\ m.id \in Ids /\ m.id <= nextID
  BY DEF TableInv, CallsTypeOK, Response, Messages, Fits
<1>3. ASSUME NEW c \in Callers, Begin(c) \/ Refuse(c) \/ Move(c) \/ Abandon(c) PROVE Table'
  <2>1. UNCHANGED <<id, responses, mailbox, sending>>
    BY <1>3 DEF Begin, Refuse, Move, Abandon, tableVars
  <2>2. /\ \A d \in Callers : pc[d] \in InCall => pc'[d] \in InCall
        /\ \A d \in Callers : pc'[d] \in {"send", "write", "wait"} => pc[d] \in {"send", "write", "wait"}
    BY <1>1, <1>3 DEF Begin, Refuse, Move, Abandon, Fail, Goto, InCall
  <2> QED BY <1>1, <2>1, <2>2 DEF Table
<1>4. ASSUME NEW c \in Callers, Register(c) PROVE Table'
  <2> DEFINE new == nextID + 1
  <2>1. new \in Ids /\ new \notin responses /\ \A d \in Callers : pc[d] \in InCall => id[d] # new
    BY <1>4, IdIsFresh DEF Register
  <2>2. /\ pc[c] = "check" /\ pc' = [pc EXCEPT ![c] = "send"] /\ id' = [id EXCEPT ![c] = new]
        /\ responses' = responses \cup {new} /\ mailbox' = [mailbox EXCEPT ![new] = <<>>]
        /\ sending' = sending
    BY <1>4 DEF Register, Allocate, Goto
  <2>3. \A i \in responses' : mailbox'[i] = <<>> /\ \E d \in Callers : id'[d] = i /\ pc'[d] \in InCall
    <3>1. mailbox'[new] = <<>> /\ id'[c] = new /\ pc'[c] \in InCall
      BY <1>1, <2>1, <2>2 DEF InCall
    <3>2. ASSUME NEW i \in responses
          PROVE  mailbox'[i] = <<>> /\ \E d \in Callers : id'[d] = i /\ pc'[d] \in InCall
      <4>1. PICK d \in Callers : id[d] = i /\ pc[d] \in InCall
        BY <1>1 DEF Table
      <4>2. d # c /\ id'[d] = i /\ pc'[d] \in InCall
        BY <1>1, <2>2, <4>1 DEF InCall
      <4>3. mailbox'[i] = <<>>
        BY <1>1, <2>1, <2>2 DEF Table
      <4> QED BY <4>2, <4>3
    <3> QED BY <2>2, <3>1, <3>2
  <2>4. \A m \in sending' : mailbox'[m.id] = <<>> /\ m.id \notin responses'
    BY <1>1, <1>2, <2>1, <2>2 DEF Table
  <2>5. \A d \in Callers : pc'[d] \in {"send", "write", "wait"} =>
          \/ id'[d] \in responses' \/ mailbox'[id'[d]] # <<>>
          \/ \E m \in sending' : m.id = id'[d]
    BY <1>1, <2>1, <2>2 DEF Table, InCall
  <2> QED BY <1>1, <2>2, <2>3, <2>4, <2>5 DEF Table
<1>5. ASSUME NEW c \in Callers, Receive(c) PROVE Table'
  <2>1. /\ pc[c] = "wait" /\ mailbox[id[c]] # <<>> /\ pc' = [pc EXCEPT ![c] = "clean"]
        /\ mailbox' = [mailbox EXCEPT ![id[c]] = Tail(@)]
        /\ UNCHANGED <<id, responses, sending>> /\ id[c] \in Ids
    BY <1>5, ReceivesItsOwn DEF Receive, Goto
  <2>2. \A i \in Ids : i # id[c] => mailbox'[i] = mailbox[i]
    BY <1>1, <2>1
  <2>3. id[c] \notin responses /\ \A m \in sending : m.id # id[c]
    BY <1>1, <2>1 DEF Table
  <2>4. \A d \in Callers : /\ pc[d] \in InCall => pc'[d] \in InCall
                           /\ pc'[d] \in {"send", "write", "wait"} => d # c /\ pc'[d] = pc[d]
    BY <1>1, <2>1 DEF InCall
  <2>5. \A d \in Callers : pc'[d] \in {"send", "write", "wait"} => id[d] # id[c] /\ id[d] \in Ids
    <3> SUFFICES ASSUME NEW d \in Callers, pc'[d] \in {"send", "write", "wait"}
                 PROVE  id[d] # id[c] /\ id[d] \in Ids
      OBVIOUS
    <3>1. pc[d] \in InCall /\ pc[c] \in InCall /\ d # c
      BY <2>1, <2>4 DEF InCall
    <3>2. id[d] \in 2..nextID
      BY <1>1, <3>1 DEF Places
    <3> QED BY <1>1, <3>1, <3>2 DEF Places
  <2>6. \A i \in responses' : mailbox'[i] = <<>> /\ \E d \in Callers : id'[d] = i /\ pc'[d] \in InCall
    BY <1>1, <2>1, <2>2, <2>3, <2>4 DEF Table
  <2>7. \A m \in sending' : mailbox'[m.id] = <<>> /\ m.id \notin responses'
    BY <1>1, <1>2, <2>1, <2>2, <2>3 DEF Table
  <2>8. \A d \in Callers : pc'[d] \in {"send", "write", "wait"} =>
          \/ id'[d] \in responses' \/ mailbox'[id'[d]] # <<>>
          \/ \E m \in sending' : m.id = id'[d]
    BY <1>1, <2>1, <2>2, <2>4, <2>5 DEF Table
  <2> QED BY <1>1, <2>1, <2>6, <2>7, <2>8 DEF Table
<1>6. ASSUME NEW c \in Callers, Clean(c) PROVE Table'
  <2>1. /\ pc[c] = "clean" /\ pc' = [pc EXCEPT ![c] = "idle"] /\ responses' = responses \ {id[c]}
        /\ UNCHANGED <<id, mailbox, sending>>
    BY <1>6 DEF Clean, Goto
  <2>2. \A d \in Callers \ {c} : pc[d] \in InCall => id[d] # id[c] /\ pc'[d] \in InCall
    BY <1>1, <2>1 DEF Places, InCall
  <2>3. \A d \in Callers : pc'[d] \in {"send", "write", "wait"} => d # c /\ pc[d] = pc'[d]
    BY <1>1, <2>1
  <2> QED BY <1>1, <2>1, <2>2, <2>3 DEF Table, InCall
<1>7. CASE Take
  <2> DEFINE m == Head(incoming)
  <2>1. /\ sending = {} /\ responses' = responses \ {m.id}
        /\ sending' = IF m.id \in responses THEN {m} ELSE {}
        /\ UNCHANGED <<pc, id, mailbox>>
    BY <1>7 DEF Take, Dispatch, callVars
  <2> QED BY <1>1, <2>1 DEF Table
<1>8. CASE Deliver
  <2>1. PICK m \in sending : mailbox' = [mailbox EXCEPT ![m.id] = Append(@, m)]
    BY <1>8 DEF Deliver
  <2>2. sending' = {} /\ UNCHANGED <<pc, id, responses>>
    BY <1>8 DEF Deliver, callVars
  <2>3. m.id \in Ids /\ m.id \notin responses /\ mailbox'[m.id] = <<m>>
        /\ \A i \in Ids : i # m.id => mailbox'[i] = mailbox[i]
    <3>1. m.id \in Ids /\ m.id \notin responses /\ mailbox[m.id] = <<>>
      BY <1>1, <1>2, <2>1 DEF Table
    <3>2. Append(mailbox[m.id], m) = <<m>>
      BY <3>1
    <3> QED BY <1>1, <2>1, <3>1, <3>2
  <2>4. \A n \in sending : n = m
    BY <1>1 DEF Table
  <2>5. \A d \in Callers : pc[d] \in InCall => id[d] \in Ids
    BY <1>1 DEF Places
  <2>6. mailbox'[m.id] # <<>>
    BY <2>3
  <2>7. \A i \in responses' : mailbox'[i] = <<>> /\ \E d \in Callers : id'[d] = i /\ pc'[d] \in InCall
    BY <1>1, <2>2, <2>3 DEF Table
  <2>8. \A d \in Callers : pc'[d] \in {"send", "write", "wait"} =>
          id'[d] \in responses' \/ mailbox'[id'[d]] # <<>>
    BY <1>1, <2>2, <2>3, <2>4, <2>5, <2>6 DEF Table, InCall
  <2> QED BY <2>2, <2>7, <2>8 DEF Table
<1>9. CASE Arrive
  BY <1>1, <1>9 DEF Arrive, callVars, tableVars, Table
<1> QED BY <1>3, <1>4, <1>5, <1>6, <1>7, <1>8, <1>9 DEF TableStep, CallStep

\* A message in the queues was there before, or has just been read.
LEMMA MessagesKept ==
  ASSUME TableInv, TableStep
  PROVE  Messages'
<1>1. \A m : Fits(m) => Fits(m)'
  BY FitsKept
<1>2. /\ Messages /\ sending \subseteq Response /\ incoming \in Seq(Response)
      /\ id \in [Callers -> Ids \cup {0}] /\ mailbox \in [Ids -> Seq(Response)]
  BY DEF TableInv, CallsTypeOK
<1>3. ASSUME UNCHANGED <<mailbox, sending, incoming>> PROVE Messages'
  BY <1>1, <1>2, <1>3 DEF Messages, Ids
<1>4. ASSUME NEW c \in Callers, Begin(c) \/ Refuse(c) \/ Move(c) \/ Abandon(c) \/ Clean(c) PROVE Messages'
  BY <1>3, <1>4 DEF Begin, Refuse, Move, Abandon, Clean, tableVars
<1>5. ASSUME NEW c \in Callers, Register(c) PROVE Messages'
  <2>1. nextID + 1 \in Ids
    BY <1>5, IdIsFresh DEF Register
  <2>2. UNCHANGED <<sending, incoming>> /\ mailbox' = [mailbox EXCEPT ![nextID + 1] = <<>>]
    BY <1>5 DEF Register
  <2>3. \A i \in Ids : \A k \in DOMAIN mailbox'[i] : k \in DOMAIN mailbox[i] /\ mailbox'[i][k] = mailbox[i][k]
    BY <1>2, <2>1, <2>2
  <2> QED BY <1>1, <1>2, <2>2, <2>3 DEF Messages, Ids
<1>6. ASSUME NEW c \in Callers, Receive(c) PROVE Messages'
  <2>1. id[c] \in Ids
    BY <1>6, ReceivesItsOwn
  <2>2. UNCHANGED <<sending, incoming>> /\ mailbox' = [mailbox EXCEPT ![id[c]] = Tail(@)]
        /\ mailbox[id[c]] \in Seq(Response) /\ mailbox[id[c]] # <<>>
    BY <1>2, <1>6, <2>1 DEF Receive
  <2>3. \A k \in DOMAIN Tail(mailbox[id[c]]) :
          k + 1 \in DOMAIN mailbox[id[c]] /\ Tail(mailbox[id[c]])[k] = mailbox[id[c]][k + 1]
    BY <2>2, HeadTailProperties
  <2>4. \A i \in Ids : \A k \in DOMAIN mailbox'[i] : mailbox'[i][k].id = i /\ Fits(mailbox'[i][k])
    BY <1>2, <2>1, <2>2, <2>3 DEF Messages
  <2> QED BY <1>1, <1>2, <2>2, <2>4 DEF Messages, Ids
<1>7. CASE Take
  <2>1. incoming # <<>> /\ incoming' = Tail(incoming) /\ mailbox' = mailbox
        /\ sending' \subseteq {Head(incoming)}
    BY <1>7 DEF Take, Dispatch
  <2>2. \A k \in DOMAIN incoming' : k + 1 \in DOMAIN incoming /\ incoming'[k] = incoming[k + 1]
    BY <1>2, <2>1, HeadTailProperties
  <2>3. Head(incoming) = incoming[1] /\ 1 \in DOMAIN incoming
    BY <1>2, <2>1
  <2> QED BY <1>1, <1>2, <2>1, <2>2, <2>3 DEF Messages, Ids
<1>8. CASE Deliver
  <2>1. PICK m \in sending : Len(mailbox[m.id]) < 1 /\ mailbox' = [mailbox EXCEPT ![m.id] = Append(@, m)]
    BY <1>8 DEF Deliver
  <2>2. sending' = {} /\ incoming' = incoming
    BY <1>8 DEF Deliver
  <2>3. m.id \in Ids /\ Fits(m) /\ mailbox'[m.id] = <<m>>
        /\ \A i \in Ids : i # m.id => mailbox'[i] = mailbox[i]
    <3>1. m.id \in Ids /\ Fits(m)
      BY <1>2, <2>1 DEF Messages, Response
    <3>2. mailbox[m.id] = <<>>
      BY <2>1 DEF TableInv, Table
    <3>3. Append(mailbox[m.id], m) = <<m>>
      BY <3>2
    <3> QED BY <1>2, <2>1, <3>1, <3>3
  <2>4. \A i \in Ids : \A k \in DOMAIN mailbox'[i] : mailbox'[i][k].id = i /\ Fits(mailbox'[i][k])
    <3> SUFFICES ASSUME NEW i \in Ids, NEW k \in DOMAIN mailbox'[i]
                 PROVE  mailbox'[i][k].id = i /\ Fits(mailbox'[i][k])
      OBVIOUS
    <3>1. CASE i = m.id
      <4>1. mailbox'[i][k] = m
        BY <2>3, <3>1
      <4> QED BY <2>3, <3>1, <4>1
    <3>2. CASE i # m.id
      BY <1>2, <2>3, <3>2 DEF Messages
    <3> QED BY <3>1, <3>2
  <2> QED BY <1>1, <1>2, <2>2, <2>4 DEF Messages, Ids
<1>9. CASE Arrive
  <2>1. UNCHANGED <<mailbox, sending>> /\ \A k \in DOMAIN incoming' : Fits(incoming'[k])
    BY <1>9 DEF Arrive, tableVars
  <2> QED BY <1>1, <1>2, <2>1 DEF Messages, Ids
<1> QED BY <1>4, <1>5, <1>6, <1>7, <1>8, <1>9 DEF TableStep, CallStep

\* The invariant of the table is inductive, whatever the transport.
LEMMA TableStepKeepsInv ==
  ASSUME TableInv, TableStep
  PROVE  TableInv'
BY TypesKept, CheckingKept, PlacesKept, TableKept, MessagesKept DEF TableInv

LEMMA InitTable ==
  ASSUME CallsInit
  PROVE  TableInv
<1>1. MaxCalls \in Nat
  BY BoundsAssumption
<1>2. CallsTypeOK
  BY <1>1 DEF CallsInit, CallsTypeOK, Ids, Pending, Failed
<1>3. Checking = {}
  BY DEF CallsInit, Checking
<1>4. Counting
  BY <1>3, FS_EmptySet DEF CallsInit, Counting
<1>5. Places /\ Table /\ Messages
  BY DEF CallsInit, Places, Table, Messages, InCall, Ids
<1> QED BY <1>2, <1>4, <1>5 DEF TableInv

-----------------------------------------------------------------------------
(* What the table promises *)

\* The table holds what its callers rely on.
LEMMA TableHolds ==
  ASSUME TableInv
  PROVE  CallsTypeOK /\ TableIsInFlight
BY DEF TableInv, Table, TableIsInFlight, ReaderNeverBlocks

\* A step of the table begins a call, returns one with its own answer or an
\* error, or is none of the callers' business.
LEMMA StepsAsPromised ==
  ASSUME TableInv, TableStep
  PROVE  [PromisedCalls!Next]_(PromisedCalls!rpcVars)
<1> USE DEF PromisedCalls!rpcVars, Returned
<1>1. /\ pc \in [Callers -> {"idle", "check"} \cup InCall]
      /\ asked \in [Callers -> 0..MaxCalls] /\ calls \in Nat /\ MaxCalls \in Nat
      /\ answer \in [Callers -> {Pending, Failed} \cup 1..MaxCalls]
      /\ \A c \in Callers : asked[c] = 0 <=> pc[c] = "idle"
      /\ \A c \in Callers : pc[c] = "clean" => answer[c] \in {asked[c], Failed}
  BY BoundsAssumption DEF TableInv, CallsTypeOK, Places
<1>2. ASSUME NEW c \in Callers, Begin(c) PROVE PromisedCalls!Begin(c)
  <2>1. /\ pc[c] = "idle" /\ calls < MaxCalls /\ calls' = calls + 1
        /\ asked' = [asked EXCEPT ![c] = calls + 1] /\ answer' = [answer EXCEPT ![c] = Pending]
    BY <1>2 DEF Begin
  <2>2. asked[c] = 0
    BY <1>1, <2>1
  <2>3. Returned' = [Returned EXCEPT ![c] = Pending]
    BY <1>1, <2>1, <2>2
  <2> QED BY <2>1, <2>2, <2>3 DEF PromisedCalls!Begin, PromisedCalls!Pending, Pending
<1>3. ASSUME NEW c \in Callers, Refuse(c) \/ Clean(c) PROVE PromisedCalls!Return(c)
  <2>1. /\ asked[c] # 0 /\ calls' = calls /\ asked' = [asked EXCEPT ![c] = 0]
        /\ answer'[c] \in {asked[c], Failed}
        /\ \A d \in Callers : d # c => answer'[d] = answer[d]
    BY <1>1, <1>3 DEF Refuse, Clean, InCall
  <2>2. Returned' = [Returned EXCEPT ![c] = answer'[c]]
    BY <1>1, <2>1
  <2> QED BY <2>1, <2>2 DEF PromisedCalls!Return, PromisedCalls!Failed, Failed
<1>4. ASSUME NEW c \in Callers, Register(c) \/ Move(c) \/ Abandon(c) \/ Receive(c)
      PROVE  UNCHANGED <<calls, asked, Returned>>
  <2>1. calls' = calls /\ asked' = asked /\ asked[c] # 0
        /\ \A d \in Callers : d # c => answer'[d] = answer[d]
    BY <1>1, <1>4 DEF Register, Move, Abandon, Fail, Receive, tableVars
  <2> QED BY <1>1, <2>1
<1>5. ASSUME Take \/ Deliver \/ Arrive PROVE UNCHANGED <<calls, asked, Returned>>
  BY <1>5 DEF Take, Deliver, Arrive, callVars
<1> QED BY <1>2, <1>3, <1>4, <1>5 DEF TableStep, CallStep, PromisedCalls!Next

-----------------------------------------------------------------------------
(* Either client drives the table *)

\* The actions of the table are those the clients name.
LEMMA SameTable ==
  /\ Stdio!CallsInit <=> CallsInit
  /\ SSE!CallsInit <=> CallsInit
  /\ Stdio!CallsTypeOK <=> CallsTypeOK
  /\ SSE!CallsTypeOK <=> CallsTypeOK
  /\ Stdio!Response = Response /\ SSE!Response = Response
<1>1. Stdio!Ids = Ids /\ SSE!Ids = Ids
  BY DEF Stdio!Ids, SSE!Ids, Ids
<1>2. Stdio!Response = Response /\ SSE!Response = Response
  BY <1>1 DEF Stdio!Response, SSE!Response, Response
<1> QED
  BY <1>1, <1>2 DEF Stdio!CallsInit, SSE!CallsInit, CallsInit, Stdio!CallsTypeOK, SSE!CallsTypeOK,
     CallsTypeOK, Stdio!InCall, SSE!InCall, InCall, Stdio!Pending, SSE!Pending, Pending,
     Stdio!Failed, SSE!Failed, Failed

LEMMA SameTake ==
  /\ Stdio!Take => Take
  /\ SSE!Take => Take
  /\ Stdio!Deliver => Deliver
  /\ SSE!Deliver => Deliver
<1> USE DEF Stdio!callVars, SSE!callVars, callVars
<1>1. Stdio!Take => Take
  BY DEF Stdio!Take, Take, Stdio!Dispatch, Dispatch
<1>2. SSE!Take => Take
  BY DEF SSE!Take, Take, SSE!Dispatch, Dispatch
<1>3. Stdio!Deliver => Deliver
  BY DEF Stdio!Deliver, Deliver
<1>4. SSE!Deliver => Deliver
  BY DEF SSE!Deliver, Deliver
<1> QED BY <1>1, <1>2, <1>3, <1>4

LEMMA SameCall ==
  ASSUME NEW c \in Callers
  PROVE  /\ Stdio!Begin(c) <=> Begin(c)
         /\ Stdio!Refuse(c) <=> Refuse(c)
         /\ Stdio!Register(c) <=> Register(c)
         /\ Stdio!Receive(c) <=> Receive(c)
         /\ Stdio!Clean(c) <=> Clean(c)
         /\ SSE!Begin(c) <=> Begin(c)
         /\ SSE!Register(c) <=> Register(c)
         /\ SSE!Receive(c) <=> Receive(c)
         /\ SSE!Clean(c) <=> Clean(c)
<1> USE DEF Stdio!Goto, SSE!Goto, Goto, Stdio!tableVars, SSE!tableVars, tableVars
<1>1. (Stdio!Begin(c) <=> Begin(c)) /\ (SSE!Begin(c) <=> Begin(c))
  BY DEF Stdio!Begin, SSE!Begin, Begin, Stdio!Pending, SSE!Pending, Pending
<1>2. Stdio!Refuse(c) <=> Refuse(c)
  BY DEF Stdio!Refuse, Refuse, Stdio!Failed, Failed
<1>3. (Stdio!Register(c) <=> Register(c)) /\ (SSE!Register(c) <=> Register(c))
  BY DEF Stdio!Register, SSE!Register, Register, Stdio!Allocate, SSE!Allocate, Allocate
<1>4. (Stdio!Receive(c) <=> Receive(c)) /\ (SSE!Receive(c) <=> Receive(c))
  BY DEF Stdio!Receive, SSE!Receive, Receive
<1>5. (Stdio!Clean(c) <=> Clean(c)) /\ (SSE!Clean(c) <=> Clean(c))
  BY DEF Stdio!Clean, SSE!Clean, Clean
<1> QED BY <1>1, <1>2, <1>3, <1>4, <1>5

\* What comes from the server fits, and what is lost does no harm.
LEMMA IncomingFits ==
  ASSUME TableInv, UNCHANGED <<callVars, tableVars>>,
         \/ incoming' \in {incoming, <<>>}
         \/ incoming # <<>> /\ incoming' = Tail(incoming)
         \/ \E m : Fits(m) /\ incoming' = Append(incoming, m)
  PROVE  TableStep
<1>1. incoming \in Seq(Response) /\ \A k \in DOMAIN incoming : Fits(incoming[k])
  BY DEF TableInv, CallsTypeOK, Messages
<1>2. incoming' \in Seq(Response) /\ \A k \in DOMAIN incoming' : Fits(incoming'[k])
  <2>1. CASE incoming' = incoming
    BY <1>1, <2>1
  <2>2. CASE incoming' = <<>>
    BY <2>2
  <2>3. CASE incoming # <<>> /\ incoming' = Tail(incoming)
    BY <1>1, <2>3, HeadTailProperties
  <2>4. ASSUME NEW m, Fits(m), incoming' = Append(incoming, m)
        PROVE  incoming' \in Seq(Response) /\ \A k \in DOMAIN incoming' : Fits(incoming'[k])
    <3>1. m \in Response
      BY <2>4 DEF Fits
    <3>2. /\ incoming' \in Seq(Response) /\ Len(incoming') = Len(incoming) + 1
          /\ \A k \in 1..Len(incoming) : incoming'[k] = incoming[k]
          /\ incoming'[Len(incoming) + 1] = m
      BY <1>1, <2>4, <3>1, AppendProperties
    <3> QED BY <1>1, <2>4, <3>2
  <2> QED BY <2>1, <2>2, <2>3, <2>4
<1> QED BY <1>2 DEF TableStep, Arrive

\* The request a call sends fits.
LEMMA RequestFits ==
  ASSUME TableInv, NEW c \in Callers, pc[c] \in {"send", "write", "wait"}
  PROVE  Fits([id |-> id[c], payload |-> asked[c]])
<1> DEFINE m == [id |-> id[c], payload |-> asked[c]]
<1>1. id[c] \in 2..nextID /\ id[c] \in Ids \cup {0} /\ asked[c] \in 0..MaxCalls /\ asked[c] # 0
      /\ nextID \in Nat /\ MaxCalls \in Nat
  BY BoundsAssumption DEF TableInv, CallsTypeOK, Places, InCall
<1>2. m \in Response /\ m.id <= nextID
  BY <1>1 DEF Response, Ids
<1>3. \A d \in Callers : pc[d] \in InCall /\ id[d] = m.id => m.payload = asked[d]
  BY DEF TableInv, Places, InCall
<1> QED BY <1>2, <1>3 DEF Fits

-----------------------------------------------------------------------------
(* The stdio client *)

LEMMA StdioTable ==
  ASSUME TableInv, Outgoing, Stdio!Next
  PROVE  TableStep
<1> USE DEF Stdio!callVars, callVars, Stdio!tableVars, tableVars
<1>1. ASSUME NEW c \in Callers, Stdio!Call(c) PROVE TableStep
  BY <1>1, SameCall DEF Stdio!Call, TableStep, CallStep
<1>2. ASSUME NEW c \in Callers, Stdio!RefuseCall(c) PROVE TableStep
  BY <1>2, SameCall DEF Stdio!RefuseCall, TableStep, CallStep
<1>3. ASSUME NEW c \in Callers, Stdio!RegisterCall(c) PROVE TableStep
  BY <1>3, SameCall DEF Stdio!RegisterCall, TableStep, CallStep
<1>4. ASSUME NEW c \in Callers, Stdio!LockWrite(c) \/ Stdio!Write(c) PROVE TableStep
  <2>1. Move(c)
    BY <1>4 DEF Stdio!LockWrite, Stdio!Write, Stdio!Goto, Goto, Move
  <2> QED BY <2>1 DEF TableStep, CallStep
<1>5. ASSUME NEW c \in Callers, Stdio!WriteFails(c) \/ Stdio!TimeOut(c) PROVE TableStep
  <2>1. Abandon(c)
    BY <1>5 DEF Stdio!WriteFails, Stdio!TimeOut, Stdio!GiveUp, Stdio!Fail, Stdio!Failed, Stdio!Goto,
       Goto, Failed, Fail, Abandon
  <2> QED BY <2>1 DEF TableStep, CallStep
<1>6. ASSUME NEW c \in Callers, Stdio!ReceiveAnswer(c) PROVE TableStep
  BY <1>6, SameCall DEF Stdio!ReceiveAnswer, TableStep, CallStep
<1>7. ASSUME NEW c \in Callers, Stdio!ReturnCall(c) PROVE TableStep
  BY <1>7, SameCall DEF Stdio!ReturnCall, TableStep, CallStep
<1>8. ASSUME \/ Stdio!StoreConnected \/ Stdio!Notify
             \/ Stdio!ServerReads \/ Stdio!ServerHangs \/ Stdio!ServerExits
             \/ Stdio!ReaderEnds
      PROVE  TableStep
  <2>1. UNCHANGED <<callVars, tableVars, incoming>>
    BY <1>8 DEF Stdio!StoreConnected, Stdio!Notify, Stdio!ServerReads, Stdio!ServerHangs,
       Stdio!ServerExits, Stdio!ReaderEnds
  <2> QED BY <2>1, IncomingFits
<1>9. CASE Stdio!ServerAnswers
  <2>1. PICK m \in jobs : incoming' = Append(incoming, m)
    BY <1>9 DEF Stdio!ServerAnswers
  <2>2. UNCHANGED <<callVars, tableVars>> /\ Fits(m)
    BY <1>9 DEF Stdio!ServerAnswers, Outgoing
  <2> QED BY <2>1, <2>2, IncomingFits
<1>10. CASE Stdio!ReaderTakes \/ Stdio!ReaderDelivers
  <2>1. Take \/ Deliver
    BY <1>10, SameTake DEF Stdio!ReaderTakes, Stdio!ReaderDelivers
  <2> QED BY <2>1 DEF TableStep
<1>11. CASE Stdio!ReaderOverflows
  BY <1>11, IncomingFits DEF Stdio!ReaderOverflows
<1>12. CASE Stdio!ProcessReaped
  BY <1>12, IncomingFits DEF Stdio!ProcessReaped
<1> QED
  BY <1>1, <1>2, <1>3, <1>4, <1>5, <1>6, <1>7, <1>8, <1>9, <1>10, <1>11, <1>12
  DEF Stdio!Next, Stdio!Proceed, Stdio!Reader

\* The pipe and the server hold requests of calls, and the notification.
LEMMA StdioOutgoing ==
  ASSUME TableInv, Outgoing, StdioInv, Stdio!Next
  PROVE  Outgoing'
<1>1. TableStep
  BY StdioTable
<1>2. \A m : Fits(m) => Fits(m)'
  BY <1>1, FitsKept
<1> DEFINE S == Response \cup {Stdio!Notification}
<1>3. /\ toServer \in Seq(S) /\ \A m \in jobs : Fits(m)
      /\ \A k \in DOMAIN toServer : toServer[k] = Stdio!Notification \/ Fits(toServer[k])
  BY DEF StdioInv, Outgoing
<1> SUFFICES /\ \A m \in jobs' : Fits(m)
             /\ \A k \in DOMAIN toServer' : toServer'[k] = Stdio!Notification \/ Fits(toServer'[k])
  BY <1>2 DEF Outgoing, Stdio!Notification
<1>4. CASE UNCHANGED <<toServer, jobs>>
  BY <1>3, <1>4
<1>5. ASSUME NEW m, m = Stdio!Notification \/ Fits(m), toServer' = Append(toServer, m)
      PROVE  \A k \in DOMAIN toServer' : toServer'[k] = Stdio!Notification \/ Fits(toServer'[k])
  <2>1. m \in S
    BY <1>5 DEF Fits
  <2>2. /\ toServer' \in Seq(S) /\ Len(toServer') = Len(toServer) + 1
        /\ \A k \in 1..Len(toServer) : toServer'[k] = toServer[k]
        /\ toServer'[Len(toServer) + 1] = m
    BY <1>3, <1>5, <2>1, AppendProperties
  <2> QED BY <1>3, <1>5, <2>2
<1>6. ASSUME NEW c \in Callers,
             \/ Stdio!Call(c) \/ Stdio!RefuseCall(c) \/ Stdio!RegisterCall(c) \/ Stdio!LockWrite(c)
             \/ Stdio!WriteFails(c) \/ Stdio!ReceiveAnswer(c) \/ Stdio!TimeOut(c) \/ Stdio!ReturnCall(c)
      PROVE  UNCHANGED <<toServer, jobs>>
  BY <1>6 DEF Stdio!Call, Stdio!RefuseCall, Stdio!RegisterCall, Stdio!LockWrite, Stdio!WriteFails,
     Stdio!ReceiveAnswer, Stdio!TimeOut, Stdio!ReturnCall, Stdio!processVars
<1>7. ASSUME \/ Stdio!StoreConnected \/ Stdio!ServerHangs \/ Stdio!Reader \/ Stdio!ProcessReaped
      PROVE  UNCHANGED <<toServer, jobs>>
  BY <1>7 DEF Stdio!StoreConnected, Stdio!ServerHangs, Stdio!Reader, Stdio!ReaderTakes,
     Stdio!ReaderDelivers, Stdio!ReaderEnds, Stdio!ReaderOverflows, Stdio!ProcessReaped,
     Stdio!processVars
<1>8. CASE Stdio!Notify
  <2>1. jobs' = jobs /\ toServer' \in {toServer, Append(toServer, Stdio!Notification)}
    BY <1>8 DEF Stdio!Notify
  <2> QED BY <1>3, <1>5, <2>1
<1>9. ASSUME NEW c \in Callers, Stdio!Write(c)
      PROVE  /\ jobs' = jobs
             /\ \A k \in DOMAIN toServer' : toServer'[k] = Stdio!Notification \/ Fits(toServer'[k])
  <2>1. jobs' = jobs /\ toServer' = Append(toServer, [id |-> id[c], payload |-> asked[c]])
    BY <1>9 DEF Stdio!Write
  <2>2. Fits([id |-> id[c], payload |-> asked[c]])
    BY <1>9, RequestFits DEF Stdio!Write
  <2> QED BY <1>5, <2>1, <2>2
<1>10. CASE Stdio!ServerReads
  <2>1. toServer # <<>> /\ toServer' = Tail(toServer)
        /\ jobs' = jobs \cup ({Head(toServer)} \ {Stdio!Notification})
    BY <1>10 DEF Stdio!ServerReads
  <2>2. Head(toServer) = toServer[1] /\ 1 \in DOMAIN toServer
    BY <1>3, <2>1
  <2>3. \A k \in DOMAIN toServer' : k + 1 \in DOMAIN toServer /\ toServer'[k] = toServer[k + 1]
    BY <1>3, <2>1, HeadTailProperties
  <2> QED BY <1>3, <2>1, <2>2, <2>3
<1>11. CASE Stdio!ServerAnswers
  BY <1>3, <1>11 DEF Stdio!ServerAnswers
<1>12. CASE Stdio!ServerExits
  BY <1>12 DEF Stdio!ServerExits
<1> QED
  BY <1>3, <1>4, <1>6, <1>7, <1>8, <1>9, <1>10, <1>11, <1>12 DEF Stdio!Next, Stdio!Proceed

\* Who writes holds the lock, whatever the others do.
LEMMA LockKept ==
  ASSUME TableInv, StdioInv, Stdio!Next
  PROVE  (lock = {c \in Callers : pc[c] = "write"} /\ \A c, d \in lock : c = d)'
<1>1. /\ lock = {c \in Callers : pc[c] = "write"} /\ \A c, d \in lock : c = d
      /\ pc \in [Callers -> {"idle", "check"} \cup InCall]
  BY DEF StdioInv, TableInv, CallsTypeOK
<1> SUFFICES lock' = {c \in Callers : pc'[c] = "write"} /\ \A c, d \in lock' : c = d
  OBVIOUS
<1> USE DEF Stdio!Goto
<1>2. ASSUME NEW c \in Callers,
             \/ Stdio!Call(c) \/ Stdio!RefuseCall(c) \/ Stdio!RegisterCall(c)
             \/ Stdio!ReceiveAnswer(c) \/ Stdio!TimeOut(c) \/ Stdio!ReturnCall(c)
      PROVE  lock' = {d \in Callers : pc'[d] = "write"} /\ \A d, e \in lock' : d = e
  <2>1. lock' = lock
    BY <1>2 DEF Stdio!Call, Stdio!RefuseCall, Stdio!RegisterCall, Stdio!ReceiveAnswer, Stdio!TimeOut,
       Stdio!ReturnCall
  <2>2. pc[c] # "write" /\ \E p \in {"check", "idle", "send", "clean"} : pc' = [pc EXCEPT ![c] = p]
    BY <1>2 DEF Stdio!Call, Stdio!RefuseCall, Stdio!RegisterCall, Stdio!ReceiveAnswer, Stdio!TimeOut,
       Stdio!ReturnCall, Stdio!Begin, Stdio!Refuse, Stdio!Register, Stdio!Receive, Stdio!GiveUp,
       Stdio!Fail, Stdio!Clean
  <2> QED BY <1>1, <2>1, <2>2
<1>3. ASSUME NEW c \in Callers, Stdio!LockWrite(c)
      PROVE  lock' = {d \in Callers : pc'[d] = "write"} /\ \A d, e \in lock' : d = e
  <2>1. lock = {} /\ lock' = {c} /\ pc' = [pc EXCEPT ![c] = "write"]
    BY <1>3 DEF Stdio!LockWrite
  <2> QED BY <1>1, <2>1
<1>4. ASSUME NEW c \in Callers, Stdio!Write(c) \/ Stdio!WriteFails(c)
      PROVE  lock' = {d \in Callers : pc'[d] = "write"} /\ \A d, e \in lock' : d = e
  <2>1. pc[c] = "write" /\ lock' = {} /\ \E p \in {"wait", "clean"} : pc' = [pc EXCEPT ![c] = p]
    BY <1>4 DEF Stdio!Write, Stdio!WriteFails, Stdio!Fail
  <2> QED BY <1>1, <2>1
<1>5. ASSUME \/ Stdio!StoreConnected \/ Stdio!Notify
             \/ Stdio!ServerReads \/ Stdio!ServerAnswers \/ Stdio!ServerHangs \/ Stdio!ServerExits
             \/ Stdio!Reader \/ Stdio!ProcessReaped
      PROVE  lock' = {d \in Callers : pc'[d] = "write"} /\ \A d, e \in lock' : d = e
  <2>1. lock' = lock /\ pc' = pc
    BY <1>5 DEF Stdio!StoreConnected, Stdio!Notify, Stdio!ServerReads, Stdio!ServerAnswers,
       Stdio!ServerHangs, Stdio!ServerExits, Stdio!Reader, Stdio!ReaderTakes, Stdio!ReaderDelivers,
       Stdio!Deliver, Stdio!Take, Stdio!ReaderEnds, Stdio!ReaderOverflows, Stdio!ProcessReaped,
       Stdio!callVars
  <2> QED BY <1>1, <2>1
<1> QED BY <1>2, <1>3, <1>4, <1>5 DEF Stdio!Next, Stdio!Proceed

LEMMA StdioKept ==
  ASSUME TableInv, Outgoing, StdioInv, Stdio!Next
  PROVE  StdioInv'
<1> DEFINE S == Response \cup {Stdio!Notification}
           Boots == {"started", "initialize", "notify", "discover", "serving", "skipped"}
           Servers == {"up", "hung", "exited"}
<1>1. /\ boot \in Boots /\ connected \in BOOLEAN /\ toServer \in Seq(S) /\ jobs \subseteq Response
      /\ server \in Servers /\ reader \in {"reading", "closed"} /\ waiter \in {"waiting", "done"}
      /\ Stdio!Notification \in S /\ S' = S /\ Response' = Response
  BY DEF StdioInv, Stdio!Notification, Response, Ids
<1> SUFFICES /\ boot' \in Boots /\ connected' \in BOOLEAN /\ toServer' \in Seq(S)
             /\ jobs' \subseteq Response /\ server' \in Servers
             /\ reader' \in {"reading", "closed"} /\ waiter' \in {"waiting", "done"}
  BY <1>1, LockKept DEF StdioInv
<1> HIDE DEF S
<1>2. ASSUME NEW c \in Callers,
             \/ Stdio!Call(c) \/ Stdio!RefuseCall(c) \/ Stdio!RegisterCall(c) \/ Stdio!LockWrite(c)
             \/ Stdio!WriteFails(c) \/ Stdio!ReceiveAnswer(c) \/ Stdio!TimeOut(c) \/ Stdio!ReturnCall(c)
      PROVE  boot' \in Boots /\ UNCHANGED <<connected, toServer, jobs, server, reader, waiter>>
  BY <1>1, <1>2 DEF Stdio!Call, Stdio!RefuseCall, Stdio!RegisterCall, Stdio!LockWrite, Stdio!WriteFails,
     Stdio!ReceiveAnswer, Stdio!TimeOut, Stdio!ReturnCall, Stdio!processVars, Stdio!AfterReturn
<1>3. ASSUME NEW c \in Callers, Stdio!Write(c)
      PROVE  toServer' \in Seq(S) /\ UNCHANGED <<boot, connected, jobs, server, reader, waiter>>
  <2>1. [id |-> id[c], payload |-> asked[c]] \in S
    BY <1>3, RequestFits DEF Stdio!Write, Fits, S
  <2>2. /\ toServer' = Append(toServer, [id |-> id[c], payload |-> asked[c]])
        /\ UNCHANGED <<boot, connected, jobs, server, reader, waiter>>
    BY <1>3 DEF Stdio!Write
  <2> QED BY <1>1, <2>1, <2>2, AppendProperties
<1>4. CASE Stdio!StoreConnected
  BY <1>1, <1>4 DEF Stdio!StoreConnected, Stdio!processVars
<1>5. CASE Stdio!Notify
  <2>1. Append(toServer, Stdio!Notification) \in Seq(S)
    BY <1>1, AppendProperties
  <2> QED BY <1>1, <1>5, <2>1 DEF Stdio!Notify
<1>6. CASE Stdio!ServerReads
  <2>1. toServer # <<>> /\ toServer' = Tail(toServer)
        /\ jobs' = jobs \cup ({Head(toServer)} \ {Stdio!Notification})
        /\ UNCHANGED <<boot, connected, server, reader, waiter>>
    BY <1>6 DEF Stdio!ServerReads
  <2>2. Head(toServer) \in S /\ Tail(toServer) \in Seq(S)
    BY <1>1, <2>1, HeadTailProperties
  <2> QED BY <1>1, <2>1, <2>2 DEF S
<1>7. CASE Stdio!ServerAnswers
  <2>1. jobs' \subseteq jobs
    BY <1>7 DEF Stdio!ServerAnswers
  <2> QED BY <1>1, <1>7, <2>1 DEF Stdio!ServerAnswers
<1>8. CASE Stdio!ServerHangs \/ Stdio!ServerExits
  <2>1. /\ UNCHANGED <<boot, connected, reader, waiter>> /\ toServer' \in {toServer, <<>>}
        /\ jobs' \in {jobs, {}} /\ server' \in {"hung", "exited"}
    BY <1>8 DEF Stdio!ServerHangs, Stdio!ServerExits
  <2>2. <<>> \in Seq(S)
    OBVIOUS
  <2> QED BY <1>1, <2>1, <2>2
<1>9. CASE Stdio!Reader \/ Stdio!ProcessReaped
  BY <1>1, <1>9 DEF Stdio!Reader, Stdio!ReaderTakes, Stdio!ReaderDelivers, Stdio!ReaderEnds,
     Stdio!ReaderOverflows, Stdio!ProcessReaped, Stdio!processVars
<1> QED
  BY <1>1, <1>2, <1>3, <1>4, <1>5, <1>6, <1>7, <1>8, <1>9 DEF Stdio!Next, Stdio!Proceed

-----------------------------------------------------------------------------
(* The SSE client *)

LEMMA SSETable ==
  ASSUME TableInv, Outgoing, SSE!Next
  PROVE  TableStep
<1> USE DEF SSE!callVars, callVars, SSE!tableVars, tableVars
<1>1. ASSUME NEW c \in Callers,
             SSE!Call(c) \/ SSE!RegisterCall(c) \/ SSE!ReceiveAnswer(c) \/ SSE!ReturnCall(c)
      PROVE  TableStep
  <2>1. CallStep(c)
    BY <1>1, SameCall DEF SSE!Call, SSE!RegisterCall, SSE!ReceiveAnswer, SSE!ReturnCall, CallStep
  <2> QED BY <2>1 DEF TableStep
<1>2. ASSUME NEW c \in Callers, SSE!PostArrives(c) \/ SSE!PostReturns(c) PROVE TableStep
  <2>1. Move(c)
    BY <1>2 DEF SSE!PostArrives, SSE!PostReturns, SSE!Goto, Goto, Move
  <2> QED BY <2>1 DEF TableStep, CallStep
<1>3. ASSUME NEW c \in Callers, SSE!PostFails(c) \/ SSE!TimeOut(c) PROVE TableStep
  <2>1. Abandon(c)
    BY <1>3 DEF SSE!PostFails, SSE!TimeOut, SSE!GiveUp, SSE!Fail, SSE!Failed, SSE!Goto, Goto, Failed,
       Fail, Abandon
  <2> QED BY <2>1 DEF TableStep, CallStep
<1>4. CASE SSE!Linked \/ SSE!LinkTimesOut \/ SSE!ReaderPassesEndpoint \/ SSE!StreamEnds
  <2>1. UNCHANGED <<callVars, tableVars>> /\ incoming' \in {incoming, <<>>}
    BY <1>4 DEF SSE!Linked, SSE!LinkTimesOut, SSE!ReaderPassesEndpoint, SSE!StreamEnds
  <2> QED BY <2>1, IncomingFits
<1>5. CASE SSE!ServerAnswers
  <2>1. PICK m \in jobs : incoming' = Append(incoming, m)
    BY <1>5 DEF SSE!ServerAnswers
  <2>2. UNCHANGED <<callVars, tableVars>> /\ Fits(m)
    BY <1>5 DEF SSE!ServerAnswers, Outgoing
  <2> QED BY <2>1, <2>2, IncomingFits
<1>6. CASE SSE!ReaderTakes \/ SSE!ReaderDelivers
  <2>1. Take \/ Deliver
    BY <1>6, SameTake DEF SSE!ReaderTakes, SSE!ReaderDelivers
  <2> QED BY <2>1 DEF TableStep
<1> QED BY <1>1, <1>2, <1>3, <1>4, <1>5, <1>6 DEF SSE!Next, SSE!Proceed, SSE!Reader

\* What the server has received are requests of calls.
LEMMA SSEJobs ==
  ASSUME TableInv, Outgoing, SSE!Next
  PROVE  \A m \in jobs' : Fits(m)
<1>1. ASSUME NEW c \in Callers, SSE!PostArrives(c) PROVE \A m \in jobs' : Fits(m)
  BY <1>1, RequestFits DEF SSE!PostArrives, Outgoing
<1>2. ASSUME NEW c \in Callers,
             \/ SSE!Call(c) \/ SSE!RegisterCall(c) \/ SSE!ReceiveAnswer(c) \/ SSE!ReturnCall(c)
             \/ SSE!PostReturns(c) \/ SSE!PostFails(c) \/ SSE!TimeOut(c)
      PROVE  jobs' = jobs
  BY <1>2 DEF SSE!Call, SSE!RegisterCall, SSE!ReceiveAnswer, SSE!ReturnCall, SSE!PostReturns,
     SSE!PostFails, SSE!TimeOut
<1>3. ASSUME SSE!Linked \/ SSE!LinkTimesOut \/ SSE!Reader \/ SSE!StreamEnds PROVE jobs' = jobs
  BY <1>3 DEF SSE!Linked, SSE!LinkTimesOut, SSE!Reader, SSE!ReaderPassesEndpoint, SSE!ReaderTakes,
     SSE!ReaderDelivers, SSE!StreamEnds
<1>4. ASSUME SSE!ServerAnswers PROVE jobs' \subseteq jobs
  BY <1>4 DEF SSE!ServerAnswers
<1> QED BY <1>1, <1>2, <1>3, <1>4 DEF SSE!Next, SSE!Proceed, Outgoing

LEMMA SSEKept ==
  ASSUME TableInv, Outgoing, SSEInv, SSE!Next, OverSSE
  PROVE  SSEInv'
<1>1. /\ boot \in {"opening", "discover", "serving", "skipped"} /\ endpoint \in {"none", "queued", "taken"}
      /\ stream \in {"open", "closed"} /\ toServer' = <<>> /\ Response' = Response
      /\ (endpoint # "taken" => calls = 0 /\ boot \in {"opening", "skipped"})
  BY DEF SSEInv, OverSSE, stdioVars, Response, Ids
<1>2. jobs' \subseteq Response
  BY SSEJobs DEF Fits
<1>3. ASSUME calls' = 0 \/ endpoint' = "taken", boot' \in {"opening", "skipped"} \/ endpoint' = "taken",
             boot' \in {"opening", "discover", "serving", "skipped"},
             endpoint' \in {"none", "queued", "taken"}, stream' \in {"open", "closed"}
      PROVE  SSEInv'
  BY <1>1, <1>2, <1>3 DEF SSEInv
<1>4. ASSUME NEW c \in Callers, SSE!Call(c) PROVE SSEInv'
  BY <1>1, <1>3, <1>4 DEF SSE!Call, SSE!MayBegin
<1>5. ASSUME NEW c \in Callers,
             \/ SSE!RegisterCall(c) \/ SSE!PostArrives(c) \/ SSE!PostReturns(c) \/ SSE!PostFails(c)
             \/ SSE!ReceiveAnswer(c) \/ SSE!TimeOut(c)
      PROVE  SSEInv'
  <2>1. UNCHANGED <<calls, boot, endpoint, stream>>
    BY <1>5 DEF SSE!RegisterCall, SSE!PostArrives, SSE!PostReturns, SSE!PostFails, SSE!ReceiveAnswer,
       SSE!TimeOut, SSE!Register, SSE!Receive, SSE!GiveUp
  <2> QED BY <1>1, <1>3, <2>1
<1>6. ASSUME NEW c \in Callers, SSE!ReturnCall(c) PROVE SSEInv'
  <2>1. calls > 0
    <3>1. id[c] \in 2..nextID /\ nextID \in Nat /\ calls \in Nat
      BY <1>6 DEF SSE!ReturnCall, SSE!Clean, TableInv, CallsTypeOK, Places, InCall
    <3>2. Cardinality(Checking) \in Nat /\ nextID + Cardinality(Checking) <= calls + 1
      BY FS_CardinalityType DEF TableInv, Counting
    <3> QED BY <3>1, <3>2
  <2> QED BY <1>1, <1>3, <1>6, <2>1 DEF SSE!ReturnCall, SSE!Clean
<1>7. CASE SSE!Linked \/ SSE!LinkTimesOut \/ SSE!Reader \/ SSE!StreamEnds \/ SSE!ServerAnswers
  BY <1>1, <1>3, <1>7 DEF SSE!Linked, SSE!LinkTimesOut, SSE!Reader, SSE!ReaderPassesEndpoint,
     SSE!ReaderTakes, SSE!Take, SSE!ReaderDelivers, SSE!Deliver, SSE!StreamEnds, SSE!ServerAnswers,
     SSE!callVars
<1> QED BY <1>4, <1>5, <1>6, <1>7 DEF SSE!Next, SSE!Proceed

-----------------------------------------------------------------------------
(* The invariant is inductive *)

LEMMA InitIInv == Init => IInv
<1> SUFFICES ASSUME Init PROVE IInv
  OBVIOUS
<1>1. CallsInit
  BY SameTable DEF Init, Stdio!Init, SSE!Init
<1>2. TableInv
  BY <1>1, InitTable
<1>3. Outgoing /\ toServer = <<>> /\ jobs = {}
  BY DEF Init, Stdio!Init, SSE!Init, Outgoing
<1>4. CASE transport = "stdio"
  <2>1. {c \in Callers : pc[c] = "write"} = {}
    BY <1>1 DEF CallsInit
  <2>2. Stdio!Init
    BY <1>4 DEF Init
  <2>3. StdioInv
    <3>1. /\ boot = "started" /\ connected = FALSE /\ lock = {} /\ server = "up"
          /\ reader = "reading" /\ waiter = "waiting"
      BY <2>2 DEF Stdio!Init
    <3>2. toServer \in Seq(Response \cup {Stdio!Notification}) /\ jobs \subseteq Response
      BY <1>3
    <3> QED BY <2>1, <3>1, <3>2 DEF StdioInv
  <2> QED BY <1>2, <1>3, <1>4, <2>3 DEF IInv
<1>5. CASE transport = "sse"
  BY <1>1, <1>2, <1>3, <1>5 DEF IInv, SSEInv, Init, SSE!Init, CallsInit
<1> QED BY <1>4, <1>5 DEF Init

\* A step of either client is one of the table, or leaves it alone.
LEMMA NextIsTableStep ==
  ASSUME IInv, [Next]_vars
  PROVE  TableStep
<1>1. CASE Next
  BY <1>1, StdioTable, SSETable DEF IInv, Next
<1>2. CASE UNCHANGED vars
  BY <1>2, IncomingFits DEF IInv, vars
<1> QED BY <1>1, <1>2

LEMMA NextIInv == IInv /\ [Next]_vars => IInv'
<1> SUFFICES ASSUME IInv, [Next]_vars PROVE IInv'
  OBVIOUS
<1>1. TableStep /\ TableInv /\ Outgoing
  BY NextIsTableStep DEF IInv
<1>2. TableInv'
  BY <1>1, TableStepKeepsInv
<1>3. CASE Stdio!Next /\ OverStdio
  <2>1. StdioInv /\ transport' = transport /\ transport = "stdio"
    BY <1>3 DEF IInv, OverStdio
  <2>2. StdioInv' /\ Outgoing'
    BY <1>1, <1>3, <2>1, StdioKept, StdioOutgoing
  <2> QED BY <1>2, <2>1, <2>2 DEF IInv
<1>4. CASE SSE!Next /\ OverSSE
  <2>1. SSEInv /\ transport' = transport /\ transport = "sse" /\ toServer' = <<>>
    BY <1>4 DEF IInv, OverSSE, SSEInv, stdioVars
  <2>2. SSEInv'
    BY <1>1, <1>4, <2>1, SSEKept
  <2>3. Outgoing'
    <3>1. \A m \in jobs' : Fits(m)
      BY <1>1, <1>4, SSEJobs
    <3>2. \A m : Fits(m) => Fits(m)'
      BY <1>1, FitsKept
    <3> QED BY <2>1, <3>1, <3>2 DEF Outgoing
  <2> QED BY <1>2, <2>1, <2>2, <2>3 DEF IInv
<1>5. CASE UNCHANGED vars
  <2>1. UNCHANGED <<transport, boot, jobs, connected, lock, toServer, server, reader, waiter, endpoint,
                    stream, calls, pc, nextID>>
    BY <1>5 DEF vars, callVars, tableVars, stdioVars, sseVars
  <2>2. Outgoing'
    <3>1. \A m : Fits(m) => Fits(m)'
      BY <1>1, FitsKept
    <3> QED BY <1>1, <2>1, <3>1 DEF Outgoing, Stdio!Notification
  <2>3. StdioInv => StdioInv'
    BY <2>1 DEF StdioInv, Stdio!Notification, Response, Ids
  <2>4. SSEInv => SSEInv'
    BY <2>1 DEF SSEInv, Response, Ids
  <2> QED BY <1>2, <2>1, <2>2, <2>3, <2>4 DEF IInv
<1> QED BY <1>3, <1>4, <1>5 DEF Next

LEMMA Invariant == Spec => []IInv
BY InitIInv, NextIInv, PTL DEF Spec

-----------------------------------------------------------------------------
(* The theorems *)

\* Every variable of either client stays in its range, the ids never run out
\* before the calls do, and over stdio one goroutine at a time writes.
THEOREM TypeCorrect == Spec => []TypeOK
<1>1. IInv => TypeOK
  <2> SUFFICES ASSUME IInv PROVE TypeOK
    OBVIOUS
  <2>1. Stdio!CallsTypeOK /\ SSE!CallsTypeOK /\ Stdio!Response = Response /\ SSE!Response = Response
    BY TableHolds, SameTable DEF IInv
  <2> QED BY <2>1 DEF IInv, TypeOK, Stdio!TypeOK, SSE!TypeOK, StdioInv, SSEInv
<1> QED BY <1>1, Invariant, PTL

\* The table holds calls in progress only, no answer is dropped while its call
\* waits for it, and the reader never blocks on a full channel, however often,
\* late or out of order the server answers.
THEOREM TableHasThoseInFlight == Spec => []TableIsInFlight
<1>1. IInv => TableIsInFlight
  BY TableHolds DEF IInv
<1> QED BY <1>1, Invariant, PTL

\* Either client implements the safety part of what module Rpc promises: a call
\* returns the server's answer to that very call or an error, never the answer to
\* another one.
THEOREM CallsGetTheirOwnAnswer == Spec => OwnAnswer
<1>1. Init => PromisedCalls!Init
  <2> SUFFICES ASSUME Init PROVE PromisedCalls!Init
    OBVIOUS
  <2>1. CallsInit
    BY SameTable DEF Init, Stdio!Init, SSE!Init
  <2> QED BY <2>1 DEF CallsInit, PromisedCalls!Init, Returned, PromisedCalls!Pending, Pending
<1>2. IInv /\ [Next]_vars => [PromisedCalls!Next]_(PromisedCalls!rpcVars)
  <2> SUFFICES ASSUME IInv, [Next]_vars PROVE [PromisedCalls!Next]_(PromisedCalls!rpcVars)
    OBVIOUS
  <2>1. TableInv /\ TableStep
    BY NextIsTableStep DEF IInv
  <2> QED BY <2>1, StepsAsPromised
<1> QED BY <1>1, <1>2, Invariant, PTL DEF Spec, OwnAnswer, PromisedCalls!Safe
=============================================================================
