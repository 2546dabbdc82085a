-------------------------- MODULE DelegationProofs --------------------------
(***************************************************************************)
(* Proofs about Delegation, for any rounds, window, tools and calls per    *)
(* reply: the ranges, the prompt of a specialist, the reply that tells of  *)
(* failures, and the chunk protocol.                                       *)
(***************************************************************************)
EXTENDS Delegation, TLAPS

(* The calls of the last reply are being served. *)
Serving == pc \in {"serve", "tool"}

(* Where the handler is bounds the rounds, the pending calls and the tool. *)
Place ==
  /\ pc \in {"chat", "serve", "tool"} => iteration < Rounds[agent]
  /\ pc = "tool" => pending > 0 /\ tool \in Tools
  /\ pc \in {"idle", "direct"} => announced = 0 /\ iteration = 0
  /\ pc = "chat" => sentFrom = WindowFrom

(* Message i is the one whose calls are served: n of them are still to come. *)
ServedAt(i, n) ==
  /\ mem[i].role = "assistant"
  /\ \A j \in (i + 1)..Len(mem) : mem[j].role = "tool" /\ mem[j].owner = i
  /\ Len(mem) - i + n <= mem[i].calls

(* Each result is behind the call it answers, and no further than that       *)
(* message has calls.                                                        *)
Talk ==
  /\ pc \notin {"idle", "direct"} => Len(mem) > 0 /\ mem[1] = Question
  /\ \A j \in DOMAIN mem : mem[j].role = "tool" =>
       /\ mem[j].owner \in 1..(j - 1)
       /\ j - mem[j].owner <= mem[mem[j].owner].calls
  /\ Serving => \E i \in DOMAIN mem : ServedAt(i, pending)

(* One message per round and per call, at most. *)
Length ==
  /\ pc \in {"round", "chat", "tool"} => Len(mem) <= 1 + iteration + announced
  /\ pc = "serve" => Len(mem) <= 2 + iteration + announced

(* The failure that the error of the result tells of. *)
Kept(n) == IF failures[n] = "model" THEN n ELSE 1

(* The error of the result is the failure of the model, which is the last, or   *)
(* else the first failure; a summary is missing only after the former.  The     *)
(* reply is made once.                                                          *)
Told ==
  /\ failures = <<>> => error = 0
  /\ failures # <<>> => error = Kept(Len(failures))
  /\ pc \notin {"answer", "save", "ended"} =>
       \A i \in DOMAIN failures : failures[i] # "model"
  /\ pc \in {"answer", "save", "ended"} /\ ~ summary =>
       failures # <<>> /\ failures[Len(failures)] = "model"
  /\ reply # {} => pc \in {"save", "ended"}
  /\ pc \in {"idle", "direct"} => toolsUsed = {} /\ failures = <<>>

(* What the client has seen is where the handler is. *)
View ==
  /\ pc = "idle" => phase = "idle"
  /\ pc \in {"direct", "round", "chat", "serve", "answer"} => phase = "open"
  /\ pc = "tool" => phase = "tool"
  /\ pc \in {"save", "ended"} => phase = "closed"

IInv == TypeOK /\ Place /\ Talk /\ Length /\ Told /\ View

-----------------------------------------------------------------------------
LEMMA Sizes ==
  /\ Window \in Nat \ {0} /\ CallsPerReply \in Nat \ {0}
  /\ \A s \in Specialists : Rounds[s] \in Nat \ {0}
BY SizeAssumption, RoundsAssumption

LEMMA Messages ==
  /\ Question \in Message
  /\ \A n \in 1..CallsPerReply : [role |-> "assistant", calls |-> n, owner |-> 0] \in Message
  /\ \A n \in Nat : [role |-> "tool", calls |-> 0, owner |-> n] \in Message
BY Sizes DEF Question, Message

(* Only one message is served, so CallAt is the one that is. *)
LEMMA CallAtServed ==
  ASSUME TypeOK, NEW n \in Nat, NEW i \in DOMAIN mem, ServedAt(i, n)
  PROVE  CallAt = i
<1>1. mem \in Seq(Message) /\ Len(mem) \in Nat /\ i \in 1..Len(mem)
  BY DEF TypeOK
<1>2. \A j \in DOMAIN mem : mem[j].role = "assistant" => j <= i
  <2>1. SUFFICES ASSUME NEW j \in 1..Len(mem), mem[j].role = "assistant", ~ (j <= i)
                 PROVE  FALSE
    BY <1>1
  <2>2. j \in (i + 1)..Len(mem)
    BY <1>1, <2>1
  <2> QED BY <2>1, <2>2 DEF ServedAt
<1>3. mem[i].role = "assistant"
  BY DEF ServedAt
<1>4. \A k \in DOMAIN mem :
        mem[k].role = "assistant" /\ (\A j \in DOMAIN mem : mem[j].role = "assistant" => j <= k)
          => k = i
  BY <1>1, <1>2, <1>3
<1> QED BY <1>2, <1>3, <1>4 DEF CallAt

-----------------------------------------------------------------------------
(* Types *)

LEMMA InitIInv == Init => IInv
<1> SUFFICES ASSUME Init PROVE IInv
  OBVIOUS
<1>1. <<>> \in Seq(Message) /\ Len(<<>>) = 0
  OBVIOUS
<1>2. TypeOK
  <2>1. mem \in Seq(Message)
    BY <1>1 DEF Init
  <2>2. pending \in 0..CallsPerReply
    BY Sizes DEF Init
  <2>3. failures \in Seq(Errors) /\ error \in 0..Len(failures)
    BY <1>1 DEF Init
  <2> QED BY <2>1, <2>2, <2>3 DEF Init, TypeOK
<1>3. Place /\ Length /\ Told /\ View
  BY <1>1, <1>2 DEF Init, Place, Length, Told, View
<1>4. Talk
  BY <1>1 DEF Init, Talk, Serving
<1> QED BY <1>2, <1>3, <1>4 DEF IInv

(* A failure is put behind those before, and the error stays one of them. *)
LEMMA Failing ==
  ASSUME TypeOK, NEW kind \in Errors, NEW overwrites \in BOOLEAN, Fail(kind, overwrites)
  PROVE  /\ failures' \in Seq(Errors) /\ error' \in 0..Len(failures')
         /\ Len(failures') = Len(failures) + 1 /\ Len(failures) \in Nat
         /\ failures'[Len(failures')] = kind
         /\ \A i \in 1..Len(failures) : failures'[i] = failures[i]
BY DEF TypeOK, Fail

LEMMA TypeStep ==
  ASSUME TypeOK, Place, Talk, [Next]_vars
  PROVE  TypeOK' /\ Place'
<1> USE Sizes DEF TypeOK, Place, clientVars, loopVars, resultVars
<1>1. CASE Decide
  <2>1. PICK intent \in Intents, sure \in BOOLEAN, able \in BOOLEAN :
          IF able /\ Decision(intent, sure) # {}
          THEN agent' \in Decision(intent, sure) /\ mem' = <<Question>> /\ pc' = "round"
          ELSE pc' = "direct" /\ UNCHANGED <<agent, mem>>
    BY <1>1 DEF Decide
  <2>2. Decision(intent, sure) \subseteq Specialists
    BY DEF Decision, Specialists
  <2>3. <<Question>> \in Seq(Message)
    BY Messages
  <2>4. iteration = 0 /\ announced = 0 /\ phase' = "open"
    BY <1>1 DEF Decide
  <2>5. CASE able /\ Decision(intent, sure) # {}
    <3>1. agent' \in Specialists /\ pc' = "round" /\ mem' \in Seq(Message)
      BY <2>1, <2>2, <2>3, <2>5
    <3>2. Rounds[agent'] \in Nat \ {0}
      BY <3>1
    <3> QED BY <1>1, <2>4, <3>1, <3>2 DEF Decide
  <2>6. CASE ~ (able /\ Decision(intent, sure) # {})
    BY <1>1, <2>1, <2>4, <2>6 DEF Decide
  <2> QED BY <2>5, <2>6
<1>2. CASE Ask
  BY <1>2 DEF Ask, WindowFrom
<1>3. CASE OutOfRounds
  BY <1>3, Failing DEF OutOfRounds, Errors
<1>4. CASE CallFails
  BY <1>4, Failing DEF CallFails, Errors
<1>5. CASE ReplyText
  BY <1>5 DEF ReplyText
<1>6. CASE ReplyCalls
  BY <1>6, Messages DEF ReplyCalls
<1>7. CASE SkipCall
  BY <1>7 DEF SkipCall
<1>8. CASE StartCall
  BY <1>8 DEF StartCall
<1>9. CASE FinishCall
  <2>1. PICK i \in DOMAIN mem : ServedAt(i, pending)
    BY <1>9 DEF FinishCall, Talk, Serving
  <2>2. pending \in Nat /\ CallAt \in Nat
    BY <2>1, CallAtServed
  <2>3. mem' \in Seq(Message)
    BY <1>9, <2>2, Messages DEF FinishCall
  <2>4. pending' \in 0..CallsPerReply /\ pc' = "serve"
    BY <1>9, <2>2 DEF FinishCall
  <2>5. toolsUsed' \subseteq Tools /\ failures' \in Seq(Errors) /\ error' \in 0..Len(failures')
    BY <1>9, Failing DEF FinishCall, Errors
  <2> QED BY <1>9, <2>3, <2>4, <2>5 DEF FinishCall
<1>10. CASE NextRound
  BY <1>10 DEF NextRound
<1>11. CASE Respond
  BY <1>11 DEF Respond, Synthesis, Part, Parts
<1>12. CASE Save
  BY <1>12 DEF Save
<1>13. CASE UNCHANGED vars
  BY <1>13 DEF vars, WindowFrom
<1> QED BY <1>1, <1>2, <1>3, <1>4, <1>5, <1>6, <1>7, <1>8, <1>9, <1>10, <1>11, <1>12, <1>13
        DEF Next, Handle, Return

-----------------------------------------------------------------------------
(* The memory of the specialist *)

(* Nothing but Decide, ReplyCalls and FinishCall writes the memory. *)
LEMMA MemStays ==
  ASSUME [Next]_vars, mem' # mem
  PROVE  Decide \/ ReplyCalls \/ FinishCall
BY DEF Next, Handle, Return, vars, Ask, OutOfRounds, CallFails, ReplyText, SkipCall, StartCall, NextRound,
       Respond, Save, loopVars

LEMMA MessageCalls ==
  ASSUME NEW m \in Message
  PROVE  m.calls \in Nat
BY DEF Message

(* A call is served only where one was served before, or after a new reply. *)
LEMMA ServingStays ==
  ASSUME [Next]_vars, Serving'
  PROVE  \/ ReplyCalls \/ FinishCall
         \/ Serving /\ mem' = mem /\ (pending' = pending \/ SkipCall)
BY DEF Next, Handle, Return, vars, Decide, Ask, OutOfRounds, CallFails, ReplyText, SkipCall, StartCall,
       NextRound, Respond, Save, loopVars, Serving

(* What is left over when one call has been served or skipped. *)
LEMMA TalkStep ==
  ASSUME TypeOK, Place, Talk, [Next]_vars
  PROVE  Talk'
<1> USE Sizes
<1>0. mem \in Seq(Message) /\ Len(mem) \in Nat /\ pending \in Nat
  BY DEF TypeOK
<1>1. CASE Decide
  <2>1. (mem' = mem /\ pc' = "direct") \/ mem' = <<Question>>
    BY <1>1 DEF Decide
  <2>2. pc = "idle" /\ ~ Serving'
    BY <1>1 DEF Decide, Serving
  <2>3. CASE mem' = mem /\ pc' = "direct"
    BY <2>2, <2>3 DEF Talk
  <2>4. CASE mem' = <<Question>>
    <3>1. DOMAIN mem' = {1} /\ Len(mem') = 1 /\ mem'[1] = Question /\ Question.role # "tool"
      BY <2>4 DEF Question
    <3> QED BY <2>2, <3>1 DEF Talk
  <2> QED BY <2>1, <2>3, <2>4
<1>2. CASE ReplyCalls
  <2>1. PICK n \in 1..CallsPerReply :
          /\ mem' = Append(mem, [role |-> "assistant", calls |-> n, owner |-> 0])
          /\ pending' = n
    BY <1>2 DEF ReplyCalls
  <2>k. PICK k \in Nat : k = Len(mem) + 1
    BY <1>0
  <2>2. /\ Len(mem') = k /\ k \in Nat
        /\ mem'[k] = [role |-> "assistant", calls |-> n, owner |-> 0]
        /\ \A j \in DOMAIN mem : mem'[j] = mem[j]
    BY <1>0, <2>1, <2>k
  <2>3. pc = "chat" /\ pc' = "serve"
    BY <1>2 DEF ReplyCalls
  <2>4. Len(mem) > 0 /\ mem[1] = Question
    BY <2>3 DEF Talk
  <2>5. mem'[1] = Question /\ Len(mem') > 0
    <3>1. 1 \in DOMAIN mem
      BY <1>0, <2>4
    <3> QED BY <1>0, <2>2, <2>4, <2>k, <3>1
  <2>6. ASSUME NEW j \in DOMAIN mem', mem'[j].role = "tool"
        PROVE  mem'[j].owner \in 1..(j - 1) /\ j - mem'[j].owner <= mem'[mem'[j].owner].calls
    <3>1. j \in DOMAIN mem
      BY <1>0, <2>2, <2>6, <2>k
    <3>2. mem[j].owner \in 1..(j - 1) /\ j - mem[j].owner <= mem[mem[j].owner].calls
      BY <2>2, <2>6, <3>1 DEF Talk
    <3>3. mem[j].owner \in DOMAIN mem
      BY <1>0, <3>1, <3>2
    <3> QED BY <2>2, <3>1, <3>2, <3>3
  <2>7. ServedAt(k, pending)'
    BY <1>0, <2>1, <2>2, <2>k DEF ServedAt
  <2>8. k \in DOMAIN mem'
    BY <1>0, <2>2, <2>k
  <2> QED BY <2>5, <2>6, <2>7, <2>8 DEF Talk
<1>3. CASE FinishCall
  <2>1. pc = "tool" /\ pending > 0 /\ pending' = pending - 1
    BY <1>3 DEF FinishCall, Place
  <2>2. PICK i \in DOMAIN mem : ServedAt(i, pending)
    BY <2>1 DEF Talk, Serving
  <2>3. mem' = Append(mem, [role |-> "tool", calls |-> 0, owner |-> i])
    BY <1>0, <1>3, <2>2, CallAtServed DEF FinishCall
  <2>k. PICK k \in Nat : k = Len(mem) + 1
    BY <1>0
  <2>4. /\ Len(mem') = k /\ k \in Nat /\ i \in 1..Len(mem)
        /\ mem'[k] = [role |-> "tool", calls |-> 0, owner |-> i]
        /\ \A j \in DOMAIN mem : mem'[j] = mem[j]
    BY <1>0, <2>3, <2>k
  <2>5. mem[1] = Question /\ mem'[1] = Question /\ Len(mem') > 0
    <3>1. 1 \in DOMAIN mem /\ mem[1] = Question
      BY <1>0, <2>1 DEF Talk
    <3> QED BY <1>0, <2>4, <2>k, <3>1
  <2>6. mem[i] \in Message /\ mem[i].calls \in Nat /\ mem[i].role = "assistant"
    BY <1>0, <2>2, <2>4, MessageCalls DEF ServedAt
  <2>7. k - i <= mem[i].calls /\ Len(mem) - i + pending <= mem[i].calls
    BY <1>0, <2>1, <2>2, <2>4, <2>6, <2>k DEF ServedAt
  <2>8. ASSUME NEW j \in DOMAIN mem', mem'[j].role = "tool"
        PROVE  mem'[j].owner \in 1..(j - 1) /\ j - mem'[j].owner <= mem'[mem'[j].owner].calls
    <3>1. CASE j = k
      BY <1>0, <2>4, <2>7, <2>k, <3>1
    <3>2. CASE j # k
      <4>1. j \in DOMAIN mem
        BY <1>0, <2>4, <2>k, <3>2
      <4>2. mem[j].owner \in 1..(j - 1) /\ j - mem[j].owner <= mem[mem[j].owner].calls
        BY <2>4, <2>8, <4>1 DEF Talk
      <4>3. mem[j].owner \in DOMAIN mem
        BY <1>0, <4>1, <4>2
      <4> QED BY <2>4, <4>1, <4>2, <4>3
    <3> QED BY <3>1, <3>2
  <2>9. ServedAt(i, pending)'
    <3>1. mem'[i].role = "assistant" /\ Len(mem') - i + pending' <= mem'[i].calls
      BY <1>0, <2>1, <2>4, <2>6, <2>7, <2>k
    <3>2. ASSUME NEW j \in (i + 1)..Len(mem')
          PROVE  mem'[j].role = "tool" /\ mem'[j].owner = i
      <4>1. CASE j = k
        BY <2>4, <4>1
      <4>2. CASE j # k
        <5>1. j \in (i + 1)..Len(mem) /\ mem'[j] = mem[j]
          BY <1>0, <2>4, <2>k, <4>2
        <5> QED BY <2>2, <5>1 DEF ServedAt
      <4> QED BY <4>1, <4>2
    <3> QED BY <3>1, <3>2 DEF ServedAt
  <2>10. i \in DOMAIN mem'
    BY <1>0, <2>3
  <2> QED BY <2>5, <2>8, <2>9, <2>10 DEF Talk
<1>4. CASE ~ Decide /\ ~ ReplyCalls /\ ~ FinishCall
  <2>1. mem' = mem
    BY <1>4, MemStays
  <2>2. pc' \notin {"idle", "direct"} => pc \notin {"idle", "direct"}
    BY <1>4 DEF Next, Handle, Return, vars, Ask, OutOfRounds, CallFails, ReplyText, SkipCall, StartCall,
                NextRound, Respond, Save
  <2>3. ASSUME Serving' PROVE \E i \in DOMAIN mem' : ServedAt(i, pending)'
    <3>1. Serving /\ (pending' = pending \/ pending' = pending - 1)
      BY <1>4, <2>3, ServingStays DEF SkipCall
    <3>2. PICK i \in DOMAIN mem : ServedAt(i, pending)
      BY <3>1 DEF Talk
    <3>3. mem[i] \in Message /\ mem[i].calls \in Nat /\ i \in 1..Len(mem)
      BY <1>0, <3>2, MessageCalls
    <3>4. ServedAt(i, pending)'
      BY <1>0, <2>1, <3>1, <3>2, <3>3 DEF ServedAt
    <3> QED BY <2>1, <3>2, <3>4
  <2> QED BY <2>1, <2>2, <2>3 DEF Talk
<1> QED BY <1>1, <1>2, <1>3, <1>4

LEMMA LengthStep ==
  ASSUME TypeOK, Place, Length, [Next]_vars
  PROVE  Length'
<1> USE DEF Length, clientVars, loopVars, resultVars
<1>0. mem \in Seq(Message) /\ Len(mem) \in Nat /\ iteration \in Nat /\ announced \in Nat
  BY DEF TypeOK
<1>1. CASE Decide
  <2>1. iteration = 0 /\ announced = 0
    BY <1>1 DEF Decide, Place
  <2>2. pc' = "direct" \/ Len(mem') = 1
    <3>1. pc' = "direct" \/ mem' = <<Question>>
      BY <1>1 DEF Decide
    <3>2. mem' = <<Question>> => Len(mem') = 1
      OBVIOUS
    <3> QED BY <3>1, <3>2
  <2>3. pc' \in {"direct", "round"}
    BY <1>1 DEF Decide
  <2>4. iteration' = 0 /\ announced' = 0
    BY <1>1, <2>1 DEF Decide
  <2>5. Len(mem') = 1 => Len(mem') <= 1 + iteration' + announced'
    BY <2>4
  <2>6. pc' # "serve" /\ pc' # "chat" /\ pc' # "tool"
    BY <2>3
  <2> QED BY <2>2, <2>5, <2>6
<1>2. CASE ReplyCalls
  BY <1>0, <1>2 DEF ReplyCalls
<1>3. CASE FinishCall
  BY <1>0, <1>3 DEF FinishCall
<1>4. CASE SkipCall
  BY <1>0, <1>4 DEF SkipCall
<1>5. CASE StartCall
  BY <1>0, <1>5 DEF StartCall
<1>6. CASE NextRound
  BY <1>0, <1>6 DEF NextRound
<1>7. CASE Ask \/ OutOfRounds \/ CallFails \/ ReplyText \/ Respond \/ Save
  BY <1>7 DEF Ask, OutOfRounds, CallFails, ReplyText, Respond, Save
<1>8. CASE UNCHANGED vars
  BY <1>8 DEF vars
<1> QED BY <1>1, <1>2, <1>3, <1>4, <1>5, <1>6, <1>7, <1>8 DEF Next, Handle, Return

(* A failure that is not the model's leaves the error where it is, or begins it. *)
LEMMA ToldAfter ==
  ASSUME TypeOK, Told, pc \notin {"answer", "save", "ended"},
         NEW kind \in Errors, Fail(kind, kind = "model")
  PROVE  /\ failures' # <<>> /\ error' = Kept(Len(failures))'
         /\ failures'[Len(failures')] = kind
         /\ kind # "model" => \A i \in DOMAIN failures' : failures'[i] # "model"
<1>1. /\ failures' \in Seq(Errors) /\ Len(failures') = Len(failures) + 1
      /\ Len(failures) \in Nat /\ failures'[Len(failures')] = kind
      /\ \A i \in 1..Len(failures) : failures'[i] = failures[i]
  BY Failing
<1>2. failures' # <<>> /\ DOMAIN failures' = 1..(Len(failures) + 1)
  BY <1>1
<1>3. \A i \in DOMAIN failures : failures[i] # "model"
  BY DEF Told
<1>4. failures \in Seq(Errors) /\ DOMAIN failures = 1..Len(failures)
  BY DEF TypeOK
<1>5. kind # "model" => \A i \in DOMAIN failures' : failures'[i] # "model"
  BY <1>1, <1>2, <1>3, <1>4
<1>6. error = IF failures = <<>> THEN 0 ELSE 1
  <2>1. CASE failures = <<>>
    BY <2>1 DEF Told
  <2>2. CASE failures # <<>>
    <3>1. Len(failures) \in DOMAIN failures
      BY <1>4, <2>2
    <3> QED BY <1>3, <2>2, <3>1 DEF Told, Kept
  <2> QED BY <2>1, <2>2
<1>7. error' = IF kind = "model" THEN Len(failures') ELSE 1
  <2>1. failures = <<>> => Len(failures') = 1
    BY <1>1
  <2> QED BY <1>6, <2>1 DEF Fail
<1>8. error' = Kept(Len(failures))'
  BY <1>1, <1>7 DEF Kept
<1> QED BY <1>1, <1>2, <1>5, <1>8

LEMMA ToldStep ==
  ASSUME TypeOK, Told, [Next]_vars
  PROVE  Told'
<1> USE DEF clientVars, loopVars, resultVars
<1>1. CASE Decide
  BY <1>1 DEF Decide, Told, Kept
<1>2. CASE Ask \/ ReplyText \/ ReplyCalls \/ SkipCall \/ StartCall \/ NextRound
  BY <1>2 DEF Ask, ReplyText, ReplyCalls, SkipCall, StartCall, NextRound, Told, Kept
<1>3. CASE OutOfRounds
  <2>1. pc = "round" /\ pc' = "answer" /\ summary' = TRUE /\ reply' = reply
    BY <1>3 DEF OutOfRounds
  <2>2. failures' # <<>> /\ error' = Kept(Len(failures))'
    BY <1>3, <2>1, ToldAfter DEF OutOfRounds, Errors
  <2>3. reply = {}
    BY <2>1 DEF Told
  <2> QED BY <2>1, <2>2, <2>3 DEF Told
<1>4. CASE CallFails
  <2>1. pc = "chat" /\ pc' = "answer" /\ reply' = reply
    BY <1>4 DEF CallFails
  <2>2. /\ failures' # <<>> /\ error' = Kept(Len(failures))'
        /\ failures'[Len(failures')] = "model"
    BY <1>4, <2>1, ToldAfter DEF CallFails, Errors
  <2>3. reply = {}
    BY <2>1 DEF Told
  <2> QED BY <2>1, <2>2, <2>3 DEF Told
<1>5. CASE FinishCall
  <2>1. pc = "tool" /\ pc' = "serve" /\ reply' = reply
    BY <1>5 DEF FinishCall
  <2>2. reply = {}
    BY <2>1 DEF Told
  <2>3. CASE UNCHANGED <<error, failures>>
    BY <2>1, <2>2, <2>3 DEF Told, Kept
  <2>4. CASE Fail("tool", FALSE)
    <3>1. /\ failures' # <<>> /\ error' = Kept(Len(failures))'
          /\ \A i \in DOMAIN failures' : failures'[i] # "model"
      BY <2>1, <2>4, ToldAfter DEF Errors
    <3> QED BY <2>1, <2>2, <3>1 DEF Told
  <2> QED BY <1>5, <2>3, <2>4 DEF FinishCall
<1>6. CASE Respond \/ Save
  BY <1>6 DEF Respond, Save, Told, Kept
<1>7. CASE UNCHANGED vars
  BY <1>7 DEF vars, Told, Kept
<1> QED BY <1>1, <1>2, <1>3, <1>4, <1>5, <1>6, <1>7 DEF Next, Handle, Return

LEMMA ViewStep ==
  ASSUME View, [Next]_vars
  PROVE  View'
<1> USE DEF View, clientVars, loopVars, resultVars
<1>1. CASE Decide
  BY <1>1 DEF Decide
<1>2. CASE Ask \/ OutOfRounds \/ CallFails \/ ReplyText \/ ReplyCalls
  BY <1>2 DEF Ask, OutOfRounds, CallFails, ReplyText, ReplyCalls
<1>3. CASE SkipCall \/ StartCall \/ FinishCall \/ NextRound
  BY <1>3 DEF SkipCall, StartCall, FinishCall, NextRound
<1>4. CASE Respond \/ Save
  BY <1>4 DEF Respond, Save
<1>5. CASE UNCHANGED vars
  BY <1>5 DEF vars
<1> QED BY <1>1, <1>2, <1>3, <1>4, <1>5 DEF Next, Handle, Return

LEMMA Invariance == Spec => []IInv
<1>1. IInv /\ [Next]_vars => IInv'
  BY TypeStep, TalkStep, LengthStep, ToldStep, ViewStep DEF IInv
<1> QED BY InitIInv, <1>1, PTL DEF Spec

-----------------------------------------------------------------------------
(* What is proved *)

(* Every variable stays in its range, whatever the constants: a specialist     *)
(* makes no more model calls than its MaxIterations.                           *)
THEOREM TypeCorrect == Spec => []TypeOK
<1>1. IInv => TypeOK
  BY DEF IInv
<1> QED BY Invariance, <1>1, PTL

(* A request that the coordinator does not answer reaches the direct path      *)
(* with nothing done: no call announced, no tool used, nothing failed.         *)
THEOREM HandsBack == Spec => []HandsBackUntouched
<1>1. IInv => HandsBackUntouched
  BY DEF IInv, View, Told, Place, HandsBackUntouched
<1> QED BY Invariance, <1>1, PTL

(* The prompt is whole as long as the rounds fit into the window. *)
THEOREM PromptIsWhole == Spec => []PromptWhole
<1>1. ASSUME IInv, pc = "chat", announced + iteration < Window
      PROVE  /\ mem[sentFrom] = Question
             /\ \A j \in sentFrom..Len(mem) : mem[j].role = "tool" =>
                  /\ mem[j].owner \in sentFrom..(j - 1)
                  /\ j - mem[j].owner <= mem[mem[j].owner].calls
  <2>1. Len(mem) \in Nat /\ iteration \in Nat /\ announced \in Nat
    BY <1>1 DEF IInv, TypeOK
  <2>2. Len(mem) <= Window
    BY <1>1, <2>1, Sizes DEF IInv, Length
  <2>3. sentFrom = 1
    BY <1>1, <2>1, <2>2, Sizes DEF IInv, Place, WindowFrom
  <2> QED BY <1>1, <2>1, <2>3 DEF IInv, Talk
<1>2. IInv => PromptWhole
  BY <1>1 DEF PromptWhole
<1> QED BY Invariance, <1>2, PTL

-----------------------------------------------------------------------------
LEMMA HonestStep ==
  ASSUME Told, TypeOK, HonestReply, [Next]_vars
  PROVE  HonestReply'
<1>1. CASE Respond
  <2>1. pc = "answer" /\ reply' = Synthesis
    BY <1>1 DEF Respond
  <2>2. UNCHANGED <<agent, toolsUsed, error, summary, failures>>
    BY <1>1 DEF Respond, resultVars
  <2>3. agent \in {"dashboard", "investigation"}
    BY <2>1 DEF TypeOK, Specialists
  <2>4. /\ failures # <<>> => error = Kept(Len(failures))
        /\ ~ summary => failures # <<>> /\ failures[Len(failures)] = "model"
    BY <2>1 DEF Told
  <2>5. failures # <<>> <=> error # 0
    <3>1. failures # <<>> => Len(failures) \in Nat \ {0}
      BY DEF TypeOK
    <3> QED BY <2>4, <3>1 DEF Told, Kept
  <2>6. failures # <<>> =>
          error = IF failures[Len(failures)] = "model" THEN Len(failures) ELSE 1
    BY <2>4 DEF Kept
  <2>7. /\ failures # <<>> /\ agent = "investigation" => "note" \in reply'
        /\ "summary" \notin reply' => ~ summary
        /\ ~ summary /\ failures # <<>> => reply' \cap {"note", "failure"} # {}
        /\ reply' \cap {"note", "failure"} # {} => failures # <<>>
        /\ "evidence" \in reply' => toolsUsed # {}
    <3>1. CASE agent = "investigation"
      <4> DEFINE found == Part("summary", summary) \cup Part("evidence", toolsUsed # {})
                          \cup Part("note", error # 0)
      <4>1. reply' = IF found = {} THEN {"nothing"} ELSE found
        BY <2>1, <3>1 DEF Synthesis
      <4>2. /\ "summary" \in found <=> summary
            /\ "evidence" \in found <=> toolsUsed # {}
            /\ "note" \in found <=> error # 0
            /\ "failure" \notin found
        BY DEF Part
      <4> HIDE DEF found
      <4>3. reply' = found
        BY <2>4, <2>5, <4>1, <4>2
      <4> QED BY <2>5, <4>2, <4>3
    <3>2. CASE agent = "dashboard"
      <4>1. reply' = IF summary THEN {"summary"} ELSE Part("failure", error # 0)
        BY <2>1, <3>2 DEF Synthesis
      <4> QED BY <2>5, <3>2, <4>1 DEF Part
    <3> QED BY <2>3, <3>1, <3>2
  <2> QED BY <2>2, <2>4, <2>6, <2>7 DEF HonestReply
<1>2. CASE ~ Respond
  <2>1. reply' = reply
    BY <1>2 DEF Next, Handle, Return, vars, Decide, Ask, OutOfRounds, CallFails, ReplyText,
                ReplyCalls, SkipCall, StartCall, FinishCall, NextRound, Save
  <2>2. reply # {} => UNCHANGED <<agent, toolsUsed, failures, error>>
    BY <1>2 DEF Told, Next, Handle, Return, vars, Decide, Ask, OutOfRounds, CallFails,
                ReplyText, ReplyCalls, SkipCall, StartCall, FinishCall, NextRound, Save,
                resultVars
  <2> QED BY <2>1, <2>2 DEF HonestReply
<1> QED BY <1>1, <1>2

(* The note of an investigation is of the model's failure, or else of the first *)
(* one; a reply without a summary gives the model's failure as its reason, and  *)
(* none tells of a failure that was not.                                        *)
THEOREM ReplyIsHonest == Spec => []HonestReply
<1>1. Init => HonestReply
  BY DEF Init, HonestReply
<1>2. IInv /\ HonestReply /\ [Next]_vars => HonestReply'
  BY HonestStep DEF IInv
<1> QED BY Invariance, <1>1, <1>2, PTL DEF Spec

-----------------------------------------------------------------------------
(* The chunk protocol *)

(* Calls announced so far and still to come, against the rounds. *)
Calls ==
  /\ pc \in {"idle", "direct", "round", "chat"} => announced <= CallsPerReply * iteration
  /\ pc = "serve" => announced + pending <= CallsPerReply * iteration + CallsPerReply
  /\ pc = "tool" => announced + pending <= CallsPerReply * iteration + CallsPerReply + 1

LEMMA Products ==
  ASSUME NEW i \in Nat
  PROVE  /\ CallsPerReply * i \in Nat
         /\ CallsPerReply * (i + 1) = CallsPerReply * i + CallsPerReply
         /\ CallsPerReply * 0 = 0
BY Sizes

LEMMA ProductsGrow ==
  ASSUME NEW i \in Nat, NEW n \in Nat, i < n
  PROVE  CallsPerReply * i + CallsPerReply <= CallsPerReply * n
<1>1. PICK d \in Nat : n = i + 1 + d
  BY n - i - 1 \in Nat
<1>2. CallsPerReply * n = CallsPerReply * i + CallsPerReply + CallsPerReply * d
  BY <1>1, Sizes
<1> QED BY <1>2, Sizes, Products

LEMMA SumGrows ==
  ASSUME NEW a \in Nat, NEW b \in Nat, NEW c \in Nat, NEW d \in Nat, a <= c, b <= d
  PROVE  a + b <= c + d
OBVIOUS

LEMMA CallsStep ==
  ASSUME TypeOK, Place, Calls, [Next]_vars
  PROVE  Calls'
<1> USE DEF Calls, clientVars, loopVars, resultVars
<1>0. iteration \in Nat /\ announced \in Nat /\ pending \in Nat
  BY DEF TypeOK
<1> DEFINE product == CallsPerReply * iteration
<1>p. product \in Nat /\ CallsPerReply \in Nat
  BY <1>0, Products, Sizes
<1>1. CASE Decide
  <2>1. pc' \in {"direct", "round"} /\ announced' = announced /\ iteration' = iteration
    BY <1>1 DEF Decide
  <2>2. pc = "idle"
    BY <1>1 DEF Decide
  <2> QED BY <2>1, <2>2
<1>2. CASE ReplyCalls
  <2>1. pc = "chat" /\ pc' = "serve" /\ announced' = announced /\ iteration' = iteration
    BY <1>2 DEF ReplyCalls
  <2>2. pending' \in Nat /\ pending' <= CallsPerReply
    BY <1>2, <1>p DEF ReplyCalls
  <2>3. announced <= product
    BY <2>1
  <2>4. announced + pending' <= product + CallsPerReply
    BY <1>0, <1>p, <2>2, <2>3, SumGrows
  <2> QED BY <2>1, <2>4
<1>3. CASE FinishCall \/ SkipCall \/ StartCall
  <2>1. /\ iteration' = iteration
        /\ \/ pc = "serve" /\ pc' = "serve" /\ announced' = announced /\ pending' = pending - 1
           \/ pc = "serve" /\ pc' = "tool" /\ announced' = announced + 1 /\ pending' = pending
           \/ pc = "tool" /\ pc' = "serve" /\ announced' = announced /\ pending' = pending - 1
    BY <1>3 DEF FinishCall, SkipCall, StartCall
  <2>2. /\ pc = "serve" => announced + pending <= product + CallsPerReply
        /\ pc = "tool" => announced + pending <= product + CallsPerReply + 1
    OBVIOUS
  <2>3. /\ pc' = "serve" => announced' + pending' <= product + CallsPerReply
        /\ pc' = "tool" => announced' + pending' <= product + CallsPerReply + 1
    <3> HIDE DEF product
    <3> QED BY <1>0, <1>p, <2>1, <2>2
  <2> QED BY <2>1, <2>3
<1>4. CASE NextRound
  <2>1. /\ pc = "serve" /\ pc' = "round" /\ pending = 0 /\ announced' = announced
        /\ iteration' = iteration + 1
    BY <1>4 DEF NextRound
  <2>2. announced + pending <= product + CallsPerReply
    BY <2>1
  <2>3. announced <= product + CallsPerReply
    BY <1>0, <2>1, <2>2
  <2>4. CallsPerReply * iteration' = product + CallsPerReply
    BY <1>0, <2>1, Products
  <2> QED BY <2>1, <2>3, <2>4
<1>5. CASE Ask \/ OutOfRounds \/ CallFails \/ ReplyText \/ Respond \/ Save
  BY <1>5 DEF Ask, OutOfRounds, CallFails, ReplyText, Respond, Save
<1>6. CASE UNCHANGED vars
  BY <1>6 DEF vars
<1> QED BY <1>1, <1>2, <1>3, <1>4, <1>5, <1>6 DEF Next, Handle, Return

(* The calls of a served reply fit into what ChatStream allows. *)
LEMMA CallsFit ==
  ASSUME TypeOK, Place, Calls, pc = "serve", pending > 0
  PROVE  announced < CallsPerReply * (Rounds["dashboard"] + Rounds["investigation"])
<1> DEFINE all == Rounds["dashboard"] + Rounds["investigation"]
<1>1. iteration \in Nat /\ announced \in Nat /\ pending \in Nat
  BY DEF TypeOK
<1>2. agent \in {"dashboard", "investigation"} /\ iteration < Rounds[agent]
  BY DEF TypeOK, Place, Specialists
<1>3. Rounds["dashboard"] \in Nat /\ Rounds["investigation"] \in Nat
  BY Sizes DEF Specialists
<1>4. all \in Nat /\ iteration < all
  BY <1>1, <1>2, <1>3
<1> DEFINE before == CallsPerReply * iteration + CallsPerReply
<1> DEFINE limit == CallsPerReply * all
<1> HIDE DEF all
<1>5. before <= limit
  BY <1>1, <1>4, ProductsGrow
<1>6. announced + pending <= before
  BY DEF Calls
<1>7. before \in Nat /\ limit \in Nat
  BY <1>1, <1>4, Products, Sizes
<1>8. announced < limit
  <2> HIDE DEF before, limit
  <2> QED BY <1>1, <1>5, <1>6, <1>7
<1> QED BY <1>8 DEF all

LEMMA StreamStep ==
  ASSUME TypeOK, Place, View, Calls, [Next]_vars
  PROVE  [CS!Next]_(CS!csVars)
<1> USE DEF View, CS!Next, CS!csVars, clientVars, loopVars, resultVars
<1>1. CASE Decide
  BY <1>1 DEF Decide, CS!Start
<1>2. CASE StartCall
  <2>1. pc = "serve" /\ pending > 0 /\ phase' = "tool" /\ announced' = announced + 1
    BY <1>2 DEF StartCall
  <2>2. phase = "open"
    BY <2>1
  <2>3. announced < CallsPerReply * (Rounds["dashboard"] + Rounds["investigation"])
    BY <2>1, CallsFit
  <2>4. CS!Announce
    BY <2>1, <2>2, <2>3 DEF CS!Announce
  <2> QED BY <2>4
<1>3. CASE FinishCall
  BY <1>3 DEF FinishCall, CS!Report
<1>4. CASE Respond
  BY <1>4 DEF Respond, CS!Close
<1>5. CASE Ask \/ OutOfRounds \/ CallFails \/ ReplyText \/ ReplyCalls
  BY <1>5 DEF Ask, OutOfRounds, CallFails, ReplyText, ReplyCalls
<1>6. CASE SkipCall \/ NextRound \/ Save
  BY <1>6 DEF SkipCall, NextRound, Save
<1>7. CASE UNCHANGED vars
  BY <1>7 DEF vars
<1> QED BY <1>1, <1>2, <1>3, <1>4, <1>5, <1>6, <1>7 DEF Next, Handle, Return

(* A delegated response keeps the safety part of ChatStream: chunks in their   *)
(* order, and nothing after the response is closed.                            *)
THEOREM DelegationKeepsStream == Spec => KeepsStream
<1>1. Init => Calls /\ CS!Init
  BY Products DEF Init, Calls, CS!Init
<1>2. IInv /\ Calls /\ [Next]_vars => Calls'
  BY CallsStep DEF IInv
<1>3. IInv /\ Calls /\ [Next]_vars => [CS!Next]_(CS!csVars)
  BY StreamStep DEF IInv
<1> QED BY Invariance, <1>1, <1>2, <1>3, PTL DEF Spec, KeepsStream, CS!Safe
=============================================================================
