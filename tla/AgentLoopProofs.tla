-------------------------- MODULE AgentLoopProofs --------------------------
(***************************************************************************)
(* Proofs about AgentLoop, for every budget, window, history length and    *)
(* message size: type correctness, the bound on the model and tool calls   *)
(* of one request, the completion budget, and what the window keeps.       *)
(***************************************************************************)
EXTENDS AgentLoop, WellFoundedInduction, TLAPS

(* A non-empty set of naturals with an upper bound has a maximum. *)
LEMMA MaxOfInterval ==
  ASSUME NEW a \in Nat, NEW b \in Nat, NEW S \in SUBSET (a..b), S # {}
  PROVE  Max(S) \in S
<1> DEFINE T == {n \in Nat : b - n \in S}
<1>1. T # {} /\ T \subseteq Nat
  <2>1. PICK x \in S : TRUE
    OBVIOUS
  <2>2. b - x \in T
    BY <2>1
  <2> QED BY <2>2
<1>2. \E x \in T : \A y \in T : ~ (<<y, x>> \in OpToRel(<, Nat))
  <2> HIDE DEF T
  <2> QED BY <1>1, WFMin, NatLessThanWellFounded
<1>3. PICK n \in T : \A y \in T : ~ (y < n)
  BY <1>1, <1>2 DEF OpToRel
<1>4. b - n \in S /\ \A y \in S : y <= b - n
  <2>1. SUFFICES ASSUME NEW y \in S PROVE y <= b - n
    OBVIOUS
  <2>2. b - y \in T
    BY b - (b - y) = y
  <2> QED BY <2>2, <1>3
<1> QED BY <1>4 DEF Max

(* The fitted messages are a suffix of the window. *)
LEMMA KeptInWindow ==
  ASSUME TypeOK
  PROVE  /\ WindowFrom \in Nat \ {0} /\ WindowFrom <= Len(mem) + 1
         /\ KeptFrom \in WindowFrom..(Len(mem) + 1)
<1>1. Len(mem) \in Nat
  BY DEF TypeOK
<1>2. WindowFrom \in Nat \ {0} /\ WindowFrom <= Len(mem) + 1
  BY <1>1, BudgetAssumption DEF WindowFrom
<1> DEFINE fitting == {s \in WindowFrom..Len(mem) : PromptTokens(s) <= MaxPromptTokens}
<1>3. fitting # {} => Max(fitting) \in fitting
  <2>1. fitting \in SUBSET (WindowFrom..Len(mem))
    OBVIOUS
  <2> HIDE DEF fitting
  <2> QED BY <1>1, <1>2, <2>1, MaxOfInterval
<1>4. fitting # {} => Max(fitting) \in WindowFrom..Len(mem)
  BY <1>3
<1>5. \/ KeptFrom = WindowFrom
      \/ fitting # {} /\ KeptFrom = Max(fitting)
      \/ KeptFrom = Len(mem) + 1
  <2>1. CASE PromptTokens(WindowFrom) <= MaxPromptTokens
     BY <2>1 DEF KeptFrom
  <2> QED BY DEF KeptFrom
<1> HIDE DEF fitting
<1> QED BY <1>1, <1>2, <1>4, <1>5

-----------------------------------------------------------------------------
(* A model call is granted at most the whole completion budget. *)
LEMMA RemainingType ==
  ASSUME TypeOK
  PROVE  Remaining \in 0..MaxCompletionTokens
BY BudgetAssumption DEF Remaining, TypeOK

(* Every step keeps the types, given where the loop counters can be. *)
LEMMA TypeStep ==
  ASSUME TypeOK, Progress, [Next]_vars
  PROVE  TypeOK'
<1> USE DEF TypeOK, CloseStream
<1>1. CASE Refuse
  BY <1>1 DEF Refuse, budgetVars, memVars, clientVars
<1>2. CASE Accept
  <2>1. PICK h \in HistoryLengths, s \in SystemSizes, size \in Sizes :
           /\ system' = s /\ asked' = h + 1
           /\ mem' = [i \in 1..(h + 1) |->
                       [role |-> IF i > h THEN "user" ELSE "history",
                        size |-> size, calls |-> 0, owner |-> 0]]
    BY <1>2 DEF Accept
  <2>2. mem' \in Seq(Message)
    BY <2>1, InputAssumption DEF Message
  <2>3. system' \in Nat /\ asked' \in Nat
    BY <2>1, InputAssumption
  <2> QED BY <1>2, <2>2, <2>3 DEF Accept, budgetVars, clientVars
<1>3. CASE FinishAlone
  BY <1>3 DEF FinishAlone, TurnReason, Notice, Reasons, Fragments, memVars
<1>4. CASE FinishStreaming
  BY <1>4, KeptInWindow, RemainingType
     DEF FinishStreaming, Ask, TurnReason, Notice, Reasons, Fragments
<1>5. CASE AskModel
  BY <1>5, KeptInWindow, RemainingType DEF AskModel, Ask, clientVars
<1>6. CASE CallFails
  BY <1>6 DEF CallFails, budgetVars, memVars, clientVars
<1>7. CASE ReplyText
  BY <1>7 DEF ReplyText, Receive, Tripped, Counted, Reasons, Fragments, memVars
<1>8. CASE ReplyEmpty
  BY <1>8
     DEF ReplyEmpty, Receive, Tripped, Counted, Reasons, memVars, clientVars
<1>9. CASE ReplyCalls
  <2>1. mem' \in Seq(Message) /\ pending' \in Nat /\ callAt' \in Nat
    BY <1>9, InputAssumption DEF ReplyCalls, Message
  <2> QED BY <1>9, <2>1 DEF ReplyCalls, Receive, Tripped, Counted, Reasons, clientVars
<1>10. CASE StartCall
  BY <1>10, BudgetAssumption DEF StartCall, MayCall, memVars
<1>11. CASE FinishCall
  <2>1. mem' \in Seq(Message)
    BY <1>11, InputAssumption DEF FinishCall, Message
  <2> QED BY <1>11, <2>1 DEF FinishCall, Progress, budgetVars
<1>12. CASE StopCalls
  BY <1>12, BudgetAssumption
     DEF StopCalls, NextIteration, Progress, Reasons, memVars, clientVars
<1>13. CASE AllCalled
  BY <1>13, BudgetAssumption
     DEF AllCalled, NextIteration, Progress, budgetVars, memVars, clientVars
<1>14. CASE StreamOpens
  BY <1>14 DEF StreamOpens, budgetVars, memVars, clientVars
<1>15. CASE StreamBreaks
  BY <1>15 DEF StreamBreaks, memVars
<1>16. CASE StreamCompletes
  BY <1>16 DEF StreamCompletes, memVars
<1>17. CASE Save
  BY <1>17 DEF Save, budgetVars, memVars, clientVars
<1>18. CASE StreamToken
  BY <1>18 DEF StreamToken, Fragments, budgetVars, memVars
<1>19. CASE StreamStrays
  BY <1>19 DEF StreamStrays, budgetVars, memVars, clientVars
<1>20. CASE UNCHANGED vars
  BY <1>20 DEF vars, budgetVars, memVars, clientVars
<1> QED
  BY <1>1, <1>2, <1>3, <1>4, <1>5, <1>6, <1>7, <1>8, <1>9, <1>10,
     <1>11, <1>12, <1>13, <1>14, <1>15, <1>16, <1>17, <1>18, <1>19, <1>20
     DEF Next, Handle, Return

(* Every step keeps the bounds on iterations and model calls. *)
LEMMA ProgressStep ==
  ASSUME TypeOK, Progress, [Next]_vars
  PROVE  Progress'
<1> USE DEF TypeOK, Progress
<1>1. CASE Refuse
  BY <1>1, BudgetAssumption DEF Refuse, budgetVars, memVars, clientVars
<1>2. CASE Accept
  BY <1>2, BudgetAssumption DEF Accept, budgetVars, memVars, clientVars
<1>3. CASE FinishAlone
  BY <1>3, BudgetAssumption DEF FinishAlone, budgetVars, memVars, clientVars
<1>4. CASE FinishStreaming
  BY <1>4, BudgetAssumption
     DEF FinishStreaming, Ask, budgetVars, memVars, clientVars
<1>5. CASE AskModel
  BY <1>5, BudgetAssumption DEF AskModel, Ask, MustFinish, clientVars
<1>6. CASE CallFails
  BY <1>6, BudgetAssumption DEF CallFails, budgetVars, memVars, clientVars
<1>7. CASE ReplyText
  BY <1>7, BudgetAssumption
     DEF ReplyText, Receive, Tripped, Counted, budgetVars, memVars, clientVars
<1>8. CASE ReplyEmpty
  BY <1>8, BudgetAssumption
     DEF ReplyEmpty, Receive, Tripped, Counted, budgetVars, memVars, clientVars
<1>9. CASE ReplyCalls
  BY <1>9, BudgetAssumption
     DEF ReplyCalls, Receive, Tripped, Counted, budgetVars, memVars, clientVars
<1>10. CASE StartCall
  BY <1>10, BudgetAssumption DEF StartCall, budgetVars, memVars, clientVars
<1>11. CASE FinishCall
  BY <1>11, BudgetAssumption DEF FinishCall, budgetVars, memVars, clientVars
<1>12. CASE StopCalls
  BY <1>12, BudgetAssumption
     DEF StopCalls, NextIteration, budgetVars, memVars, clientVars
<1>13. CASE AllCalled
  BY <1>13, BudgetAssumption
     DEF AllCalled, NextIteration, budgetVars, memVars, clientVars
<1>14. CASE StreamOpens
  BY <1>14, BudgetAssumption DEF StreamOpens, budgetVars, memVars, clientVars
<1>15. CASE StreamBreaks
  BY <1>15, BudgetAssumption DEF StreamBreaks, budgetVars, memVars, clientVars
<1>16. CASE StreamCompletes
  BY <1>16, BudgetAssumption
     DEF StreamCompletes, budgetVars, memVars, clientVars
<1>17. CASE Save
  BY <1>17, BudgetAssumption DEF Save, budgetVars, memVars, clientVars
<1>18. CASE StreamToken
  BY <1>18, BudgetAssumption DEF StreamToken, budgetVars, memVars, clientVars
<1>19. CASE StreamStrays
  BY <1>19, BudgetAssumption DEF StreamStrays, budgetVars, memVars, clientVars
<1>20. CASE UNCHANGED vars
  BY <1>20 DEF vars, budgetVars, memVars, clientVars
<1> QED
  BY <1>1, <1>2, <1>3, <1>4, <1>5, <1>6, <1>7, <1>8, <1>9, <1>10,
     <1>11, <1>12, <1>13, <1>14, <1>15, <1>16, <1>17, <1>18, <1>19, <1>20
     DEF Next, Handle, Return

(* Every step keeps the budget's reason in line with what was used. *)
LEMMA LedgerStep ==
  ASSUME TypeOK, Ledger, [Next]_vars
  PROVE  Ledger'
<1> USE DEF TypeOK, Ledger, Serving, NoReason, Reasons
<1>1. CASE Refuse
  BY <1>1, BudgetAssumption DEF Refuse, budgetVars, memVars, clientVars
<1>2. CASE Accept
  BY <1>2, BudgetAssumption DEF Accept, budgetVars, memVars, clientVars
<1>3. CASE FinishAlone
  BY <1>3, BudgetAssumption DEF FinishAlone, budgetVars, memVars, clientVars
<1>4. CASE FinishStreaming
  BY <1>4, BudgetAssumption
     DEF FinishStreaming, Ask, budgetVars, memVars, clientVars
<1>5. CASE AskModel
  BY <1>5 DEF AskModel, Ask, MustFinish, TurnReason, clientVars
<1>6. CASE CallFails
  BY <1>6, BudgetAssumption DEF CallFails, budgetVars, memVars, clientVars
<1>7. CASE ReplyText
  BY <1>7, BudgetAssumption
     DEF ReplyText, Receive, Tripped, Counted, budgetVars, memVars, clientVars
<1>8. CASE ReplyEmpty
  BY <1>8, BudgetAssumption
     DEF ReplyEmpty, Receive, Tripped, Counted, budgetVars, memVars, clientVars
<1>9. CASE ReplyCalls
  BY <1>9, BudgetAssumption
     DEF ReplyCalls, Receive, Tripped, Counted, budgetVars, memVars, clientVars
<1>10. CASE StartCall
  BY <1>10, BudgetAssumption DEF StartCall, budgetVars, memVars, clientVars
<1>11. CASE FinishCall
  BY <1>11, BudgetAssumption DEF FinishCall, budgetVars, memVars, clientVars
<1>12. CASE StopCalls
  BY <1>12, BudgetAssumption
     DEF StopCalls, NextIteration, budgetVars, memVars, clientVars
<1>13. CASE AllCalled
  BY <1>13, BudgetAssumption
     DEF AllCalled, NextIteration, budgetVars, memVars, clientVars
<1>14. CASE StreamOpens
  BY <1>14, BudgetAssumption DEF StreamOpens, budgetVars, memVars, clientVars
<1>15. CASE StreamBreaks
  BY <1>15, BudgetAssumption DEF StreamBreaks, budgetVars, memVars, clientVars
<1>16. CASE StreamCompletes
  BY <1>16, BudgetAssumption
     DEF StreamCompletes, budgetVars, memVars, clientVars
<1>17. CASE Save
  BY <1>17, BudgetAssumption DEF Save, budgetVars, memVars, clientVars
<1>18. CASE StreamToken
  BY <1>18, BudgetAssumption DEF StreamToken, budgetVars, memVars, clientVars
<1>19. CASE StreamStrays
  BY <1>19, BudgetAssumption DEF StreamStrays, budgetVars, memVars, clientVars
<1>20. CASE UNCHANGED vars
  BY <1>20 DEF vars, budgetVars, memVars, clientVars
<1> QED
  BY <1>1, <1>2, <1>3, <1>4, <1>5, <1>6, <1>7, <1>8, <1>9, <1>10,
     <1>11, <1>12, <1>13, <1>14, <1>15, <1>16, <1>17, <1>18, <1>19, <1>20
     DEF Next, Handle, Return

(* A model call that gets the whole window has found it within the prompt   *)
(* budget: the reason in force is the one of the tool loop.                 *)
LEMMA TrimIsNoticed ==
  ASSUME TypeOK, Len(mem) > 0, KeptFrom = WindowFrom
  PROVE  TurnReason = reason
<1>1. Len(mem) \in Nat
  BY DEF TypeOK
<1>2. WindowFrom \in Nat /\ WindowFrom <= Len(mem)
  BY <1>1, BudgetAssumption DEF WindowFrom
<1> DEFINE fitting == {s \in WindowFrom..Len(mem) : PromptTokens(s) <= MaxPromptTokens}
<1>3. CASE PromptTokens(WindowFrom) <= MaxPromptTokens
  BY <1>3 DEF TurnReason
<1>4. CASE ~ (PromptTokens(WindowFrom) <= MaxPromptTokens)
  <2>1. KeptFrom = IF fitting # {} THEN Max(fitting) ELSE Len(mem) + 1
    BY <1>4 DEF KeptFrom
  <2>2. fitting # {} => Max(fitting) \in fitting
    <3>1. fitting \in SUBSET (WindowFrom..Len(mem))
      OBVIOUS
    <3> HIDE DEF fitting
    <3> QED BY <1>1, <1>2, <3>1, MaxOfInterval
  <2>3. fitting # {} => Max(fitting) # WindowFrom
    BY <2>2, <1>4
  <2> HIDE DEF fitting
  <2> QED BY <2>1, <2>3, <1>1, <1>2
<1> QED BY <1>3, <1>4

(* The initial state satisfies the inductive invariant. *)
LEMMA InitIInv ==
  ASSUME Init
  PROVE  IInv
<1> USE DEF Init, NoReason
<1>1. TypeOK
  BY BudgetAssumption DEF TypeOK, Message
<1>2. Progress
  BY BudgetAssumption DEF Progress
<1>3. Ledger
  BY BudgetAssumption DEF Ledger, Serving, Reasons
<1>4. Order
  BY DEF Order
<1>5. Pairing
  BY DEF Pairing, Serving
<1> QED BY <1>1, <1>2, <1>3, <1>4, <1>5 DEF IInv

(* A message makes a natural number of calls. *)
LEMMA CallsOfMessage ==
  ASSUME TypeOK, NEW i \in 1..Len(mem)
  PROVE  mem[i].calls \in Nat
<1>1. mem[i] \in Message
  BY DEF TypeOK
<1> QED BY <1>1 DEF Message

(* Every step keeps the order of the messages. *)
LEMMA OrderStep ==
  ASSUME TypeOK, Order, [Next]_vars
  PROVE  Order'
<1> USE DEF TypeOK, Order, Serving
<1>1. CASE Refuse
  BY <1>1 DEF Refuse, budgetVars, memVars, clientVars
<1>2. CASE Accept
  <2>1. PICK h \in HistoryLengths, size \in Sizes :
           /\ asked' = h + 1
           /\ mem' = [i \in 1..(h + 1) |->
                       [role |-> IF i > h THEN "user" ELSE "history",
                        size |-> size, calls |-> 0, owner |-> 0]]
    BY <1>2 DEF Accept
  <2>2. h \in Nat
    BY InputAssumption
  <2>3. Len(mem') = h + 1 /\ \A j \in 1..Len(mem') : mem'[j].role # "tool"
    BY <2>1, <2>2
  <2> QED BY <1>2, <2>1, <2>2, <2>3 DEF Accept, budgetVars
<1>3. CASE FinishAlone
  BY <1>3 DEF FinishAlone, budgetVars, memVars, clientVars
<1>4. CASE FinishStreaming
  BY <1>4 DEF FinishStreaming, Ask, budgetVars, memVars, clientVars
<1>5. CASE AskModel
  BY <1>5 DEF AskModel, Ask, budgetVars, memVars, clientVars
<1>6. CASE CallFails
  BY <1>6 DEF CallFails, budgetVars, memVars, clientVars
<1>7. CASE ReplyText
  BY <1>7 DEF ReplyText, budgetVars, memVars, clientVars
<1>8. CASE ReplyEmpty
  BY <1>8 DEF ReplyEmpty, budgetVars, memVars, clientVars
<1>9. CASE ReplyCalls
  <2>1. PICK n \in 1..CallsPerReply, size \in Sizes :
           mem' = Append(mem, [role |-> "assistant", size |-> size,
                               calls |-> n, owner |-> 0])
    BY <1>9 DEF ReplyCalls
  <2>2. /\ Len(mem') = Len(mem) + 1
        /\ mem'[Len(mem) + 1].role = "assistant"
        /\ \A j \in 1..Len(mem) : mem'[j] = mem[j]
    BY <2>1
  <2> QED BY <1>9, <2>2 DEF ReplyCalls
<1>10. CASE StartCall
  BY <1>10, BudgetAssumption
     DEF StartCall, NextIteration, budgetVars, memVars, clientVars
<1>11. CASE FinishCall
  <2>1. PICK size \in Sizes :
           mem' = Append(mem, [role |-> "tool", size |-> size, calls |-> 0,
                               owner |-> callAt])
    BY <1>11 DEF FinishCall
  <2>2. /\ Len(mem') = Len(mem) + 1
        /\ mem'[Len(mem) + 1].owner = callAt
        /\ \A j \in 1..Len(mem) : mem'[j] = mem[j]
    BY <2>1
  <2>3. pc = "tool" /\ pc' = "tools"
        /\ UNCHANGED <<asked, callAt, toolCalls, iteration>>
    BY <1>11 DEF FinishCall, budgetVars
  <2>4. callAt \in (asked + 1)..Len(mem) /\ asked \in 1..Len(mem)
    BY <2>3
  <2>5. asked' \in 1..Len(mem') /\ callAt' \in (asked' + 1)..Len(mem')
    BY <2>2, <2>3, <2>4
  <2>6. \A j \in 1..Len(mem') : mem'[j].role = "tool" => mem'[j].owner > asked'
    <3>1. SUFFICES ASSUME NEW j \in 1..Len(mem'), mem'[j].role = "tool"
                   PROVE  mem'[j].owner > asked
      BY <2>3
    <3>2. CASE j = Len(mem) + 1
      BY <3>2, <2>2, <2>4
    <3>3. CASE j \in 1..Len(mem)
      BY <3>1, <3>3, <2>2, <2>3
    <3> QED BY <2>2, <3>2, <3>3
  <2>7. Len(mem') <= asked' + toolCalls' + iteration' + 1
    BY <2>2, <2>3
  <2> QED BY <2>3, <2>5, <2>6, <2>7
<1>12. CASE StopCalls
  BY <1>12, BudgetAssumption
     DEF StopCalls, NextIteration, budgetVars, memVars, clientVars
<1>13. CASE AllCalled
  BY <1>13, BudgetAssumption
     DEF AllCalled, NextIteration, budgetVars, memVars, clientVars
<1>14. CASE StreamOpens
  BY <1>14 DEF StreamOpens, budgetVars, memVars, clientVars
<1>15. CASE StreamBreaks
  BY <1>15 DEF StreamBreaks, budgetVars, memVars, clientVars
<1>16. CASE StreamCompletes
  BY <1>16 DEF StreamCompletes, budgetVars, memVars, clientVars
<1>17. CASE Save
  BY <1>17 DEF Save, budgetVars, memVars, clientVars
<1>18. CASE StreamToken
  BY <1>18 DEF StreamToken, budgetVars, memVars, clientVars
<1>19. CASE StreamStrays
  BY <1>19 DEF StreamStrays, budgetVars, memVars, clientVars
<1>20. CASE UNCHANGED vars
  BY <1>20 DEF vars, budgetVars, memVars, clientVars
<1> QED
  BY <1>1, <1>2, <1>3, <1>4, <1>5, <1>6, <1>7, <1>8, <1>9, <1>10,
     <1>11, <1>12, <1>13, <1>14, <1>15, <1>16, <1>17, <1>18, <1>19, <1>20
     DEF Next, Handle, Return

(* Every step keeps calls and results paired. *)
LEMMA PairingStep ==
  ASSUME IInv, [Next]_vars
  PROVE  Pairing'
<1> USE DEF IInv, TypeOK, Pairing, Serving, AnsweredIn
<1>1. CASE Refuse
  BY <1>1 DEF Refuse, budgetVars, memVars, clientVars
<1>2. CASE Accept
  <2>1. PICK h \in HistoryLengths, size \in Sizes :
           mem' = [i \in 1..(h + 1) |->
                    [role |-> IF i > h THEN "user" ELSE "history",
                     size |-> size, calls |-> 0, owner |-> 0]]
    BY <1>2 DEF Accept
  <2>2. \A i \in 1..Len(mem') : mem'[i].calls = 0
    BY <2>1, InputAssumption
  <2>3. pc' = "turn"
    BY <1>2 DEF Accept
  <2> QED BY <2>2, <2>3
<1>3. CASE FinishAlone
  BY <1>3 DEF FinishAlone, WindowFrom, budgetVars, memVars, clientVars
<1>4. CASE FinishStreaming
  <2>1. pc = "turn" /\ pc' = "stream" /\ mem' = mem /\ reason' = TurnReason
        /\ sentFrom' = KeptFrom
    BY <1>4 DEF FinishStreaming, Ask
  <2>2. SUFFICES ASSUME sentFrom' = WindowFrom', reason' # "tool_calls"
                 PROVE  \A i \in 1..Len(mem) : AnsweredIn(mem, i)
    BY <2>1
  <2>3. KeptFrom = WindowFrom
    BY <2>1, <2>2 DEF WindowFrom
  <2>4. Len(mem) > 0
    BY <2>1 DEF Order
  <2>5. TurnReason = reason
    BY <2>3, <2>4, TrimIsNoticed
  <2> QED BY <2>1, <2>2, <2>5
<1>5. CASE AskModel
  BY <1>5 DEF AskModel, Ask, budgetVars, memVars, clientVars
<1>6. CASE CallFails
  BY <1>6 DEF CallFails, WindowFrom, budgetVars, memVars, clientVars
<1>7. CASE ReplyText
  BY <1>7 DEF ReplyText
<1>8. CASE ReplyEmpty
  BY <1>8 DEF ReplyEmpty, Ledger, NoReason, memVars
<1>9. CASE ReplyCalls
  <2>1. PICK n \in 1..CallsPerReply, size \in Sizes :
           /\ mem' = Append(mem, [role |-> "assistant", size |-> size,
                                  calls |-> n, owner |-> 0])
           /\ pending' = n
    BY <1>9 DEF ReplyCalls
  <2>2. pc = "chat" /\ pc' = "tools" /\ callAt' = Len(mem) + 1
    BY <1>9 DEF ReplyCalls
  <2>3. reason = "none"
    BY <2>2 DEF Ledger, NoReason
  <2>4. /\ Len(mem') = Len(mem) + 1
        /\ mem'[Len(mem) + 1].calls = n
        /\ \A j \in 1..Len(mem) : mem'[j] = mem[j]
    BY <2>1
  <2>5. n \in Nat /\ Len(mem) \in Nat
    BY InputAssumption
  <2>6. \A i \in 1..Len(mem') : i # callAt' => AnsweredIn(mem, i)
    BY <2>2, <2>3, <2>4, <2>5
  <2>7. \A i \in 1..Len(mem') : i # callAt' => AnsweredIn(mem', i)
    <3>1. SUFFICES ASSUME NEW i \in 1..Len(mem), NEW k \in 1..mem[i].calls
                   PROVE  i + k <= Len(mem') /\ mem'[i + k].owner = i
      BY <2>2, <2>4, <2>5
    <3>2. i + k <= Len(mem) /\ mem[i + k].owner = i
      BY <2>6, <2>2, <2>4, <2>5
    <3>3. mem[i].calls \in Nat
      BY CallsOfMessage
    <3>4. i + k \in 1..Len(mem)
      BY <3>2, <3>3, <2>5
    <3> QED BY <2>4, <2>5, <3>2, <3>4
  <2>8. Len(mem') = callAt' + mem'[callAt'].calls - pending'
    BY <2>1, <2>2, <2>4, <2>5
  <2>9. mem'[callAt'].calls - pending' = 0
    BY <2>1, <2>2, <2>4, <2>5
  <2> HIDE DEF AnsweredIn
  <2> QED BY <2>2, <2>7, <2>8, <2>9
<1>10. CASE StartCall
  BY <1>10 DEF StartCall, budgetVars, memVars, clientVars
<1>11. CASE FinishCall
  <2>1. PICK size \in Sizes :
           mem' = Append(mem, [role |-> "tool", size |-> size, calls |-> 0,
                               owner |-> callAt])
    BY <1>11 DEF FinishCall
  <2>2. pc = "tool" /\ pc' = "tools" /\ callAt' = callAt /\ pending' = pending - 1
    BY <1>11 DEF FinishCall
  <2>3. /\ Len(mem') = Len(mem) + 1
        /\ mem'[Len(mem) + 1].calls = 0 /\ mem'[Len(mem) + 1].owner = callAt
        /\ \A j \in 1..Len(mem) : mem'[j] = mem[j]
    BY <2>1
  <2>4. callAt \in 1..Len(mem) /\ Len(mem) \in Nat
    BY <2>2 DEF Order
  <2>5. \A i \in 1..Len(mem) : i # callAt => AnsweredIn(mem, i)
    BY <2>2
  <2>6. \A i \in 1..Len(mem') : i # callAt' => AnsweredIn(mem', i)
    <3>0. AnsweredIn(mem', Len(mem) + 1)
      BY <2>3, <2>4
    <3>1. SUFFICES ASSUME NEW i \in 1..Len(mem), i # callAt, NEW k \in 1..mem[i].calls
                   PROVE  i + k <= Len(mem') /\ mem'[i + k].owner = i
      <4> HIDE DEF TypeOK, Pairing, IInv, Serving
      <4>1. \A i \in 1..Len(mem') : i = Len(mem) + 1 \/ i \in 1..Len(mem)
        BY <2>3, <2>4
      <4>2. \A i \in 1..Len(mem) : mem'[i] = mem[i]
        BY <2>3
      <4> QED BY <3>0, <4>1, <4>2, <2>2
    <3>2. i + k <= Len(mem) /\ mem[i + k].owner = i
      BY <2>5, <3>1
    <3>3. mem[i].calls \in Nat
      BY CallsOfMessage
    <3>4. i + k \in 1..Len(mem)
      BY <3>2, <3>3, <2>4
    <3> QED BY <2>3, <2>4, <3>2, <3>4
  <2>7. /\ mem[callAt].calls \in Nat /\ pending \in Nat
        /\ mem'[callAt'].calls - pending' = mem[callAt].calls - pending + 1
    <3>1. mem[callAt].calls \in Nat
      BY <2>4, CallsOfMessage
    <3>2. pending \in Nat /\ mem'[callAt'] = mem[callAt]
      BY <2>2, <2>3, <2>4
    <3>3. mem'[callAt'].calls = mem[callAt].calls
      BY <3>2
    <3> HIDE DEF TypeOK, Pairing, IInv
    <3> HIDE DEF TypeOK, Pairing, IInv
    <3> QED BY <3>1, <3>2, <3>3, <2>2
  <2>8. Len(mem') = callAt' + mem'[callAt'].calls - pending'
    <3> DEFINE c == mem[callAt].calls
               d == mem'[callAt'].calls
    <3>1. Len(mem) = callAt + c - pending /\ callAt \in Nat
      BY <2>2, <2>4
    <3>2. callAt' = callAt
      BY <2>2
    <3>3. d - pending' = c - pending + 1 /\ pending' = pending - 1
          /\ c \in Nat /\ pending \in Nat
      BY <2>2, <2>7
    <3>4. d = c
      BY <2>2, <2>3, <2>4
    <3>5. Len(mem') = callAt' + d - pending'
      <4> HIDE DEF c, d, TypeOK, Pairing, IInv
      <4> QED BY <3>1, <3>2, <3>3, <3>4, <2>3, <2>4
    <3> QED BY <3>5
  <2>9. \A k \in 1..(mem'[callAt'].calls - pending') : mem'[callAt' + k].owner = callAt'
    <3>1. SUFFICES ASSUME NEW k \in 1..(mem[callAt].calls - pending + 1)
                   PROVE  mem'[callAt + k].owner = callAt
      BY <2>2, <2>7
    <3>2. Len(mem) = callAt + mem[callAt].calls - pending
      BY <2>2
    <3>3. CASE callAt + k = Len(mem) + 1
      BY <3>3, <2>3
    <3>4. CASE callAt + k \in 1..Len(mem)
      <4>1. k \in 1..(mem[callAt].calls - pending)
        <5> HIDE DEF TypeOK, Pairing, IInv
        <5> QED BY <3>2, <3>4, <2>4, <2>7
      <4>2. mem[callAt + k].owner = callAt
        BY <2>2, <4>1
      <4> QED BY <4>2, <3>4, <2>3
    <3>5. pending \in Nat /\ k \in Nat /\ k >= 1 /\ k <= mem[callAt].calls - pending + 1
      BY <2>7, <3>1
    <3>6. callAt + k = Len(mem) + 1 \/ callAt + k \in 1..Len(mem)
      <4> DEFINE c == mem[callAt].calls
      <4>1. c \in Nat /\ callAt \in Nat /\ callAt >= 1 /\ Len(mem) = callAt + c - pending
        BY <3>2, <2>4, <2>7
      <4>2. k <= c - pending + 1
        BY <3>5
      <4> HIDE DEF TypeOK, Pairing, IInv, Serving, c
      <4> QED BY <4>1, <4>2, <3>5, <2>4
    <3> QED BY <3>3, <3>4, <3>6
  <2> HIDE DEF AnsweredIn
  <2> QED BY <2>2, <2>6, <2>8, <2>9
<1>12. CASE StopCalls
  BY <1>12 DEF StopCalls, NextIteration, budgetVars, memVars, clientVars
<1>13. CASE AllCalled
  <2>1. pc = "tools" /\ pending = 0 /\ pc' = "turn" /\ mem' = mem
    BY <1>13 DEF AllCalled, NextIteration, memVars
  <2>2. callAt \in 1..Len(mem)
    BY <2>1 DEF Order
  <2>3. AnsweredIn(mem, callAt)
    <3> DEFINE c == mem[callAt].calls
    <3>1. c \in Nat
      BY <2>2, CallsOfMessage
    <3>2. c - pending = c /\ callAt + c - pending = callAt + c
      <4> HIDE DEF c
      <4> QED BY <2>1, <2>2, <3>1
    <3>3. /\ Len(mem) = callAt + c - pending
          /\ \A k \in 1..(c - pending) : mem[callAt + k].owner = callAt
      BY <2>1
    <3>4. Len(mem) = callAt + c /\ \A k \in 1..c : mem[callAt + k].owner = callAt
      <4> HIDE DEF c
      <4> QED BY <3>2, <3>3
    <3> HIDE DEF TypeOK, Pairing, IInv
    <3> QED BY <2>2, <3>1, <3>4
  <2>4. \A i \in 1..Len(mem) : AnsweredIn(mem, i)
    <3>1. \A i \in 1..Len(mem) : i # callAt => AnsweredIn(mem, i)
      <4> HIDE DEF AnsweredIn
      <4> QED BY <2>1 DEF Pairing, Serving
    <3> HIDE DEF AnsweredIn, IInv, TypeOK, Pairing
    <3> QED BY <2>3, <3>1
  <2> HIDE DEF AnsweredIn
  <2> QED BY <2>1, <2>4
<1>14. CASE StreamOpens
  BY <1>14 DEF StreamOpens, WindowFrom, budgetVars, memVars, clientVars
<1>15. CASE StreamBreaks
  BY <1>15 DEF StreamBreaks, WindowFrom, budgetVars, memVars, clientVars
<1>16. CASE StreamCompletes
  BY <1>16 DEF StreamCompletes, WindowFrom, budgetVars, memVars, clientVars
<1>17. CASE Save
  BY <1>17 DEF Save, budgetVars, memVars, clientVars
<1>18. CASE StreamToken
  BY <1>18 DEF StreamToken, WindowFrom, budgetVars, memVars, clientVars
<1>19. CASE StreamStrays
  BY <1>19 DEF StreamStrays, WindowFrom, budgetVars, memVars, clientVars
<1>20. CASE UNCHANGED vars
  BY <1>20 DEF vars, WindowFrom, budgetVars, memVars, clientVars
<1> QED
  BY <1>1, <1>2, <1>3, <1>4, <1>5, <1>6, <1>7, <1>8, <1>9, <1>10,
     <1>11, <1>12, <1>13, <1>14, <1>15, <1>16, <1>17, <1>18, <1>19, <1>20
     DEF Next, Handle, Return

-----------------------------------------------------------------------------
(* IInv is inductive. *)
LEMMA IInvStep ==
  ASSUME IInv, [Next]_vars
  PROVE  IInv'
BY TypeStep, ProgressStep, LedgerStep, OrderStep, PairingStep DEF IInv

(* The inductive invariant holds in every reachable state. *)
LEMMA Invariance == Spec => []IInv
<1>1. Init => IInv
  BY InitIInv
<1>2. IInv /\ [Next]_vars => IInv'
  BY IInvStep
<1> QED BY <1>1, <1>2, PTL DEF Spec

(* Every variable keeps its type and every counter its budget: a request runs *)
(* at most MaxToolCalls tools in at most MaxToolIterations iterations.        *)
THEOREM TypeCorrect == Spec => []TypeOK
<1>1. IInv => TypeOK
  BY DEF IInv
<1> QED BY <1>1, Invariance, PTL

(* One request makes at most MaxToolIterations + 1 model calls. *)
THEOREM RequestIsBounded == Spec => []RequestBounded
<1>1. IInv => RequestBounded
  BY DEF IInv, Progress, RequestBounded
<1> QED BY <1>1, Invariance, PTL

(* The "continue" on zero completion tokens is dead code. *)
LEMMA AlwaysTokensToAsk == Spec => []AskHasTokens
<1>1. IInv => AskHasTokens
  <2>1. SUFFICES ASSUME IInv, pc = "turn", ~MustFinish
                 PROVE  Remaining > 0
    BY DEF AskHasTokens
  <2>2. reason = NoReason
    BY <2>1 DEF MustFinish, TurnReason, NoReason
  <2>3. used < MaxCompletionTokens /\ used \in Nat
    BY <2>1, <2>2 DEF IInv, Ledger, TypeOK
  <2> QED BY <2>3, BudgetAssumption DEF Remaining
<1> QED BY <1>1, Invariance, PTL

(* With a window wider than the messages a request can add, the question is   *)
(* within every model call that the prompt budget does not cut.               *)
LEMMA QuestionInWindow ==
  ASSUME IInv, InCall, MaxToolIterations + MaxToolCalls < Window
  PROVE  WindowFrom <= asked /\ asked \in 1..Len(mem)
<1>1. /\ asked \in 1..Len(mem)
      /\ Len(mem) <= asked + toolCalls + iteration + 0
  BY DEF IInv, Order, InCall
<1>2. /\ toolCalls \in 0..MaxToolCalls /\ iteration \in 0..MaxToolIterations
      /\ Len(mem) \in Nat
  BY DEF IInv, TypeOK
<1> QED BY <1>1, <1>2, BudgetAssumption DEF WindowFrom

THEOREM QuestionIsKept ==
  ASSUME MaxToolIterations + MaxToolCalls < Window
  PROVE  Spec => []QuestionKept
<1>1. IInv => QuestionKept
  BY QuestionInWindow DEF QuestionKept
<1> QED BY <1>1, Invariance, PTL

(* With such a window, a model call that the prompt budget does not cut has   *)
(* every tool result behind its call, and every call answered unless the      *)
(* tool-call budget halted them.                                              *)
THEOREM PairingIsKept ==
  ASSUME MaxToolIterations + MaxToolCalls < Window
  PROVE  Spec => []PairingKept
<1>1. ASSUME IInv, InCall, sentFrom = WindowFrom
      PROVE  ResultsOwned(sentFrom) /\ (CallsAnswered(sentFrom) \/ reason = "tool_calls")
  <2>1. sentFrom <= asked /\ sentFrom \in Nat \ {0} /\ asked \in Nat /\ Len(mem) \in Nat
    BY <1>1, QuestionInWindow, KeptInWindow DEF IInv, TypeOK
  <2>2. ResultsOwned(sentFrom)
    <3>1. SUFFICES ASSUME NEW j \in sentFrom..Len(mem), mem[j].role = "tool"
                   PROVE  mem[j].owner >= sentFrom
      BY DEF ResultsOwned
    <3>2. j \in 1..Len(mem)
      BY <2>1
    <3>3. mem[j].owner > asked
      BY <1>1, <3>1, <3>2 DEF IInv, Order, InCall
    <3>4. mem[j].owner \in Nat
      <4>1. mem[j] \in Message
        BY <1>1, <3>2 DEF IInv, TypeOK
      <4> QED BY <4>1 DEF Message
    <3> QED BY <2>1, <3>3, <3>4
  <2>3. CASE reason # "tool_calls"
    <3>1. \A i \in 1..Len(mem) : AnsweredIn(mem, i)
      BY <1>1, <2>3 DEF IInv, Pairing, InCall
    <3>2. SUFFICES ASSUME NEW i \in sentFrom..Len(mem), NEW k \in 1..mem[i].calls
                   PROVE  i + k \in DOMAIN mem /\ mem[i + k].owner = i
      BY <2>2 DEF CallsAnswered
    <3>3. i \in 1..Len(mem)
      BY <2>1
    <3>4. mem[i].calls \in Nat
      BY <1>1, <3>3, CallsOfMessage DEF IInv
    <3>5. i + k <= Len(mem) /\ mem[i + k].owner = i
      BY <3>1, <3>3 DEF AnsweredIn
    <3>6. DOMAIN mem = 1..Len(mem)
      BY <1>1 DEF IInv, TypeOK
    <3> QED BY <2>1, <3>3, <3>4, <3>5, <3>6
  <2> QED BY <2>2, <2>3
<1>2. IInv => PairingKept
  BY <1>1 DEF PairingKept
<1> QED BY <1>2, Invariance, PTL

-----------------------------------------------------------------------------
(* As long as no token escapes the budget, what was produced has been counted, *)
(* and a model call is granted no more than is left.                           *)
Accounts ==
  unseen = {} =>
    /\ spent <= MaxCompletionTokens
    /\ pc \in {"idle", "turn", "chat", "tools", "tool", "stream", "streaming"} =>
         spent <= used
    /\ pc \in {"chat", "stream", "streaming"} => granted + used <= MaxCompletionTokens

(* Every step keeps the accounts. *)

LEMMA AccountsStep ==
  ASSUME TypeOK, Accounts, [Next]_vars
  PROVE  Accounts'
<1> USE DEF TypeOK, Accounts
<1>1. CASE Refuse
  BY <1>1 DEF Refuse, budgetVars, memVars, clientVars
<1>2. CASE Accept
  BY <1>2 DEF Accept, budgetVars, memVars, clientVars
<1>3. CASE FinishAlone
  BY <1>3 DEF FinishAlone, budgetVars, memVars, clientVars
<1>4. CASE FinishStreaming
  BY <1>4, BudgetAssumption
     DEF FinishStreaming, Ask, Remaining, budgetVars, memVars, clientVars
<1>5. CASE AskModel
  BY <1>5, BudgetAssumption
     DEF AskModel, Ask, Remaining, budgetVars, memVars, clientVars
<1>6. CASE CallFails
  BY <1>6 DEF CallFails, budgetVars, memVars, clientVars
<1>7. CASE ReplyText
  BY <1>7, BudgetAssumption
     DEF ReplyText, Receive, Counted, budgetVars, memVars, clientVars
<1>8. CASE ReplyEmpty
  BY <1>8, BudgetAssumption
     DEF ReplyEmpty, Receive, Counted, budgetVars, memVars, clientVars
<1>9. CASE ReplyCalls
  BY <1>9, BudgetAssumption
     DEF ReplyCalls, Receive, Counted, budgetVars, memVars, clientVars
<1>10. CASE StartCall
  BY <1>10 DEF StartCall, budgetVars, memVars, clientVars
<1>11. CASE FinishCall
  BY <1>11 DEF FinishCall, budgetVars, memVars, clientVars
<1>12. CASE StopCalls
  BY <1>12 DEF StopCalls, NextIteration, budgetVars, memVars, clientVars
<1>13. CASE AllCalled
  BY <1>13 DEF AllCalled, NextIteration, budgetVars, memVars, clientVars
<1>14. CASE StreamOpens
  BY <1>14 DEF StreamOpens, budgetVars, memVars, clientVars
<1>15. CASE StreamBreaks
  BY <1>15, BudgetAssumption DEF StreamBreaks, budgetVars, memVars, clientVars
<1>16. CASE StreamCompletes
  BY <1>16, BudgetAssumption
     DEF StreamCompletes, budgetVars, memVars, clientVars
<1>17. CASE Save
  BY <1>17 DEF Save, budgetVars, memVars, clientVars
<1>18. CASE StreamToken
  BY <1>18 DEF StreamToken, budgetVars, memVars, clientVars
<1>19. CASE StreamStrays
  BY <1>19 DEF StreamStrays, budgetVars, memVars, clientVars
<1>20. CASE UNCHANGED vars
  BY <1>20 DEF vars, budgetVars, memVars, clientVars
<1> QED
  BY <1>1, <1>2, <1>3, <1>4, <1>5, <1>6, <1>7, <1>8, <1>9, <1>10,
     <1>11, <1>12, <1>13, <1>14, <1>15, <1>16, <1>17, <1>18, <1>19, <1>20
     DEF Next, Handle, Return

(* All model calls of a request together stay within MaxCompletionTokens, as  *)
(* long as no reply is undercounted or streamed again, and none begins        *)
(* without tokens to grant.                                                   *)
THEOREM CompletionBudget == Spec => []CompletionBudgetKept
<1>1. Init => Accounts
  BY BudgetAssumption DEF Init, Accounts
<1>2. TypeOK /\ Accounts /\ [Next]_vars => Accounts'
  BY AccountsStep
<1>3. Accounts /\ AskHasTokens => CompletionBudgetKept
  BY DEF Accounts, CompletionBudgetKept
<1> QED BY <1>1, <1>2, <1>3, TypeCorrect, AlwaysTokensToAsk, PTL DEF Spec

-----------------------------------------------------------------------------
(* Where the reply is, relative to what the client has been sent. *)
Delivery ==
  /\ pc # "ended" => saved = {}
  /\ pc \notin {"save", "ended"} => canonical = {}
  /\ pc \notin {"streaming", "save", "ended"} => final = {}
  /\ final \subseteq shown
  /\ canonical \in {{}, final}
  /\ saved \in {{}, final}

(* Every step keeps it. *)

LEMMA DeliveryStep ==
  ASSUME Delivery, [Next]_vars
  PROVE  Delivery'
<1> USE DEF Delivery
<1>1. CASE Refuse
  BY <1>1 DEF Refuse, budgetVars, memVars, clientVars
<1>2. CASE Accept
  BY <1>2 DEF Accept, budgetVars, memVars, clientVars
<1>3. CASE FinishAlone
  BY <1>3 DEF FinishAlone, Notice, budgetVars, memVars, clientVars
<1>4. CASE FinishStreaming
  BY <1>4 DEF FinishStreaming, Ask, Notice, budgetVars, memVars, clientVars
<1>5. CASE AskModel
  BY <1>5 DEF AskModel, Ask, Notice, budgetVars, memVars, clientVars
<1>6. CASE CallFails
  BY <1>6 DEF CallFails, budgetVars, memVars, clientVars
<1>7. CASE ReplyText
  BY <1>7 DEF ReplyText, budgetVars, memVars, clientVars
<1>8. CASE ReplyEmpty
  BY <1>8 DEF ReplyEmpty, budgetVars, memVars, clientVars
<1>9. CASE ReplyCalls
  BY <1>9 DEF ReplyCalls, budgetVars, memVars, clientVars
<1>10. CASE StartCall
  BY <1>10 DEF StartCall, budgetVars, memVars, clientVars
<1>11. CASE FinishCall
  BY <1>11 DEF FinishCall, budgetVars, memVars, clientVars
<1>12. CASE StopCalls
  BY <1>12 DEF StopCalls, NextIteration, budgetVars, memVars, clientVars
<1>13. CASE AllCalled
  BY <1>13 DEF AllCalled, NextIteration, budgetVars, memVars, clientVars
<1>14. CASE StreamOpens
  BY <1>14 DEF StreamOpens, budgetVars, memVars, clientVars
<1>15. CASE StreamBreaks
  BY <1>15 DEF StreamBreaks, budgetVars, memVars, clientVars
<1>16. CASE StreamCompletes
  BY <1>16 DEF StreamCompletes, budgetVars, memVars, clientVars
<1>17. CASE Save
  BY <1>17 DEF Save, budgetVars, memVars, clientVars
<1>18. CASE StreamToken
  BY <1>18 DEF StreamToken, budgetVars, memVars, clientVars
<1>19. CASE StreamStrays
  BY <1>19 DEF StreamStrays, budgetVars, memVars, clientVars
<1>20. CASE UNCHANGED vars
  BY <1>20 DEF vars, budgetVars, memVars, clientVars
<1> QED
  BY <1>1, <1>2, <1>3, <1>4, <1>5, <1>6, <1>7, <1>8, <1>9, <1>10,
     <1>11, <1>12, <1>13, <1>14, <1>15, <1>16, <1>17, <1>18, <1>19, <1>20
     DEF Next, Handle, Return

(* The stored reply is the streamed one. *)
THEOREM ReplyIsSavedAsShown == Spec => []SavedAsShown
<1>1. Init => Delivery
  BY DEF Init, Delivery
<1>2. Delivery /\ [Next]_vars => Delivery'
  BY DeliveryStep
<1>3. Delivery => SavedAsShown
  BY DEF Delivery, SavedAsShown
<1> QED BY <1>1, <1>2, <1>3, PTL DEF Spec
-----------------------------------------------------------------------------
(* The client's view of the response at each place of the handler. *)
View ==
  /\ pc = "idle" <=> phase = "idle"
  /\ pc \in {"turn", "chat", "tools", "stream"} => phase = "open"
  /\ pc = "tool" <=> phase = "tool"
  /\ pc = "streaming" => phase \in {"open", "failed"}
  /\ pc \in {"save", "ended", "failed"} => phase = "closed"

(* Every step keeps it. *)

LEMMA ViewStep ==
  ASSUME TypeOK, View, [Next]_vars
  PROVE  View'
<1> USE DEF TypeOK, View, CloseStream
<1>1. CASE Refuse
  BY <1>1 DEF Refuse, budgetVars, memVars, clientVars
<1>2. CASE Accept
  BY <1>2 DEF Accept, budgetVars, memVars, clientVars
<1>3. CASE FinishAlone
  BY <1>3 DEF FinishAlone, budgetVars, memVars, clientVars
<1>4. CASE FinishStreaming
  BY <1>4 DEF FinishStreaming, Ask, budgetVars, memVars, clientVars
<1>5. CASE AskModel
  BY <1>5 DEF AskModel, Ask, budgetVars, memVars, clientVars
<1>6. CASE CallFails
  BY <1>6 DEF CallFails, budgetVars, memVars, clientVars
<1>7. CASE ReplyText
  BY <1>7 DEF ReplyText, budgetVars, memVars, clientVars
<1>8. CASE ReplyEmpty
  BY <1>8 DEF ReplyEmpty, budgetVars, memVars, clientVars
<1>9. CASE ReplyCalls
  BY <1>9 DEF ReplyCalls, budgetVars, memVars, clientVars
<1>10. CASE StartCall
  BY <1>10 DEF StartCall, budgetVars, memVars, clientVars
<1>11. CASE FinishCall
  BY <1>11 DEF FinishCall, budgetVars, memVars, clientVars
<1>12. CASE StopCalls
  BY <1>12 DEF StopCalls, NextIteration, budgetVars, memVars, clientVars
<1>13. CASE AllCalled
  BY <1>13 DEF AllCalled, NextIteration, budgetVars, memVars, clientVars
<1>14. CASE StreamOpens
  BY <1>14 DEF StreamOpens, budgetVars, memVars, clientVars
<1>15. CASE StreamBreaks
  BY <1>15 DEF StreamBreaks, budgetVars, memVars, clientVars
<1>16. CASE StreamCompletes
  BY <1>16 DEF StreamCompletes, budgetVars, memVars, clientVars
<1>17. CASE Save
  BY <1>17 DEF Save, budgetVars, memVars, clientVars
<1>18. CASE StreamToken
  BY <1>18 DEF StreamToken, budgetVars, memVars, clientVars
<1>19. CASE StreamStrays
  BY <1>19 DEF StreamStrays, budgetVars, memVars, clientVars
<1>20. CASE UNCHANGED vars
  BY <1>20 DEF vars, budgetVars, memVars, clientVars
<1> QED
  BY <1>1, <1>2, <1>3, <1>4, <1>5, <1>6, <1>7, <1>8, <1>9, <1>10,
     <1>11, <1>12, <1>13, <1>14, <1>15, <1>16, <1>17, <1>18, <1>19, <1>20
     DEF Next, Handle, Return

(* Every step of the handler is a step of ChatStream or changes nothing of it. *)
LEMMA RefinesStep ==
  ASSUME TypeOK, View, [Next]_vars
  PROVE  [CS!Next]_(CS!csVars)
<1> USE DEF TypeOK, View, CloseStream,
            CS!Next, CS!csVars, CS!Start, CS!Announce, CS!Report, CS!Fail, CS!Close
<1>1. CASE Refuse
  BY <1>1 DEF Refuse, budgetVars, memVars, clientVars
<1>2. CASE Accept
  BY <1>2 DEF Accept, budgetVars, memVars, clientVars
<1>3. CASE FinishAlone
  BY <1>3 DEF FinishAlone, budgetVars, memVars, clientVars
<1>4. CASE FinishStreaming
  BY <1>4 DEF FinishStreaming, Ask, budgetVars, memVars, clientVars
<1>5. CASE AskModel
  BY <1>5 DEF AskModel, Ask, budgetVars, memVars, clientVars
<1>6. CASE CallFails
  BY <1>6 DEF CallFails, budgetVars, memVars, clientVars
<1>7. CASE ReplyText
  BY <1>7 DEF ReplyText, budgetVars, memVars, clientVars
<1>8. CASE ReplyEmpty
  BY <1>8 DEF ReplyEmpty, budgetVars, memVars, clientVars
<1>9. CASE ReplyCalls
  BY <1>9 DEF ReplyCalls, budgetVars, memVars, clientVars
<1>10. CASE StartCall
  BY <1>10 DEF StartCall, MayCall
<1>11. CASE FinishCall
  BY <1>11 DEF FinishCall, budgetVars, memVars, clientVars
<1>12. CASE StopCalls
  BY <1>12 DEF StopCalls, NextIteration, budgetVars, memVars, clientVars
<1>13. CASE AllCalled
  BY <1>13 DEF AllCalled, NextIteration, budgetVars, memVars, clientVars
<1>14. CASE StreamOpens
  BY <1>14 DEF StreamOpens, budgetVars, memVars, clientVars
<1>15. CASE StreamBreaks
  BY <1>15 DEF StreamBreaks, budgetVars, memVars, clientVars
<1>16. CASE StreamCompletes
  BY <1>16 DEF StreamCompletes, budgetVars, memVars, clientVars
<1>17. CASE Save
  BY <1>17 DEF Save, budgetVars, memVars, clientVars
<1>18. CASE StreamToken
  BY <1>18 DEF StreamToken, budgetVars, memVars, clientVars
<1>19. CASE StreamStrays
  BY <1>19 DEF StreamStrays, budgetVars, memVars, clientVars
<1>20. CASE UNCHANGED vars
  BY <1>20 DEF vars, budgetVars, memVars, clientVars
<1> QED
  BY <1>1, <1>2, <1>3, <1>4, <1>5, <1>6, <1>7, <1>8, <1>9, <1>10,
     <1>11, <1>12, <1>13, <1>14, <1>15, <1>16, <1>17, <1>18, <1>19, <1>20
     DEF Next, Handle, Return

(* The handler keeps the safety part of ChatStream: chunks in their order, at  *)
(* most MaxToolCalls announced calls, none after an error, and an end that     *)
(* comes once.                                                                 *)
THEOREM KeepsChatStream == Spec => CS!Safe
<1>1. Init => CS!Init /\ View
  BY DEF Init, CS!Init, View
<1>2. TypeOK /\ View /\ [Next]_vars => View'
  BY ViewStep
<1>3. TypeOK /\ View /\ [Next]_vars => [CS!Next]_(CS!csVars)
  BY RefinesStep
<1> QED BY <1>1, <1>2, <1>3, TypeCorrect, PTL DEF Spec, CS!Safe
=============================================================================
