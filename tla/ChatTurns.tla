----------------------------- MODULE ChatTurns ------------------------------
(***************************************************************************)
(* The assistant as its two clients see it, the chat panel (ChatPanel) and *)
(* the ChatOps bridge (ChatOps): a request may name the session it goes on *)
(* with, the server finds or makes the session it answers in, and the      *)
(* answer is a stream of chunks.                                           *)
(*                                                                         *)
(* A request is a turn and a new session is called after the turn it was   *)
(* made for.  None is no session, and any id the server does not know.     *)
(* What happens between two chunks is the matter of modules AgentLoop and  *)
(* Delegation; "blank" is a complete chunk without text.                   *)
(***************************************************************************)
EXTENDS Naturals, Sequences

CONSTANTS
  MaxTurns,   \* bound: turns, which are numbered as they come
  Earlier,    \* sessions of earlier conversations
  None,
  MaxCalls    \* bound: tool calls announced in one answer

Turns == 1..MaxTurns

ASSUME TurnAssumption ==
  /\ MaxTurns \in Nat /\ Turns \cap Earlier = {} /\ None \notin Turns \cup Earlier
  /\ MaxCalls \in Nat

VARIABLES
  stored,     \* sessions in the database
  named,      \* named[r]: the session turn r goes on with
  used,       \* used[r]: the session it is answered in, None before that
  phase,      \* phase[r]: how far the answer is
  announced   \* announced[r]: tool calls announced in it

turnVars == <<stored, named, used, phase, announced>>

Chats == Turns \cup Earlier
ChatOrNone == Chats \cup {None}

\* The chunks an answer may go on with, and the phase each of them leads to.
\* One token chunk stands for all that come without a tool call in between.
\* An error need not be the end: tool arguments the server cannot parse are
\* reported, and the stream is completed all the same, which adds no text.  One
\* error chunk stands for all that come in a row, the blank one after it for
\* the complete and the done chunk.
Flow == [idle   |-> <<>>,
         asked  |-> [start |-> "open", error |-> "failed"],
         open   |-> [token |-> "said", call |-> "tool", complete |-> "ending",
                     blank |-> "ending", error |-> "erred"],
         said   |-> [call |-> "tool", complete |-> "ending",
                     blank |-> "ending", error |-> "erred"],
         tool   |-> [result |-> "open"],
         ending |-> [done |-> "closed"],
         erred  |-> [blank |-> "failed"],
         closed |-> <<>>, failed |-> <<>>]
ChunkTypes == UNION {DOMAIN Flow[p] : p \in DOMAIN Flow}

\* The phases of an answer with an error in it, and those a response may end in.
Failed == {"erred", "failed"}
Final == Failed \cup {"closed"}

TurnsTypeOK ==
  /\ stored \subseteq Chats
  /\ named \in [Turns -> ChatOrNone] /\ used \in [Turns -> ChatOrNone]
  /\ phase \in [Turns -> DOMAIN Flow] /\ announced \in [Turns -> 0..MaxCalls]

TurnsInit ==
  /\ stored = Earlier
  /\ named = [r \in Turns |-> None] /\ used = [r \in Turns |-> None]
  /\ phase = [r \in Turns |-> "idle"] /\ announced = [r \in Turns |-> 0]

\* A client asks turn r, to go on with session s.
Ask(r, s) ==
  /\ phase[r] = "idle"
  /\ named' = [named EXCEPT ![r] = s]
  /\ phase' = [phase EXCEPT ![r] = "asked"]
  /\ UNCHANGED <<stored, used, announced>>

\* The next chunk of the answer to r.
Emit(r, chunk) ==
  /\ chunk \in DOMAIN Flow[phase[r]]
  /\ phase' = [phase EXCEPT ![r] = Flow[@][chunk]]
  /\ IF chunk = "call"
     THEN announced[r] < MaxCalls /\ announced' = [announced EXCEPT ![r] = @ + 1]
     ELSE UNCHANGED announced
  /\ UNCHANGED named

\* The session of r: the one it names if the database has it, or else a new
\* one, which the database may fail to store.  A lookup that fails finds none.
Goes(r) == named[r] \in stored /\ used' = [used EXCEPT ![r] = named[r]] /\ UNCHANGED stored
Makes(r) == used' = [used EXCEPT ![r] = r] /\ stored' \in {stored, stored \cup {r}}
Open(r) == Emit(r, "start") /\ (Goes(r) \/ Makes(r))

\* The connection of r breaks and its context ends, which an answer that is not
\* finished does not survive.
Abandon(r) ==
  /\ phase' = [phase EXCEPT ![r] = IF @ \in {"asked", "closed"} THEN @ ELSE "failed"]
  /\ UNCHANGED <<stored, named, used, announced>>

GoOn(r, chunk) == chunk # "start" /\ Emit(r, chunk) /\ UNCHANGED <<stored, used>>
=============================================================================
