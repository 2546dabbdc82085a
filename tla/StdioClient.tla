---------------------------- MODULE StdioClient ----------------------------
(***************************************************************************)
(* internal/mcp/stdio_client.go: an MCP server run as a child process, its *)
(* stdin and stdout as pipes, one goroutine reading its answers and one    *)
(* waiting for it to exit.  cmd/assistant/main.go starts the client,       *)
(* connects it and, if that fails, never offers it to the agent.           *)
(***************************************************************************)
EXTENDS RpcCalls

CONSTANTS
  PipeSize,    \* bound: requests that fit into the server's stdin pipe
  MayOverflow, \* may an answer exceed the reader's line buffer (1 MiB)?
  MayHang      \* may the server stop reading without exiting?

VARIABLES
  boot,        \* where NewStdioClient and Connect are
  connected,   \* the connected flag
  lock,        \* the holders of writeMu
  toServer,    \* the server's stdin
  jobs,        \* requests the server has read and may answer
  server,      \* the process: "up", "hung" or "exited"
  reader,      \* readStream: "reading" or "closed"
  waiter       \* waitForExit: "waiting" or "done"

processVars == <<toServer, jobs, server, reader, waiter>>
vars == <<callVars, tableVars, incoming, boot, connected, lock, processVars>>

Notification == [id |-> 0, payload |-> 0]

Init ==
  /\ CallsInit
  /\ boot = "started" /\ connected = FALSE
  /\ lock = {}
  /\ toServer = <<>> /\ jobs = {}
  /\ server = "up" /\ reader = "reading" /\ waiter = "waiting"

-----------------------------------------------------------------------------
(* NewStdioClient, after the process and the two goroutines were started, and *)
(* Connect: initialize, its notification, tools/list                          *)

StoreConnected ==
  /\ boot = "started"
  /\ boot' = "initialize" /\ connected' = TRUE
  /\ UNCHANGED <<callVars, tableVars, incoming, lock, processVars>>

\* A goroutine may call: Main while it connects, anyone afterwards.
MayBegin(c) ==
  boot = "serving" \/ (c = Main /\ boot \in {"initialize", "discover"})

\* Connect goes on after a successful call; an error of it, or an error object
\* in the answer, makes main.go skip the client.
AfterReturn(a) ==
  IF boot = "serving" THEN {"serving"}
  ELSE IF a = Failed THEN {"skipped"}
  ELSE {"skipped", IF boot = "initialize" THEN "notify" ELSE "serving"}

\* The "initialized" notification; nothing answers it.
Notify ==
  /\ boot = "notify" /\ lock = {}
  /\ \/ server = "exited" /\ boot' = "skipped" /\ UNCHANGED toServer
     \/ /\ server # "exited" /\ Len(toServer) < PipeSize
        /\ toServer' = Append(toServer, Notification)
        /\ boot' = "discover"
  /\ UNCHANGED <<callVars, tableVars, incoming, connected, lock, jobs, server,
                 reader, waiter>>

-----------------------------------------------------------------------------
(* jsonRPC and writeMessage *)

Call(c) ==
  /\ MayBegin(c) /\ Begin(c)
  /\ UNCHANGED <<boot, connected, lock, processVars>>

RefuseCall(c) ==
  /\ ~connected /\ Refuse(c)
  /\ boot' \in AfterReturn(Failed)
  /\ UNCHANGED <<connected, lock, processVars>>

RegisterCall(c) ==
  /\ connected /\ Register(c)
  /\ UNCHANGED <<boot, connected, lock, processVars>>

\* MUTANT of LockWrite: the writes are not serialised.
LockWriteShared(c) ==
  /\ pc[c] = "send"
  /\ lock' = lock \cup {c}
  /\ Goto(c, "write")
  /\ UNCHANGED <<id, calls, asked, answer, tableVars, incoming, boot, connected,
                 processVars>>

LockWrite(c) ==
  /\ pc[c] = "send" /\ lock = {}
  /\ lock' = {c}
  /\ Goto(c, "write")
  /\ UNCHANGED <<id, calls, asked, answer, tableVars, incoming, boot, connected,
                 processVars>>

\* The write blocks as long as the pipe is full.
Write(c) ==
  /\ pc[c] = "write"
  /\ server # "exited" /\ Len(toServer) < PipeSize
  /\ toServer' = Append(toServer, [id |-> id[c], payload |-> asked[c]])
  /\ lock' = {}
  /\ Goto(c, "wait")
  /\ UNCHANGED <<id, calls, asked, answer, tableVars, incoming, boot, connected,
                 jobs, server, reader, waiter>>

\* MUTANT of WriteFails: the mutex is unlocked only after a write that worked.
WriteFailsLocked(c) ==
  /\ pc[c] = "write" /\ server = "exited"
  /\ Fail(c)
  /\ UNCHANGED <<id, calls, asked, tableVars, incoming, boot, connected, lock,
                 processVars>>

WriteFails(c) ==
  /\ pc[c] = "write" /\ server = "exited"
  /\ lock' = {}
  /\ Fail(c)
  /\ UNCHANGED <<id, calls, asked, tableVars, incoming, boot, connected,
                 processVars>>

ReceiveAnswer(c) ==
  /\ Receive(c)
  /\ UNCHANGED <<boot, connected, lock, processVars>>

TimeOut(c) ==
  /\ GiveUp(c)
  /\ UNCHANGED <<boot, connected, lock, processVars>>

ReturnCall(c) ==
  /\ Clean(c)
  /\ boot' \in AfterReturn(answer[c])
  /\ UNCHANGED <<connected, lock, processVars>>

\* What a call does on its own, the timer included.
Proceed(c) ==
  \/ RefuseCall(c) \/ RegisterCall(c) \/ LockWrite(c) \/ Write(c)
  \/ WriteFails(c) \/ ReceiveAnswer(c) \/ TimeOut(c) \/ ReturnCall(c)

-----------------------------------------------------------------------------
(* The server process *)

ServerReads ==
  /\ server = "up" /\ toServer # <<>>
  /\ toServer' = Tail(toServer)
  /\ jobs' = jobs \cup ({Head(toServer)} \ {Notification})
  /\ UNCHANGED <<callVars, tableVars, incoming, boot, connected, lock, server,
                 reader, waiter>>

\* Answers come in any order.
ServerAnswers ==
  /\ server = "up" /\ Len(incoming) < OutSize
  /\ \E m \in jobs :
       /\ incoming' = Append(incoming, m)
       /\ jobs' \in {jobs \ {m}} \cup IF MayRepeat THEN {jobs} ELSE {}
  /\ UNCHANGED <<callVars, tableVars, boot, connected, lock, toServer, server,
                 reader, waiter>>

ServerHangs ==
  /\ MayHang /\ server = "up"
  /\ server' = "hung"
  /\ UNCHANGED <<callVars, tableVars, incoming, boot, connected, lock, toServer,
                 jobs, reader, waiter>>

ServerExits ==
  /\ server # "exited"
  /\ server' = "exited" /\ toServer' = <<>> /\ jobs' = {}
  /\ UNCHANGED <<callVars, tableVars, incoming, boot, connected, lock, reader,
                 waiter>>

-----------------------------------------------------------------------------
(* readStream and waitForExit *)

ReaderTakes ==
  /\ reader = "reading" /\ Take
  /\ UNCHANGED <<boot, connected, lock, processVars>>

ReaderDelivers ==
  /\ Deliver
  /\ UNCHANGED <<boot, connected, lock, processVars>>

\* End of file.
ReaderEnds ==
  /\ reader = "reading" /\ sending = {} /\ incoming = <<>>
  /\ server = "exited"
  /\ reader' = "closed" /\ connected' = FALSE
  /\ UNCHANGED <<callVars, tableVars, incoming, boot, lock, toServer, jobs,
                 server, waiter>>

\* A line longer than the buffer ends the scan, the process still running.
ReaderOverflows ==
  /\ MayOverflow /\ reader = "reading" /\ sending = {} /\ incoming # <<>>
  /\ incoming' = Tail(incoming)
  /\ reader' = "closed" /\ connected' = FALSE
  /\ UNCHANGED <<callVars, tableVars, boot, lock, toServer, jobs, server, waiter>>

\* Wait closes the stdout pipe: what the reader has not read is lost.
ProcessReaped ==
  /\ waiter = "waiting" /\ server = "exited"
  /\ incoming' = <<>>
  /\ waiter' = "done" /\ connected' = FALSE
  /\ UNCHANGED <<callVars, tableVars, boot, lock, toServer, jobs, server, reader>>

Reader == ReaderTakes \/ ReaderDelivers \/ ReaderEnds \/ ReaderOverflows

-----------------------------------------------------------------------------
Next ==
  \/ StoreConnected \/ Notify
  \/ \E c \in Callers : Call(c) \/ Proceed(c)
  \/ ServerReads \/ ServerAnswers \/ ServerHangs \/ ServerExits
  \/ Reader \/ ProcessReaped

\* Goroutines run, sync.Mutex is starvation-free, the 30 s timer fires, and a
\* server that does not hang reads its input.  No server has to answer.
Fairness ==
  /\ \A c \in Callers : WF_vars(Proceed(c)) /\ SF_vars(LockWrite(c))
  /\ WF_vars(ServerReads)

Spec == Init /\ [][Next]_vars /\ Fairness

-----------------------------------------------------------------------------
(* Properties *)

\* Every variable stays in its range, and writeMu has at most one holder, the
\* call that is writing.
TypeOK ==
  /\ CallsTypeOK
  /\ boot \in {"started", "initialize", "notify", "discover", "serving", "skipped"}
  /\ connected \in BOOLEAN
  /\ lock = {c \in Callers : pc[c] = "write"}
  /\ \A c, d \in lock : c = d
  /\ toServer \in Seq(Response \cup {Notification})
  /\ jobs \subseteq Response
  /\ server \in {"up", "hung", "exited"}
  /\ reader \in {"reading", "closed"}
  /\ waiter \in {"waiting", "done"}

=============================================================================
