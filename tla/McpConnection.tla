---------------------------- MODULE McpConnection ----------------------------
(***************************************************************************)
(* One connection to an MCP server over the pipes of a child process       *)
(* (plugins/builtin/mcp/support: connection.py and transports/stdio.py).   *)
(* Requests of several tool calls share it, one at a time under a lock.  A *)
(* request that times out, or finds the process gone, closes the process,  *)
(* and is sent again only when its tool is marked as retryable.  A call    *)
(* that is cancelled leaves its answer in the pipe for whoever reads next. *)
(***************************************************************************)
EXTENDS Integers, Sequences

CONSTANTS McpCalls,        \* tool calls
          RetryableCalls,  \* those of tools marked as retryable
          NoMcpCall,       \* no call
          MaxProcessIds    \* bound on the processes that are started

ASSUME McpConnAssumption == MaxProcessIds \in Nat

VARIABLES process,      \* the number of the process that runs, or 0
          processes,    \* how many have been started
          connected, requestLock,
          lastId,       \* of requests: counted by the transport, not by process
          unread,       \* requests the server has not read
          pipe,         \* answers written and not read, by request
          calling       \* state of each call

mcpConnVars == <<process, processes, connected, requestLock, lastId, unread, pipe, calling>>

NewCall == [phase |-> "idle", id |-> 0, answer |-> 0, sent |-> 0, again |-> FALSE]

McpConnInit == /\ process = 0 /\ processes = 0 /\ connected = FALSE /\ requestLock = NoMcpCall
               /\ lastId = 0 /\ unread = <<>> /\ pipe = <<>>
               /\ calling = [c \in McpCalls |-> NewCall]

Moves(c, phase) == calling' = [calling EXCEPT ![c].phase = phase]

\* A call goes to the lock, by way of connecting when there is no connection.
McpCallBegins(c) ==
    /\ calling[c].phase = "idle"
    /\ Moves(c, IF connected THEN "locking" ELSE "connecting")
    /\ UNCHANGED <<process, processes, connected, requestLock, lastId, unread, pipe>>

\* Under the lock, whoever comes second finds the connection there.  The
\* requests of the handshake are answered or the call fails.
McpConnects(c) ==
    /\ calling[c].phase = "connecting"
    /\ requestLock = NoMcpCall
    /\ \/ connected /\ UNCHANGED <<process, processes, connected, unread, pipe>>
       \/ /\ ~connected /\ process = 0 /\ processes < MaxProcessIds
          /\ processes' = processes + 1 /\ process' = processes' /\ connected' = TRUE
          /\ unread' = <<>> /\ pipe' = <<>>
    /\ Moves(c, "locking")
    /\ UNCHANGED <<requestLock, lastId>>

McpConnectFails(c) ==
    /\ calling[c].phase = "connecting"
    /\ requestLock = NoMcpCall /\ ~connected
    /\ Moves(c, "failed")
    /\ UNCHANGED <<process, processes, connected, requestLock, lastId, unread, pipe>>

\* The request is written under the lock.  With no process it is not.
RequestSent(c) ==
    /\ calling[c].phase = "locking"
    /\ requestLock = NoMcpCall
    /\ process # 0
    /\ requestLock' = c
    /\ lastId' = lastId + 1
    /\ unread' = Append(unread, lastId')
    /\ calling' = [calling EXCEPT ![c].phase = "reading", ![c].id = lastId', ![c].sent = @ + 1]
    /\ UNCHANGED <<process, processes, connected, pipe>>

ServerAnswers ==
    /\ process # 0
    /\ unread # <<>>
    /\ pipe' = Append(pipe, Head(unread)) /\ unread' = Tail(unread)
    /\ UNCHANGED <<process, processes, connected, requestLock, lastId, calling>>

\* For a mutant: the first answer in the pipe is taken for one's own.
AnswerReadAny(c) ==
    /\ calling[c].phase = "reading"
    /\ pipe # <<>>
    /\ pipe' = Tail(pipe)
    /\ calling' = [calling EXCEPT ![c].phase = "answered", ![c].answer = Head(pipe)]
    /\ requestLock' = NoMcpCall
    /\ UNCHANGED <<process, processes, connected, lastId, unread>>

\* An answer to another request, of a call that was cancelled, is passed by.
AnswerRead(c) ==
    /\ calling[c].phase = "reading"
    /\ pipe # <<>>
    /\ pipe' = Tail(pipe)
    /\ IF Head(pipe) = calling[c].id
       THEN /\ calling' = [calling EXCEPT ![c].phase = "answered", ![c].answer = Head(pipe)]
            /\ requestLock' = NoMcpCall
       ELSE UNCHANGED <<calling, requestLock>>
    /\ UNCHANGED <<process, processes, connected, lastId, unread>>

McpCallCancelled(c) ==
    /\ calling[c].phase \in {"locking", "reading"}
    /\ Moves(c, "cancelled")
    /\ requestLock' = IF requestLock = c THEN NoMcpCall ELSE requestLock
    /\ UNCHANGED <<process, processes, connected, lastId, unread, pipe>>

\* A request that waits too long, or reads the end of the pipe, closes the
\* process that is there.  The second try is the last and closes nothing.
RequestLost(c) ==
    /\ \/ calling[c].phase = "reading"
       \/ calling[c].phase = "locking" /\ requestLock = NoMcpCall /\ process = 0
    /\ requestLock' = IF requestLock = c THEN NoMcpCall ELSE requestLock
    /\ IF calling[c].again THEN UNCHANGED <<process, connected, unread, pipe>>
       ELSE process' = 0 /\ connected' = FALSE /\ unread' = <<>> /\ pipe' = <<>>
    /\ IF c \in RetryableCalls /\ ~calling[c].again
       THEN calling' = [calling EXCEPT ![c].phase = "connecting", ![c].again = TRUE]
       ELSE Moves(c, "failed")
    /\ UNCHANGED <<processes, lastId>>

McpConnNext == ServerAnswers \/ \E c \in McpCalls :
                   \/ McpCallBegins(c) \/ McpConnects(c) \/ McpConnectFails(c) \/ RequestSent(c)
                   \/ AnswerRead(c) \/ McpCallCancelled(c) \/ RequestLost(c)

McpConnSpec == McpConnInit /\ [][McpConnNext]_mcpConnVars

\* The types of the variables.
McpConnTypeOK ==
    /\ process \in 0..MaxProcessIds /\ connected \in BOOLEAN
    /\ requestLock \in McpCalls \cup {NoMcpCall}
    /\ \A c \in McpCalls : calling[c].phase \in {"idle", "connecting", "locking", "reading", "answered",
                                                 "cancelled", "failed"}

\* What a call is given is the answer to its own request, though answers to
\* cancelled requests are read on the way; and the request of a tool that is
\* not retryable is sent at most once.
AnswerIsOwn ==
    \A c \in McpCalls : /\ calling[c].phase = "answered" => calling[c].answer = calling[c].id
                        /\ calling[c].sent <= IF c \in RetryableCalls THEN 2 ELSE 1
=============================================================================
