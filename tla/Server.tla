------------------------------- MODULE Server -------------------------------
(***************************************************************************)
(* The HTTP server (api/server.cpp) and the shutdown of `serve' (main.cpp):*)
(* handler threads that submit requests to the engine and relay what it    *)
(* delivers, through a channel per request, to clients that may go away.   *)
(*                                                                         *)
(* The engine is reduced to what the server sees of it (Engine has the     *)
(* rest): submit() refuses or takes a request, the engine thread calls     *)
(* back with tokens and once with the end, abort() asks it to stop early,  *)
(* and drain() returns when nothing is held.  Of cpp-httplib, which is not *)
(* in the repository, only the thread pool and the line of connections in  *)
(* front of it are modelled.                                               *)
(*                                                                         *)
(* A byte is its width if it leads a character, 0 if it continues one.     *)
(***************************************************************************)
EXTENDS Integers, FiniteSets, SequencesExt

CONSTANTS
    Conns,           \* connections, with one HTTP request each
    Asked,           \* what each client may ask for
    Handlers,        \* threads of the HTTP server
    MaxQueueDepth,   \* cfg_.max_queue_depth, 0 for no limit
    Pieces,          \* the bytes a token may stand for
    MaxBytes         \* bound: bytes of an answer

Kinds == {"probe", "bad", "plain", "sse", "chat_sse"}

ASSUME ServerAssumption ==
    /\ Asked \in [Conns -> SUBSET Kinds]
    /\ Handlers \in Nat \ {0} /\ MaxQueueDepth \in Nat /\ MaxBytes \in Nat
    /\ Pieces \subseteq Seq(0..4)

VARIABLES
    line,            \* connections that wait for a handler thread
    kind,            \* what each connection asks for
    conn,            \* the place of each connection in handle()
    answer,          \* the status it was answered with
    client,          \* "here", or "gone" once it has closed the connection
    accepting,       \* ApiServer::accepting_
    engine,          \* "up", "draining", "ended"
    fatal,           \* whether fatal_error_ is set
    owner,           \* the place of the drainer thread of cmd_serve
    held,            \* requests the engine has taken and not answered
    aborts,          \* requests it was asked to abort
    channel,         \* Stream::q of each request
    pending,         \* Utf8Buffer::pending of each request
    produced, sent   \* bytes the engine has delivered, and the client was sent

serveVars == <<line, kind, conn, answer, client>>
ownerVars == <<accepting, engine, fatal, owner>>
engineVars == <<held, aborts, channel, produced>>
textVars == <<pending, sent>>
serverVars == <<serveVars, ownerVars, engineVars, textVars>>

End == <<-1>>                     \* the message of the terminal callback

Streams(c) == kind[c] \in {"sse", "chat_sse"}
Busy == {c \in Conns : conn[c] \notin {"away", "line", "done"}}
At(c, place) == conn' = [conn EXCEPT ![c] = place]

Answered(c, status) ==
    /\ At(c, "done")
    /\ answer' = [answer EXCEPT ![c] = status]

-----------------------------------------------------------------------------
(* Utf8Buffer.                                                             *)

\* Mutant: the leads of long characters are not told apart.
Width_two(b) == IF b > 1 THEN 2 ELSE 1

\* The width that push() reads off a byte; a continuation byte counts as one.
Width(b) == IF b = 0 THEN 1 ELSE b

\* Where the loop of push() stops.
Complete(bytes) ==
    LET from[v \in 0..Len(bytes)] ==
            IF v = Len(bytes) \/ v + Width(bytes[v + 1]) > Len(bytes)
            THEN v
            ELSE from[v + Width(bytes[v + 1])]
    IN  from[0]

\* The text so far can be continued to whole characters.
Text(bytes) ==
    \A i \in 1..Len(bytes) :
        /\ bytes[i] = 0 => \E j \in 1..i - 1 : bytes[j] > i - j
        /\ bytes[i] # 0 => \A j \in 1..i - 1 : bytes[j] <= i - j

\* Whole characters only.
Whole(bytes) == Text(bytes) /\ \A i \in 1..Len(bytes) : i + bytes[i] - 1 <= Len(bytes)

-----------------------------------------------------------------------------
(* Clients, and the thread pool of the HTTP library.                       *)

Connect(c) ==
    /\ conn[c] = "away"
    /\ owner # "stopped"
    /\ At(c, "line")
    /\ line' = Append(line, c)
    /\ \E k \in Asked[c] : kind' = [kind EXCEPT ![c] = k]
    /\ UNCHANGED <<answer, client, ownerVars, engineVars, textVars>>

\* Only a stream's handler notices.
Disconnect(c) ==
    /\ conn[c] \notin {"away", "done"} /\ Streams(c)
    /\ client[c] = "here"
    /\ client' = [client EXCEPT ![c] = "gone"]
    /\ UNCHANGED <<line, kind, conn, answer, ownerVars, engineVars, textVars>>

Dispatch ==
    /\ line # <<>>
    /\ Cardinality(Busy) < Handlers
    /\ At(Head(line), "enter")
    /\ line' = Tail(line)
    /\ UNCHANGED <<kind, answer, client, ownerVars, engineVars, textVars>>

-----------------------------------------------------------------------------
(* handle(), on a handler thread.                                          *)

\* /healthz and /readyz are answered from the flags of engine and server.
Probe(c) ==
    /\ conn[c] = "enter" /\ kind[c] = "probe"
    /\ LET alive == ~fatal /\ owner # "stopped"
           ready == alive /\ accepting /\ engine = "up"
       IN  \E well \in {alive, ready} : Answered(c, IF well THEN "200" ELSE "503")
    /\ UNCHANGED <<line, kind, client, ownerVars, engineVars, textVars>>

\* The flags first, then parsing and validation.
Enter(c) ==
    /\ conn[c] = "enter" /\ kind[c] # "probe"
    /\ \/ ~(accepting /\ engine = "up") /\ Answered(c, "503")
       \/ accepting /\ engine = "up" /\ kind[c] = "bad" /\ Answered(c, "400")
       \/ accepting /\ engine = "up" /\ kind[c] # "bad" /\ At(c, "submit") /\ UNCHANGED answer
    /\ UNCHANGED <<line, kind, client, ownerVars, engineVars, textVars>>

\* submit(): the engine's flag, the depth of its queue, and the hand-over.
SubmitFlag(c) ==
    /\ conn[c] = "submit"
    /\ IF engine = "up" THEN At(c, "depth") /\ UNCHANGED answer ELSE Answered(c, "503")
    /\ UNCHANGED <<line, kind, client, ownerVars, engineVars, textVars>>

SubmitDepth(c) ==
    /\ conn[c] = "depth"
    /\ IF MaxQueueDepth > 0 /\ Cardinality(held) >= MaxQueueDepth
         THEN At(c, "overloaded")
         ELSE At(c, "push")
    /\ UNCHANGED <<line, kind, answer, client, ownerVars, engineVars, textVars>>

SubmitPush(c) ==
    /\ conn[c] = "push"
    /\ held' = held \union {c}
    /\ At(c, "check")
    /\ UNCHANGED <<line, kind, answer, client, ownerVars, aborts, channel, produced, textVars>>

\* Whether the engine has died is asked before what it said of the submission.
Overloaded(c) ==
    /\ conn[c] = "overloaded"
    /\ Answered(c, IF fatal THEN "503" ELSE "429")
    /\ UNCHANGED <<line, kind, client, ownerVars, engineVars, textVars>>

\* A submission to an engine that has died is answered at once.
CheckFatal(c) ==
    /\ conn[c] = "check"
    /\ IF fatal THEN Answered(c, "503") ELSE At(c, "relay") /\ UNCHANGED answer
    /\ UNCHANGED <<line, kind, client, ownerVars, engineVars, textVars>>

\* Stream::pop blocks while the channel is empty.
Popped(c) ==
    /\ conn[c] = "relay"
    /\ channel[c] # <<>>
    /\ channel' = [channel EXCEPT ![c] = Tail(@)]

\* Without streaming the handler collects tokens to the end and answers then,
\* whether or not the client is still there.  The JSON library refuses to write a
\* text that ends inside a character, and the HTTP library answers for it.
RelayPlain(c) ==
    /\ Popped(c) /\ ~Streams(c)
    /\ LET m == Head(channel[c])
       IN  IF m = End
           THEN Answered(c, IF Whole(sent[c]) THEN "200" ELSE "500") /\ UNCHANGED sent
           ELSE sent' = [sent EXCEPT ![c] = @ \o m] /\ UNCHANGED <<conn, answer>>
    /\ UNCHANGED <<line, kind, client, ownerVars, held, aborts, produced, pending>>

\* One call of the content provider, with a token: the complete characters go out
\* as a chunk.
RelayToken(c) ==
    /\ Popped(c) /\ Streams(c) /\ client[c] = "here"
    /\ Head(channel[c]) # End
    /\ LET bytes == pending[c] \o Head(channel[c])
           v == Complete(bytes)
       IN  /\ sent' = [sent EXCEPT ![c] = @ \o SubSeq(bytes, 1, v)]
           /\ pending' = [pending EXCEPT ![c] = SubSeq(bytes, v + 1, Len(bytes))]
    /\ UNCHANGED <<serveVars, ownerVars, held, aborts, produced>>

\* Mutant: the client's leaving is not passed on.
Released_silently(c) == aborts

\* The releaser: an answer that could not be written is aborted in the engine.
Released(c) == aborts \union {c}

\* The chunk cannot be written.
RelayBroken(c) ==
    /\ Popped(c) /\ Streams(c) /\ client[c] = "gone"
    /\ Head(channel[c]) # End
    /\ Answered(c, "broken")
    /\ aborts' = Released(c)
    /\ UNCHANGED <<line, kind, client, ownerVars, held, produced, textVars>>

\* The end: the last chunk of a chat leaves out what is pending, that of a completion
\* carries it, and cannot be written if there is any.
RelayEnd(c) ==
    /\ Popped(c) /\ Streams(c)
    /\ Head(channel[c]) = End
    /\ pending' = [pending EXCEPT ![c] = <<>>]
    /\ IF kind[c] = "chat_sse" \/ pending[c] = <<>>
         THEN Answered(c, "200") /\ UNCHANGED aborts
         ELSE Answered(c, "broken") /\ aborts' = Released(c)
    /\ UNCHANGED <<line, kind, client, ownerVars, held, produced, sent>>

\* A server that has been stopped may end a stream in the middle.
Cut(c) ==
    /\ conn[c] = "relay" /\ Streams(c)
    /\ owner = "stopped"
    /\ Answered(c, "cut")
    /\ UNCHANGED <<line, kind, client, ownerVars, engineVars, textVars>>

-----------------------------------------------------------------------------
(* The engine thread, as far as the server can see.                        *)

\* Mutant: only tokens are delivered.
Delivered_tokens(c, m) == IF m = End THEN channel ELSE [channel EXCEPT ![c] = Append(@, m)]

\* Stream::push, from the request's callback.
Delivered(c, m) == [channel EXCEPT ![c] = Append(@, m)]

EmitToken(c) ==
    /\ c \in held /\ engine # "ended"
    /\ \E p \in Pieces :
          /\ Len(produced[c]) + Len(p) <= MaxBytes
          /\ Text(produced[c] \o p)
          /\ produced' = [produced EXCEPT ![c] = @ \o p]
          /\ channel' = Delivered(c, p)
    /\ UNCHANGED <<serveVars, ownerVars, held, aborts, textVars>>

\* The terminal callback: finished, aborted or timed out.
EndRequest(c) ==
    /\ c \in held /\ engine # "ended"
    /\ held' = held \ {c}
    /\ channel' = Delivered(c, End)
    /\ UNCHANGED <<serveVars, ownerVars, aborts, produced, textVars>>

DrainedEngine ==
    /\ engine = "draining" /\ held = {}
    /\ engine' = "ended"
    /\ UNCHANGED <<serveVars, accepting, fatal, owner, engineVars, textVars>>

\* The backend throws: what the scheduler holds is released, what is still in the
\* inbox is not.
BackendThrows ==
    /\ engine # "ended"
    /\ engine' = "ended" /\ fatal' = TRUE
    /\ \E released \in SUBSET held :
          /\ held' = held \ released
          /\ channel' = [c \in Conns |-> IF c \in released THEN Append(channel[c], End) ELSE channel[c]]
    /\ UNCHANGED <<serveVars, accepting, owner, aborts, produced, textVars>>

-----------------------------------------------------------------------------
(* The drainer thread of cmd_serve, after a signal.                        *)

StopAccepting ==
    /\ owner = "serving"
    /\ accepting' = FALSE
    /\ owner' = "drain"
    /\ UNCHANGED <<serveVars, engine, fatal, engineVars, textVars>>

\* drain() sets two flags (Engine tells them apart), then joins the engine thread.
BeginDrain ==
    /\ owner = "drain"
    /\ engine' = IF engine = "up" THEN "draining" ELSE engine
    /\ owner' = "join"
    /\ UNCHANGED <<serveVars, accepting, fatal, engineVars, textVars>>

StopServer ==
    /\ owner = "join" /\ engine = "ended"
    /\ owner' = "stopped"
    /\ UNCHANGED <<serveVars, accepting, engine, fatal, engineVars, textVars>>

-----------------------------------------------------------------------------
ServerInit ==
    /\ line = <<>> /\ kind = [c \in Conns |-> "none"]
    /\ conn = [c \in Conns |-> "away"] /\ answer = [c \in Conns |-> "none"]
    /\ client = [c \in Conns |-> "here"]
    /\ accepting = TRUE /\ engine = "up" /\ fatal = FALSE /\ owner = "serving"
    /\ held = {} /\ aborts = {}
    /\ channel = [c \in Conns |-> <<>>] /\ produced = [c \in Conns |-> <<>>]
    /\ pending = [c \in Conns |-> <<>>] /\ sent = [c \in Conns |-> <<>>]

Handle(c) ==
    \/ Probe(c) \/ Enter(c) \/ SubmitFlag(c) \/ SubmitDepth(c) \/ Overloaded(c) \/ SubmitPush(c)
    \/ CheckFatal(c) \/ RelayPlain(c) \/ RelayToken(c) \/ RelayBroken(c) \/ RelayEnd(c)

Drainer == BeginDrain \/ StopServer

ServerNext ==
    \/ Dispatch
    \/ \E c \in Conns : Connect(c) \/ Disconnect(c) \/ Handle(c) \/ Cut(c)
    \/ \E c \in Conns : EmitToken(c) \/ EndRequest(c)
    \/ DrainedEngine \/ BackendThrows
    \/ StopAccepting \/ Drainer

ServerSpec == ServerInit /\ [][ServerNext]_serverVars

\* Threads are scheduled, and the engine answers what it holds (RequestsFinish of
\* Scheduler, ShutdownReturns of Engine).  Nobody has to connect, to disconnect or
\* to send a signal.
FairServerSpec ==
    /\ ServerSpec
    /\ WF_serverVars(Dispatch)
    /\ \A c \in Conns : WF_serverVars(Handle(c)) /\ WF_serverVars(EndRequest(c))
    /\ WF_serverVars(DrainedEngine)
    /\ WF_serverVars(Drainer)

-----------------------------------------------------------------------------
(* Properties.                                                             *)

\* The bytes of the tokens in a channel.
Joined(q) ==
    LET upto[k \in 0..Len(q)] ==
            IF k = 0 THEN <<>> ELSE IF q[k] = End THEN upto[k - 1] ELSE upto[k - 1] \o q[k]
    IN  upto[Len(q)]

Queued(c) == Joined(channel[c])

\* "Buffers bytes until they form complete UTF-8 so streamed chunks never split a
\* multibyte character" (Utf8Buffer): while a stream runs, what the client has is
\* whole characters, what is held back is less than one, and between the client,
\* the buffer and the channel no byte is lost or repeated.  A completion's stream,
\* and an answer that is not streamed, end with all of the text.
StreamIntegrity ==
    \A c \in Conns :
        /\ conn[c] = "relay" /\ Streams(c) =>
              /\ Whole(sent[c]) /\ Len(pending[c]) <= 3
              /\ sent[c] \o pending[c] \o Queued(c) = produced[c]
        /\ answer[c] = "200" /\ kind[c] \in {"plain", "sse"} => sent[c] = produced[c]

\* The engine does not work for a request nobody reads any more, unless it has been
\* told to stop: "if the client disconnects we abort the sequence" (handle).
NoOrphanWork ==
    engine # "ended" => \A c \in held : conn[c] = "done" => c \in aborts

\* As long as the engine is up every connection is answered, probes too: no handler
\* thread is kept for ever.
AnsweredWhileUp ==
    \A c \in Conns : conn[c] # "away" ~> conn[c] = "done" \/ engine = "ended"

=============================================================================
