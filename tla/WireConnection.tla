--------------------------- MODULE WireConnection ---------------------------
(***************************************************************************)
(* One connection of the KV server: a client that pipelines commands and    *)
(* may send them in pieces, stop in the middle of one or close, and         *)
(* handle_connection with the streaming parser, the dispatch and the drain  *)
(* of rejected writes.                                                      *)
(*                                                                         *)
(* The stream is a sequence of units, each standing for the bytes up to the *)
(* next place where a read may usefully end: the start of a command line,   *)
(* its end, a byte of a body, and the line end after a body.  What a lookup *)
(* answers is in CatalogServer; here it is one of Outcomes.                 *)
(***************************************************************************)
EXTENDS Integers, Sequences, SequencesExt

CONSTANTS
    Keys,         \* arguments of mg
    BodyLengths,  \* lengths of the bodies of ms
    Outcomes,     \* VA, EN, SERVER_ERROR: what a lookup may answer
    MaxCommands   \* bound on the commands of the client

ASSUME WireAssumption ==
    /\ Keys \subseteq Nat /\ BodyLengths \subseteq Nat
    /\ Outcomes \subseteq {"VA", "EN", "SERVER_ERROR"}
    /\ MaxCommands \in Nat

VARIABLES
    issued,    \* the client's commands, in order
    outbox,    \* units the client has not sent
    eof,       \* the client has closed its end
    got,       \* responses the client has received
    inflight,  \* units sent and not read by the server
    buf,       \* read_buf
    wbuf,      \* write_buf
    left,      \* units that drain has to discard
    pc,        \* "read", "parse", "drain", "flush", "closed"
    parsed     \* history: commands the server has parsed

client == <<issued, outbox, eof>>
server == <<buf, wbuf, left, pc, parsed>>
vars == <<client, got, inflight, server>>

Command ==
    [kind : {"mg"}, arg : Keys] \cup [kind : {"ms"}, arg : BodyLengths]
        \cup [kind : {"version", "quit", "md", "bad"}, arg : {0}]

Unit(kind) == [kind |-> kind, arg |-> 0]

Encode(c) ==
    IF c.kind = "ms"
    THEN <<c, Unit("eol")>> \o [i \in 1 .. c.arg |-> Unit("body")] \o <<Unit("crlf")>>
    ELSE <<c, Unit("eol")>>

Encoded(commands) == FlattenSeq([i \in DOMAIN commands |-> Encode(commands[i])])

Response(kind, arg) == [kind |-> kind, arg |-> arg]

WireTypeOK ==
    LET Units == Command \cup {Unit("eol"), Unit("body"), Unit("crlf")}
        Responses == [kind : Outcomes, arg : Keys]
                         \cup [kind : {"VERSION", "READ_ONLY", "ERROR"}, arg : {0}]
    IN  /\ issued \in Seq(Command) /\ Len(issued) <= MaxCommands
        /\ outbox \in Seq(Units) /\ inflight \in Seq(Units) /\ buf \in Seq(Units)
        /\ got \in Seq(Responses) /\ wbuf \in Seq(Responses)
        /\ eof \in BOOLEAN
        /\ left \in {0} \cup {n + 1 : n \in BodyLengths}
        /\ pc \in {"read", "parse", "drain", "flush", "closed"}
        /\ parsed \in 0 .. Len(issued)

Init ==
    /\ issued = <<>> /\ outbox = <<>> /\ eof = FALSE /\ got = <<>>
    /\ inflight = <<>> /\ buf = <<>> /\ wbuf = <<>> /\ left = 0
    /\ pc = "read" /\ parsed = 0

-----------------------------------------------------------------------------
(* The client                                                               *)

Issue(c) ==
    /\ ~eof /\ Len(issued) < MaxCommands
    /\ issued' = Append(issued, c) /\ outbox' = outbox \o Encode(c)
    /\ UNCHANGED <<eof, got, inflight, server>>

Send ==
    /\ ~eof /\ outbox # <<>>
    /\ inflight' = Append(inflight, Head(outbox)) /\ outbox' = Tail(outbox)
    /\ UNCHANGED <<issued, eof, got, server>>

CloseClient ==
    /\ ~eof /\ eof' = TRUE
    /\ UNCHANGED <<issued, outbox, got, inflight, server>>

-----------------------------------------------------------------------------
(* Reading                                                                  *)

\* read_buf appends some of what has arrived.
ReadInto(next) ==
    /\ \E n \in 1 .. Len(inflight) :
          /\ buf' = buf \o SubSeq(inflight, 1, n)
          /\ inflight' = SubSeq(inflight, n + 1, Len(inflight))
    /\ pc' = next
    /\ UNCHANGED <<client, got, wbuf, left, parsed>>

Read ==
    /\ pc = "read"
    /\ ReadInto("parse")

Close ==
    /\ pc' = "closed"
    /\ UNCHANGED <<client, got, inflight, buf, wbuf, left, parsed>>

ReadEof ==
    /\ pc = "read" /\ eof /\ inflight = <<>>
    /\ Close

\* The idle timeout, or an error of the read.
ReadFails ==
    /\ pc = "read"
    /\ Close

-----------------------------------------------------------------------------
(* parse_command on what is buffered                                        *)

IsCommand(u) == u.kind \notin {"eol", "body", "crlf", "bad"}

Incomplete == buf = <<>> \/ (Len(buf) = 1 /\ IsCommand(Head(buf)))

Malformed == buf # <<>> /\ ~IsCommand(Head(buf))

Parsed(kinds) ==
    /\ pc = "parse" /\ Len(buf) > 1 /\ IsCommand(Head(buf)) /\ Head(buf).kind \in kinds
    /\ buf' = SubSeq(buf, 3, Len(buf))
    /\ parsed' = parsed + 1

\* Mutant of ParseIncomplete: the next read does not wait for the flush.
ParseIncompleteReads ==
    /\ pc = "parse" /\ Incomplete
    /\ pc' = "read"
    /\ UNCHANGED <<client, got, inflight, buf, wbuf, left, parsed>>

ParseIncomplete ==
    /\ pc = "parse" /\ Incomplete
    /\ pc' = "flush"
    /\ UNCHANGED <<client, got, inflight, buf, wbuf, left, parsed>>

Received(responses) == IF eof THEN got ELSE got \o responses

\* The last write before the connection closes.  Its result is ignored: if it
\* fails, the client may have received a part of it.
WriteAndClose(responses) ==
    /\ \E n \in 0 .. Len(responses) : got' = Received(SubSeq(responses, 1, n))
    /\ pc' = "closed"

\* The error is written after what is pending.
ParseError ==
    /\ pc = "parse" /\ Malformed
    /\ WriteAndClose(Append(wbuf, Response("ERROR", 0)))
    /\ UNCHANGED <<client, inflight, buf, wbuf, left, parsed>>

-----------------------------------------------------------------------------
(* dispatch                                                                 *)

DispatchMg(outcome) ==
    /\ Parsed({"mg"})
    /\ wbuf' = Append(wbuf, Response(outcome, Head(buf).arg))
    /\ UNCHANGED <<client, got, inflight, left, pc>>

DispatchVersion ==
    /\ Parsed({"version"})
    /\ wbuf' = Append(wbuf, Response("VERSION", 0))
    /\ UNCHANGED <<client, got, inflight, left, pc>>

DispatchQuit ==
    /\ Parsed({"quit"})
    /\ WriteAndClose(wbuf)
    /\ UNCHANGED <<client, inflight, wbuf, left>>

\* A write is refused.  A length of zero is taken for a command without a body.
DispatchWrite ==
    /\ Parsed({"ms", "md"})
    /\ wbuf' = Append(wbuf, Response("READ_ONLY", 0))
    /\ IF Head(buf).arg = 0
       THEN UNCHANGED <<left, pc>>
       ELSE left' = Head(buf).arg + 1 /\ pc' = "drain"
    /\ UNCHANGED <<client, got, inflight>>

-----------------------------------------------------------------------------
(* drain, which reads without a timeout and with the responses unflushed    *)

DrainRead ==
    /\ pc = "drain" /\ Len(buf) < left
    /\ ReadInto("drain")

\* EOF or an error of the read.
DrainFails ==
    /\ pc = "drain" /\ Len(buf) < left
    /\ Close

\* Mutant of DrainDone: the buffer is cleared instead of advanced.
DrainDoneClears ==
    /\ pc = "drain" /\ Len(buf) >= left
    /\ buf' = <<>> /\ left' = 0 /\ pc' = "parse"
    /\ UNCHANGED <<client, got, inflight, wbuf, parsed>>

DrainDone ==
    /\ pc = "drain" /\ Len(buf) >= left
    /\ buf' = SubSeq(buf, left + 1, Len(buf)) /\ left' = 0 /\ pc' = "parse"
    /\ UNCHANGED <<client, got, inflight, wbuf, parsed>>

-----------------------------------------------------------------------------
\* Mutant of Flush: the write buffer is not cleared.
FlushKeeps ==
    /\ pc = "flush"
    /\ got' = Received(wbuf) /\ pc' = "read"
    /\ UNCHANGED <<client, inflight, buf, wbuf, left, parsed>>

Flush ==
    /\ pc = "flush"
    /\ got' = Received(wbuf) /\ wbuf' = <<>> /\ pc' = "read"
    /\ UNCHANGED <<client, inflight, buf, left, parsed>>

\* The write fails, perhaps after a part of it.
FlushFails ==
    /\ pc = "flush" /\ wbuf # <<>>
    /\ WriteAndClose(wbuf)
    /\ UNCHANGED <<client, inflight, buf, wbuf, left, parsed>>

Steps ==
    \/ Read \/ ReadEof
    \/ ParseIncomplete \/ ParseError
    \/ \E outcome \in Outcomes : DispatchMg(outcome)
    \/ DispatchVersion \/ DispatchQuit \/ DispatchWrite
    \/ DrainRead \/ DrainDone
    \/ Flush

Next ==
    \/ \E c \in Command : Issue(c)
    \/ Send \/ CloseClient
    \/ Steps \/ ReadFails \/ DrainFails \/ FlushFails

Spec == Init /\ [][Next]_vars

\* The runtime polls a connection's task while there is something for it to do.
\* The client owes nothing, and a timeout need not happen.
FairSpec == Spec /\ WF_vars(Steps)

-----------------------------------------------------------------------------
\* An ms with an empty body is among the first n commands.
EmptyWriteIn(n) == \E i \in 1 .. n : issued[i].kind = "ms" /\ issued[i].arg = 0

Unparsed == SubSeq(issued, parsed + 1, Len(issued))

Unread == buf \o inflight \o outbox

\* However the stream is cut into reads, the server parses from the first unit of
\* the command after the last one it parsed, and drain ends there: it neither
\* reads a body as commands nor discards a part of the next command.
AtCommandBoundary ==
    IF pc = "drain"
    THEN /\ SubSeq(Unread, left + 1, Len(Unread)) = Encoded(Unparsed)
         /\ Unread[left] = Unit("crlf")
    ELSE Unread = Encoded(Unparsed)

InSync == pc # "closed" /\ ~EmptyWriteIn(parsed) => AtCommandBoundary

\* The same without the exception: a body length of zero is drained like any other,
\* as Command::WriteRejected and Disposition::Drain ask of the caller.
AlwaysInSync == pc # "closed" => AtCommandBoundary

Answers(c, r) ==
    CASE c.kind = "mg" -> r.kind \in Outcomes /\ r.arg = c.arg
      [] c.kind = "version" -> r.kind = "VERSION"
      [] c.kind \in {"ms", "md"} -> r.kind = "READ_ONLY"
      [] OTHER -> r.kind = "ERROR"

\* A pipelining client may match responses to commands by their order: the i-th
\* response answers the i-th command, and none comes twice.
AnswersInOrder ==
    ~EmptyWriteIn(parsed) =>
        /\ Len(got) <= Len(issued)
        /\ \A i \in 1 .. Len(got) : Answers(issued[i], got[i])

FullySent(i) ==
    /\ i <= Len(issued)
    /\ Len(outbox) <= Len(Encoded(SubSeq(issued, i + 1, Len(issued))))

\* drain waits for a body that the client has not sent.
Starved == pc = "drain" /\ Len(buf) < left /\ inflight = <<>>

\* A command that was sent whole is answered, even if the client sends nothing
\* more, unless the connection closes or the client sent the line of a write after
\* it and not yet the body.
EveryCommandAnswered ==
    \A i \in 1 .. MaxCommands :
        FullySent(i) ~> (Len(got) >= i \/ eof \/ pc = "closed" \/ Starved)
=============================================================================
