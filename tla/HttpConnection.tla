--------------------------- MODULE HttpConnection ---------------------------
(***************************************************************************)
(* One connection of the HTTP/1.1 server: a client that may pipeline its    *)
(* requests, wait for 100 Continue, stall or go away, and serve_connection  *)
(* with read_head, the framed request body (Content-Length or chunked, a    *)
(* handler's limit, an absolute deadline), the drain of an unread rest, the *)
(* response and the lingering close.                                       *)
(*                                                                         *)
(* The wire carries tokens: a head, a byte of a body, and for chunked       *)
(* bodies a size line, the line break after a chunk, trailer lines and the  *)
(* empty line after the last chunk.  A read takes one byte; larger reads    *)
(* are sequences of such reads.                                            *)
(***************************************************************************)
EXTENDS Integers, Sequences

CONSTANTS
    BODY_LIMIT,    \* what a handler's limit_body admits, in bytes
    DRAIN_LIMIT,   \* the unread rest that is drained, 256 KiB in the code
    MaxBody,       \* bound: length of a request body
    MaxRequests    \* bound: requests on the connection

ASSUME HttpAssumption ==
    {BODY_LIMIT, DRAIN_LIMIT, MaxBody, MaxRequests} \subseteq Nat

VARIABLES
    wire,       \* tokens sent and not yet read
    client,     \* [sent, todo, waits, gone]
    server,     \* [at, keep, body]
    replies,    \* final responses the client got, by request number
    invited,    \* requests answered with 100 Continue
    whole       \* history: what the handler took as the complete body

httpVars == <<wire, client, server, replies, invited, whole>>

Byte == [t |-> "byte", n |-> 0]
Size(n) == [t |-> "size", n |-> n]
LineBreak == [t |-> "break", n |-> 0]
Trailer == [t |-> "trailer", n |-> 0]

(* The request heads: framing, announced length, Expect and Connection. *)
Framings == {"length", "chunked"}

HeadOf(id, framing, n, expect, last) ==
    [t |-> "head", id |-> id, framing |-> framing, n |-> n, expect |-> expect, last |-> last]

Bytes(n) == [i \in 1 .. n |-> Byte]

(* A body as the client encodes it: one chunk, or chunks of one byte. *)
Encodings(framing, n) ==
    IF framing = "length" THEN {Bytes(n)}
    ELSE LET end == <<Size(0), LineBreak>>
             one == <<Size(n)>> \o Bytes(n) \o <<LineBreak>>
             single == <<Size(1), Byte, LineBreak>>
         IN  IF n = 0 THEN {end} ELSE {one \o end} \union (IF n = 2 THEN {single \o single \o end} ELSE {})

(* Body: `remaining` counts the bytes of the message or of the chunk;
   `trailers` holds while a read is in the loop over the lines after the last
   chunk; `limit` is -1 when no handler set one; `want` and `id` are history. *)
NoBody ==
    [framing |-> "length", remaining |-> 0, crlf |-> FALSE, trailers |-> FALSE,
     done |-> FALSE, limit |-> -1, consumed |-> 0, pending |-> FALSE, exceeded |-> FALSE,
     late |-> FALSE, drained |-> 0, want |-> 0, id |-> 0]

HttpInit ==
    /\ wire = <<>>
    /\ client = [sent |-> 0, todo |-> <<>>, waits |-> FALSE, gone |-> FALSE]
    /\ server = [at |-> "head", keep |-> TRUE, body |-> NoBody]
    /\ replies = <<>> /\ invited = {} /\ whole = {}

-----------------------------------------------------------------------------
(* The client: one request after the other, without waiting for answers
   unless it announced Expect: 100-continue. *)

Closed == server.at \in {"linger", "closed"}

SendHead ==
    /\ ~client.gone /\ client.todo = <<>> /\ client.sent < MaxRequests /\ ~Closed
    /\ \E framing \in Framings, n \in 0 .. MaxBody, expect, last \in BOOLEAN :
        \E body \in Encodings(framing, n) :
            /\ expect => framing = "chunked" \/ n > 0
            /\ wire' = Append(wire, HeadOf(client.sent + 1, framing, n, expect, last))
            /\ client' = [client EXCEPT !.sent = @ + 1, !.todo = body, !.waits = expect]
    /\ UNCHANGED <<server, replies, invited, whole>>

(* The body, or a part of it before the connection is lost, or all of a
   chunked one but the empty line at its end, once invited or when the client
   is tired of waiting; a client that got its final answer instead does not
   send it.  Bound: before the empty line a client pauses only if all it sent
   before this body has been read. *)
SendBody ==
    /\ ~client.gone /\ client.todo # <<>> /\ ~Closed
    /\ \/ /\ client.waits /\ client.sent <= Len(replies)
          /\ client' = [client EXCEPT !.todo = <<>>, !.waits = FALSE]
          /\ UNCHANGED wire
       \/ /\ client.waits => client.sent > Len(replies)
          /\ \E k \in 1 .. Len(client.todo) :
                /\ wire' = wire \o SubSeq(client.todo, 1, k)
                /\ \/ client' = [client EXCEPT !.todo = <<>>, !.waits = FALSE,
                                   !.gone = k < Len(client.todo)]
                   \/ /\ wire = <<>> /\ client.todo[k] = Size(0)
                      /\ client' = [client EXCEPT !.todo = <<LineBreak>>, !.waits = FALSE]
    /\ UNCHANGED <<server, replies, invited, whole>>

(* One more line before the empty one, as many as the client likes; bound: at
   most one of them is unread. *)
SendTrailer ==
    /\ ~client.gone /\ client.todo = <<LineBreak>> /\ ~Closed
    /\ \A i \in DOMAIN wire : wire[i] # Trailer
    /\ wire' = Append(wire, Trailer)
    /\ UNCHANGED <<client, server, replies, invited, whole>>

Leave ==
    /\ ~client.gone /\ server.at # "closed"
    /\ client' = [client EXCEPT !.gone = TRUE]
    /\ UNCHANGED <<wire, server, replies, invited, whole>>

-----------------------------------------------------------------------------
(* read_head. *)

ToBody(b) == server' = [server EXCEPT !.body = b]

(* Nothing more comes: the peer closed, or the idle timeout passed. *)
HeadClosed ==
    /\ server.at = "head" /\ wire = <<>>
    /\ server' = [server EXCEPT !.at = "closed"]
    /\ UNCHANGED <<wire, client, replies, invited, whole>>

(* The request serve_connection builds from a head. *)
Received(h) ==
    [at |-> "handler", keep |-> ~h.last,
     body |-> [NoBody EXCEPT !.framing = h.framing,
                 !.remaining = IF h.framing = "length" THEN h.n ELSE 0,
                 !.pending = h.expect, !.want = h.n, !.id = h.id]]

read_head ==
    /\ server.at = "head" /\ wire # <<>>
    /\ wire' = Tail(wire)
    /\ LET h == Head(wire)
       IN  server' =
             IF h.t # "head"
             THEN [server EXCEPT !.at = "closed"]      \* simple_error: malformed request
             ELSE Received(h)
    /\ UNCHANGED <<client, replies, invited, whole>>

-----------------------------------------------------------------------------
(* Body. *)

finished(b) == IF b.framing = "chunked" THEN b.done ELSE b.remaining = 0

Failed(b) == [result |-> "error", body |-> b, rest |-> wire]

(* read_chunked: the line break of the last chunk, the next size, then a byte
   or, after the last chunk, the lines that ReadTrailer reads.  A connection
   that ends inside is an error. *)
read_chunked(b) ==
    IF b.done THEN [result |-> "end", body |-> b, rest |-> wire]
    ELSE IF b.remaining > 0
    THEN IF wire = <<>> THEN Failed(b)
         ELSE [result |-> "byte", body |-> [b EXCEPT !.remaining = @ - 1], rest |-> Tail(wire)]
    ELSE LET skip == IF b.crlf THEN 1 ELSE 0
         IN  IF Len(wire) <= skip THEN Failed(b)
             ELSE LET size == wire[skip + 1]
                      rest == SubSeq(wire, skip + 2, Len(wire))
                  IN  IF size.t # "size" \/ (b.crlf /\ wire[1] # LineBreak) THEN Failed(b)
                      ELSE IF size.n = 0
                      THEN [result |-> "trailers", rest |-> rest,
                            body |-> [b EXCEPT !.trailers = TRUE, !.crlf = FALSE]]
                      ELSE IF rest = <<>> THEN Failed(b)
                      ELSE [result |-> "byte", rest |-> Tail(rest),
                            body |-> [b EXCEPT !.remaining = size.n - 1, !.crlf = TRUE]]

(* The same for a body of known length. *)
read_length(b) ==
    IF b.remaining = 0 THEN [result |-> "end", body |-> b, rest |-> wire]
    ELSE IF wire = <<>> THEN Failed(b)
    ELSE [result |-> "byte", body |-> [b EXCEPT !.remaining = @ - 1], rest |-> Tail(wire)]

(* read_framed: 100 Continue goes out first, then the deadline is tested. *)
read_framed(b) ==
    LET asked == [b EXCEPT !.pending = FALSE]
    IN  IF b.late THEN Failed(asked)
        ELSE IF b.framing = "chunked" THEN read_chunked(asked) ELSE read_length(asked)

(* A body announced with Expect and known to be over the limit is refused
   without an invitation. *)
Refused(b) ==
    b.limit >= 0 /\ b.pending /\ b.framing = "length" /\ b.remaining > b.limit

(* Body::read: beyond the limit one more byte proves the body too large. *)
read(b) ==
    LET r == read_framed(b)
    IN  IF Refused(b)
        THEN Failed([b EXCEPT !.pending = FALSE, !.exceeded = TRUE])
        ELSE IF r.result # "byte" THEN r
        ELSE IF b.limit >= 0 /\ b.consumed >= b.limit
        THEN [r EXCEPT !.result = "error", !.body.exceeded = TRUE]
        ELSE [r EXCEPT !.body.consumed = @ + 1]

(* What a read may wait for: everything up to the next byte is there. *)
Waits(b) ==
    /\ ~b.late /\ ~client.gone /\ ~Refused(b) /\ ~finished(b)
    /\ read_framed(b).result = "error"
    /\ \/ wire = <<>>
       \/ b.framing = "chunked" /\ Len(wire) <= 2

(* A read sends the invitation before it waits. *)
Invite ==
    /\ server.at = "handler" /\ server.body.pending /\ ~Refused(server.body)
    /\ ToBody([server.body EXCEPT !.pending = FALSE])
    /\ invited' = invited \union {server.body.id}
    /\ client' = [client EXCEPT !.waits = IF client.sent = server.body.id THEN FALSE ELSE @]
    /\ UNCHANGED <<wire, replies, whole>>

(* The end of the body, of which the handler may have the whole. *)
Took(b) == whole' = whole \union {<<b.consumed, b.want>>}

(* One read of the handler; it may take the end as the complete body. *)
HandlerReads ==
    /\ server.at = "handler" /\ ~server.body.trailers /\ ~Waits(server.body)
    /\ server.body.pending => Refused(server.body)
    /\ LET r == read(server.body)
       IN  /\ wire' = r.rest
           /\ server' = [server EXCEPT !.body = r.body,
                           !.at = IF r.result \in {"byte", "trailers"} THEN "handler" ELSE "respond"]
           /\ IF r.result = "end" THEN Took(r.body) ELSE UNCHANGED whole
    /\ UNCHANGED <<client, replies, invited>>

(* The loop of read_chunked over the lines after the last chunk, in a read of
   the handler or of the drain.  The read's deadline is not tested again: only
   the socket's timeout, of a line that does not come, or the peer's close
   ends a read here before the empty line. *)
ReadTrailer ==
    /\ server.body.trailers
    /\ LET after == IF server.at = "handler" THEN "respond" ELSE "write"
       IN  \/ /\ wire # <<>> /\ Head(wire) = Trailer
              /\ wire' = Tail(wire) /\ UNCHANGED <<server, whole>>
           \/ /\ wire # <<>> /\ Head(wire) = LineBreak
              /\ wire' = Tail(wire)
              /\ server' = [server EXCEPT !.at = after, !.body.trailers = FALSE, !.body.done = TRUE]
              /\ IF server.at = "handler" THEN Took(server.body) ELSE UNCHANGED whole
           \/ /\ wire = <<>>
              /\ server' = [server EXCEPT !.at = after, !.body.trailers = FALSE, !.body.late = TRUE]
              /\ UNCHANGED <<wire, whole>>
    /\ UNCHANGED <<client, replies, invited>>

limit_body ==
    /\ server.at = "handler" /\ ~server.body.trailers /\ server.body.limit < 0
    /\ ToBody([server.body EXCEPT !.limit = server.body.consumed + BODY_LIMIT])
    /\ UNCHANGED <<wire, client, replies, invited, whole>>

(* The deadline of the whole body, which a handler may have extended. *)
DeadlinePasses ==
    /\ server.at \in {"handler", "respond", "drain"} /\ ~server.body.late
    /\ ToBody([server.body EXCEPT !.late = TRUE])
    /\ UNCHANGED <<wire, client, replies, invited, whole>>

(* The handler is done, having read as much as it wanted. *)
HandlerReturns ==
    /\ server.at \in {"handler", "respond"} /\ ~server.body.trailers
    /\ LET b == server.body
       IN  server' = [server EXCEPT
                        !.at = IF finished(b) \/ b.pending \/ b.exceeded THEN "write" ELSE "drain",
                        !.body.limit = -1]
    /\ UNCHANGED <<wire, client, replies, invited, whole>>

(* A small rest is read so that the connection can be reused. *)
Drain ==
    /\ server.at = "drain" /\ ~server.body.trailers
    /\ LET b == server.body
           r == read(b)
       IN  IF b.drained >= DRAIN_LIMIT
           THEN server' = [server EXCEPT !.at = "write"] /\ UNCHANGED wire
           ELSE /\ ~Waits(b)
                /\ wire' = r.rest
                /\ server' = [server EXCEPT
                                !.body = [r.body EXCEPT !.drained = b.drained + 1],
                                !.at = IF r.result \in {"byte", "trailers"} THEN "drain" ELSE "write"]
    /\ UNCHANGED <<client, replies, invited, whole>>

(* Mutants: the rest of a body does not matter; a failed write goes unnoticed. *)
ReusableUnread(b) == server.keep

Reusable(b) == server.keep /\ finished(b) /\ ~b.exceeded

(* write_response: a body not read to its end, or one over the limit, closes
   the connection.  The client may be gone, or not take the answer in time. *)
write_response ==
    /\ server.at = "write"
    /\ LET b == server.body
       IN  \/ /\ ~client.gone
              /\ replies' = Append(replies, b.id)
              /\ server' = [at |-> IF Reusable(b) THEN "head" ELSE "linger", keep |-> TRUE,
                            body |-> NoBody]
              /\ UNCHANGED wire
           \/ /\ server' = [at |-> "closed", keep |-> TRUE, body |-> NoBody]
              /\ wire' = <<>> /\ UNCHANGED replies
    /\ UNCHANGED <<client, invited, whole>>

(* linger_close: input is discarded until the peer closes or 500 ms passed. *)
linger_close ==
    /\ server.at = "linger"
    /\ wire' = <<>>
    /\ server' = [server EXCEPT !.at = "closed"]
    /\ UNCHANGED <<client, replies, invited, whole>>

ServerStep ==
    \/ HeadClosed \/ read_head \/ Invite \/ HandlerReads \/ ReadTrailer
    \/ HandlerReturns \/ DeadlinePasses \/ Drain \/ write_response \/ linger_close

HttpNext == SendHead \/ SendBody \/ SendTrailer \/ Leave \/ limit_body \/ ServerStep

(* The server's threads run; every wait of theirs has a timeout. *)
HttpSpec == HttpInit /\ [][HttpNext]_httpVars /\ WF_httpVars(ServerStep)

-----------------------------------------------------------------------------
(* Properties. *)

HttpTypeOK ==
    /\ client.sent \in 0 .. MaxRequests /\ client.gone \in BOOLEAN
    /\ server.at \in {"head", "handler", "respond", "drain", "write", "linger", "closed"}
    /\ server.body.framing \in Framings
    /\ server.body.remaining \in 0 .. MaxBody /\ server.body.consumed \in 0 .. MaxBody
    /\ Len(replies) <= client.sent /\ invited \subseteq 1 .. MaxRequests

(* However a handler, a limit, the drain or a deadline ended the previous
   body, the next head is read where a head begins: the server never takes
   body bytes for a request (serve_connection's decision to reuse the
   connection against Body::finished). *)
FramingInSync ==
    server.at = "head" /\ wire # <<>> => Head(wire).t = "head"

(* A handler that reads to the end has got the whole body: neither a lost
   connection, nor a passed deadline, nor a limit, nor the framing makes a
   truncated body look complete (Body::read, read_chunked). *)
WholeBodyOrError == \A w \in whole : w[1] = w[2]

(* Every request is answered once and in order, and an unread rest of one
   never costs the answer of another. *)
AnswersInOrder == \A i \in DOMAIN replies : replies[i] = i

(* "refuse now instead of inviting the body with 100 Continue": a body of
   announced length over the handler's limit is not invited. *)
NoVainInvitation ==
    [][ \A id \in invited' \ invited :
          server.body.limit >= 0 /\ server.body.framing = "length"
              => server.body.want <= server.body.limit ]_httpVars

(* The connection's thread ends whatever the client sends or leaves undone,
   with one exception, which is the code's: a client that goes on sending
   trailer lines keeps it, since read_framed tests the deadline before the
   loop of read_chunked and not in it. *)
ConnectionEnds == <>(server.at = "closed") \/ []<><<SendTrailer>>_httpVars

\* On a connection that is kept the next request is read from its first byte, a
\* handler is given a whole body or an error, and answers come in request order.
HttpSound ==
  /\ HttpTypeOK /\ FramingInSync /\ WholeBodyOrError /\ AnswersInOrder
=============================================================================
