------------------------------- MODULE GdbRemote -------------------------------
(***************************************************************************)
(* One connection of gdb (src/debugger/gdb_debugger.cpp): the thread that  *)
(* serves it, Run(), the packets and acknowledgements on the socket in     *)
(* both directions, and a gdb at the other end, which repeats a request    *)
(* when the acknowledgement is late and refuses a damaged reply.           *)
(*                                                                         *)
(* The peer's bytes are read one recv() at a time, so that `up' is a       *)
(* sequence of what one recv() can take: "$", the pieces of a request's    *)
(* text (a "+" or "-" in it is a piece of its own, since it can be read as *)
(* an acknowledgement), "#", and the two digits of the checksum together,  *)
(* which stand as the request they were made for, or, damaged, as "?".     *)
(* What the server sends is read packet by packet: `down' holds whole ones.*)
(*                                                                         *)
(* The sum of a line is the code's, over all that request() has put into   *)
(* the line.  What is damaged on the way are digits, and damaged digits    *)
(* are taken to fit no line: they would, by chance, once in 256 times.     *)
(* The contents of the replies are left out.                               *)
(* state() may be stopped or not when it is read: Debugger says when it is.*)
(***************************************************************************)
EXTENDS Naturals, Sequences, SequencesExt, FiniteSets

CONSTANTS
  Requests,     \* packets gdb may send
  Text,         \* the pieces of each request's text
  Sum,          \* the sum of the bytes of each piece
  VPackets,     \* those that handle_v_line() answers only when stopped
  Whole,        \* those that it compares with the whole line
  Malformed,    \* H lines that are not answered at all
  NoRequest,    \* none of them
  Retries,      \* how often a reply is sent (10)
  MaxAsked,     \* bound: requests gdb makes
  MaxLate,      \* bound: timeouts of gdb
  MaxSpoilt,    \* bound: packets that arrive damaged, split or are misread
  MaxRefused    \* bound: replies that arrive damaged

ASSUME GdbAssumption ==
  /\ Text \in [Requests -> Seq(STRING \ {"$", "#"})]
  /\ \A r, q \in Requests : Text[r] = Text[q] => r = q
  /\ VPackets \subseteq Requests /\ Malformed \subseteq Requests \ VPackets
  /\ Whole \subseteq Requests
  /\ {"$", "#", "+", "-", "?"} \cap Requests = {} /\ NoRequest \notin Requests
  /\ Retries \in Nat \ {0}
  /\ MaxAsked \in Nat /\ MaxLate \in Nat /\ MaxSpoilt \in Nat /\ MaxRefused \in Nat

VARIABLES
  up, down,     \* what is under way to the server and to gdb
  at,           \* where the server's thread is
  sock,         \* sock_ is not INVALID_SOCKET
  line,         \* line of request(), and then the argument of handle_line()
  count,        \* count of response()
  reply,        \* the request that resp answers
  peer,         \* where gdb is
  asking,       \* the request gdb is at
  asked,        \* bound: requests made
  late,         \* history and bound: timeouts of gdb
  spoilt,       \* history and bound: packets damaged, split or misread
  refused,      \* history and bound: replies gdb refused
  sound,        \* history: how often each request was sent undamaged
  handled,      \* history: how often each request reached handle_line()
  joined        \* history: a line was accepted that is not one request's

server == <<at, sock, line, count, reply, handled, joined>>
gdb == <<peer, asking, asked, late, refused, sound>>
gdbVars == <<up, down, spoilt, server, gdb>>

ServerPlaces == {"select", "start", "read", "digits", "handle", "poll",
                 "send", "ack", "sleep", "gone"}
PeerPlaces == {"idle", "wait ack", "wait reply", "left"}

GdbInit ==
  /\ up = <<>> /\ down = <<>>
  /\ at = "select" /\ sock = TRUE /\ line = <<>> /\ count = 0 /\ reply = NoRequest
  /\ peer = "idle" /\ asking = NoRequest
  /\ asked = 0 /\ late = 0 /\ spoilt = 0 /\ refused = 0
  /\ sound = [r \in Requests |-> 0] /\ handled = sound /\ joined = FALSE

-------------------------------------------------------------------------------
(* The thread of the connection.                                           *)

(* A recv() of the server takes something sent, or meets the end.          *)
Receive == up # <<>> /\ up' = Tail(up)
MeetEnd == up = <<>> /\ peer = "left" /\ UNCHANGED up

Ack == [type |-> "ack", to |-> NoRequest]
Reply(r) == [type |-> "reply", to |-> r]
(* send(): what gdb no longer reads is lost.                               *)
Send(m) == down' = IF peer = "left" THEN down ELSE Append(down, m)

(* The head of the loop of Run().  A select() that times out changes       *)
(* nothing; a socket found invalid ends the loop.                          *)
Select ==
  /\ at = "select"
  /\ sock => up # <<>> \/ peer = "left"
  /\ at' = IF sock THEN "start" ELSE "gone"
  /\ UNCHANGED <<up, down, spoilt, sock, line, count, reply, handled, joined, gdb>>

RunOnAtTheEnd ==                 \* wrong: an empty request does not end Run()
  /\ at \in {"start", "read", "digits"} /\ MeetEnd
  /\ at' = "select"
  /\ UNCHANGED <<down, spoilt, sock, line, count, reply, handled, joined, gdb>>

(* recv() returns 0 within request(), which returns an empty line: Run()   *)
(* ends and the destructors detach the debugger and close the socket.      *)
EndOfRequest ==
  /\ at \in {"start", "read", "digits"} /\ MeetEnd
  /\ at' = "gone"
  /\ UNCHANGED <<down, spoilt, sock, line, count, reply, handled, joined, gdb>>

(* wait_for_char() skips everything before a "$".                          *)
WaitForStart ==
  /\ at = "start" /\ Receive
  /\ IF Head(up) = "$" THEN at' = "read" /\ line' = <<>> ELSE UNCHANGED <<at, line>>
  /\ UNCHANGED <<down, spoilt, sock, count, reply, handled, joined, gdb>>

ReadLine ==
  /\ at = "read" /\ Receive
  /\ IF Head(up) = "#" THEN at' = "digits" /\ UNCHANGED line
                       ELSE line' = Append(line, Head(up)) /\ UNCHANGED at
  /\ UNCHANGED <<down, spoilt, sock, count, reply, handled, joined, gdb>>

(* validate_checksum(): cur, over the whole of the line.                   *)
Checksum(l) == FoldLeft(LAMBDA cur, piece : (cur + Sum[piece]) % 256, 0, l)
Validates == Head(up) \in Requests /\ Checksum(line) = Checksum(Text[Head(up)])

AcceptAny ==                     \* wrong: the checksum is not looked at
  /\ at = "digits" /\ Receive
  /\ at' = (IF line = <<>> THEN "gone" ELSE "handle") /\ Send(Ack)
  /\ UNCHANGED <<spoilt, sock, line, count, reply, handled, joined, gdb>>

(* An empty line is acknowledged and taken for the end of the connection.  *)
Accept ==
  /\ at = "digits" /\ Receive /\ Validates
  /\ at' = (IF line = <<>> THEN "gone" ELSE "handle") /\ Send(Ack)
  /\ joined' = (joined \/ line # Text[Head(up)])
  /\ UNCHANGED <<spoilt, sock, line, count, reply, handled, gdb>>

(* No nak, and request() reads on into the same line, "$" and all, whose   *)
(* sum may fit the digits of a later packet.  cs has no terminator where   *)
(* it is made a string: digits that happen to follow it in memory make a   *)
(* good checksum bad.                                                      *)
Refuse ==
  /\ at = "digits" /\ Receive
  /\ spoilt' = (IF Validates THEN spoilt + 1 ELSE spoilt) /\ spoilt' <= MaxSpoilt
  /\ at' = "read"
  /\ UNCHANGED <<down, sock, line, count, reply, handled, joined, gdb>>

(* Only the first digit is there when both are asked for: the line is      *)
(* given up and Run() ends.                                                *)
ShortRead ==
  /\ at = "digits" /\ Receive /\ spoilt < MaxSpoilt
  /\ spoilt' = spoilt + 1 /\ at' = "gone"
  /\ UNCHANGED <<down, sock, line, count, reply, handled, joined, gdb>>

(* The handlers look at the beginning of the line: one that holds several  *)
(* packets is taken for the first.                                         *)
TakenFor(r) ==
  /\ IsPrefix(Text[r], line)
  /\ \A q \in Requests : IsPrefix(Text[q], line) => Len(Text[q]) <= Len(Text[r])
PollsFirst(r) == r \in VPackets \cup (IF line = Text[r] THEN {} ELSE Whole)

(* handle_line() and the handler it calls, up to the reply.                *)
Handle == \E r \in Requests :
  /\ at = "handle" /\ TakenFor(r)
  /\ handled' = [handled EXCEPT ![r] = @ + 1]
  /\ reply' = r /\ count' = 0
  /\ at' = (IF PollsFirst(r) THEN "poll" ELSE IF r \in Malformed THEN "select" ELSE "send")
  /\ UNCHANGED <<up, down, spoilt, sock, line, joined, gdb>>

(* S05 if the program is found stopped within the ten polls, else nothing. *)
Poll ==
  /\ at = "poll"
  /\ at' \in {"send", "select"}
  /\ UNCHANGED <<up, down, spoilt, sock, line, count, reply, handled, joined, gdb>>

SendUnanswered ==                \* wrong: the acknowledgement is not waited for
  /\ at = "send"
  /\ IF sock THEN Send(Reply(reply)) ELSE UNCHANGED down
  /\ at' = "select" /\ count' = count + 1
  /\ UNCHANGED <<up, spoilt, sock, line, reply, handled, joined, gdb>>

(* response(): on a socket that is no longer valid nothing is sent.        *)
SendReply ==
  /\ at = "send"
  /\ IF sock THEN Send(Reply(reply)) ELSE UNCHANGED down
  /\ at' = "ack" /\ count' = count + 1
  /\ UNCHANGED <<up, spoilt, sock, line, reply, handled, joined, gdb>>

(* wait_ack_or_nak(): everything but "+" and "-" is skipped, a request of  *)
(* gdb included.                                                           *)
WaitForAck ==
  /\ at = "ack" /\ sock /\ Receive
  /\ at' = (IF Head(up) = "+" THEN "select" ELSE IF Head(up) = "-" THEN "sleep" ELSE "ack")
  /\ UNCHANGED <<down, spoilt, sock, line, count, reply, handled, joined, gdb>>

(* recv() returns 0, or -1 once the socket is invalid.                     *)
NoAck ==
  /\ at = "ack"
  /\ IF sock THEN MeetEnd ELSE UNCHANGED up
  /\ sock' = FALSE /\ at' = "sleep"
  /\ UNCHANGED <<down, spoilt, line, count, reply, handled, joined, gdb>>

GiveUpAtOnce ==                  \* wrong: no second try
  /\ at = "sleep"
  /\ at' = "select"
  /\ UNCHANGED <<up, down, spoilt, sock, line, count, reply, handled, joined, gdb>>

OnceMore ==                      \* wrong: one try too many
  /\ at = "sleep"
  /\ at' = (IF count <= Retries THEN "send" ELSE "select")
  /\ UNCHANGED <<up, down, spoilt, sock, line, count, reply, handled, joined, gdb>>

(* After the sleep the reply is sent again, or given up.                   *)
TryAgain ==
  /\ at = "sleep"
  /\ at' = (IF count < Retries THEN "send" ELSE "select")
  /\ UNCHANGED <<up, down, spoilt, sock, line, count, reply, handled, joined, gdb>>

Server ==
  \/ Select \/ EndOfRequest \/ WaitForStart \/ ReadLine
  \/ Accept \/ Refuse \/ ShortRead \/ Handle \/ Poll
  \/ SendReply \/ WaitForAck \/ NoAck \/ TryAgain

-------------------------------------------------------------------------------
(* gdb: one request at a time.                                             *)

Packet(r, digits) == <<"$">> \o Text[r] \o <<"#", digits>>

(* A packet arrives as it was sent or with a checksum that does not fit.   *)
Transmit(r) ==
  \/ /\ up' = up \o Packet(r, r)
     /\ sound' = [sound EXCEPT ![r] = @ + 1] /\ UNCHANGED spoilt
  \/ /\ spoilt < MaxSpoilt /\ spoilt' = spoilt + 1
     /\ up' = up \o Packet(r, "?") /\ UNCHANGED sound

Ask(r) ==
  /\ peer = "idle" /\ asked < MaxAsked
  /\ Transmit(r)
  /\ peer' = "wait ack" /\ asking' = r /\ asked' = asked + 1
  /\ UNCHANGED <<down, server, late, refused>>

(* The acknowledgement is late: the request is sent again.                 *)
Repeat ==
  /\ peer = "wait ack" /\ late < MaxLate
  /\ Transmit(asking)
  /\ late' = late + 1
  /\ UNCHANGED <<down, server, peer, asking, asked, refused>>

(* Something arrives: a reply met before the acknowledgement is            *)
(* acknowledged and ignored, an acknowledgement before the reply ignored.  *)
TakeAck ==
  /\ peer = "wait ack" /\ down # <<>> /\ down' = Tail(down)
  /\ IF Head(down) = Ack THEN peer' = "wait reply" /\ UNCHANGED up
                         ELSE up' = Append(up, "+") /\ UNCHANGED peer
  /\ UNCHANGED <<server, spoilt, asking, asked, late, refused, sound>>

TakeReply ==
  /\ peer = "wait reply" /\ down # <<>> /\ down' = Tail(down)
  /\ IF Head(down) = Ack THEN UNCHANGED <<up, peer>>
                         ELSE up' = Append(up, "+") /\ peer' = "idle"
  /\ UNCHANGED <<server, spoilt, asking, asked, late, refused, sound>>

RefuseReply ==
  /\ peer = "wait reply" /\ down # <<>> /\ down' = Tail(down)
  /\ Head(down) # Ack /\ refused < MaxRefused
  /\ up' = Append(up, "-") /\ refused' = refused + 1
  /\ UNCHANGED <<server, spoilt, peer, asking, asked, late, sound>>

(* The reply is late: gdb does without it.                                 *)
GiveUp ==
  /\ peer = "wait reply" /\ late < MaxLate
  /\ peer' = "idle" /\ late' = late + 1
  /\ UNCHANGED <<up, down, spoilt, server, asking, asked, refused, sound>>

Leave ==
  /\ peer # "left" /\ peer' = "left"
  /\ UNCHANGED <<up, down, spoilt, server, asking, asked, late, refused, sound>>

GdbReads == TakeAck \/ TakeReply \/ RefuseReply
GdbActs == Repeat \/ GiveUp \/ Leave \/ \E r \in Requests : Ask(r)

GdbNext == Server \/ GdbReads \/ GdbActs

GdbSpec == GdbInit /\ [][GdbNext]_gdbVars

(* The thread is scheduled again and again, and gdb reads what arrives;    *)
(* what it sends, and when it gives up, is its own affair.                 *)
FairGdbSpec == GdbSpec /\ WF_gdbVars(Server) /\ WF_gdbVars(GdbReads)

-------------------------------------------------------------------------------
(* Types of the variables.                                                 *)
Piece == UNION {{Text[r][i] : i \in DOMAIN Text[r]} : r \in Requests}
Wire == {"$", "#", "+", "-", "?"} \cup Requests \cup Piece
GdbTypeOK ==
  /\ up \in Seq(Wire) /\ down \in Seq({Ack} \cup {Reply(r) : r \in Requests})
  /\ at \in ServerPlaces /\ sock \in BOOLEAN /\ line \in Seq(Wire)
  /\ count \in 0..Retries /\ reply \in Requests \cup {NoRequest}
  /\ peer \in PeerPlaces /\ asking \in Requests \cup {NoRequest}
  /\ asked \in 0..MaxAsked /\ late \in 0..MaxLate
  /\ spoilt \in 0..MaxSpoilt /\ refused \in 0..MaxRefused
  /\ sound \in [Requests -> Nat] /\ handled \in [Requests -> Nat] /\ joined \in BOOLEAN

(* No request is handled more often than it was sent undamaged, whatever   *)
(* is damaged, repeated, swallowed or read half way (gdb_debugger.cpp      *)
(* 94-140, 188-194): nothing that gdb did not ask for is carried out.  The *)
(* exception is a line of several packets whose sum happens to fit: it is  *)
(* taken for the first of them, which was refused.                         *)
HandledWasSent == ~joined => \A r \in Requests : handled[r] <= sound[r]

(* As long as gdb repeats at most one request, the reply it takes for the  *)
(* one it is at is the reply to that one: neither an acknowledgement read  *)
(* out of a repeated request, nor a reply sent twice or not waited for,    *)
(* puts the two sides out of step (gdb_debugger.cpp 38-78).                *)
TakesReply == peer = "wait reply" /\ peer' = "idle" /\ down' # down
AnswersTheRequest ==
  [][late <= 1 /\ TakesReply => Head(down).to = asking]_gdbVars

(* A request that has a reply gets one, if no packet is damaged, split or  *)
(* repeated and fewer replies are refused than response() sends.           *)
Answered == {r \in Requests \ (VPackets \cup Malformed) : Text[r] # <<>>}
RequestIsAnswered ==
  [](\A r \in Answered :
       asking = r /\ peer \in {"wait ack", "wait reply"}
         ~> peer \in {"idle", "left"} \/ late + spoilt > 0 \/ refused >= Retries)

(* When gdb has left, the thread ends, wherever it was: also within the    *)
(* tries of response() on a socket that is gone (gdb_debugger.cpp 40-48).  *)
SessionEnds == peer = "left" ~> at = "gone"
===============================================================================
