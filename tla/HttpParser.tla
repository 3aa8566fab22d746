------------------------------ MODULE HttpParser ------------------------------
(***************************************************************************)
(* parse_request (http_parse_request.c) over the read buffer of one        *)
(* connection: the bytes read_connection appends, the lines find_token     *)
(* cuts off, the message body, and the two pointers that are carried from  *)
(* one call to the next.  Around it is what conn_obj.c and run_liso do     *)
(* with a connection between two calls.                                    *)
(*                                                                         *)
(* The text of a line is one symbol and its CR LF another: a segment that  *)
(* ends inside either is to find_token like one that ends between them.    *)
(* Pointers into read_buffer are offsets; outside it lies other memory.    *)
(***************************************************************************)
EXTENDS Integers, SequencesExt, ParseResult

CONSTANTS
  BUF_SIZE,    \* symbols in read_buffer
  SizeT,       \* size_t counts modulo this
  INT_MAX,     \* the largest int
  Scripts,     \* the sequences of requests a client may send
  Deliveries,  \* how the network may cut the stream: "whole", "cut"
  MaxHeaders,  \* bound: headers kept when parse_request is called again
  MaxOverrun   \* bound: how far behind the buffer find_token gets to a CR LF

NULL == -1

-----------------------------------------------------------------------------
(* Symbols, and the requests of the client *)

Methods == {"GET", "POST", "HEAD"}

\* "PUT" and "Accept" stand for what the parser does not know.
Names ==
  Methods \cup {"PUT", "Host", "Hosx", "Content-Length", "Connection", "Accept", ""}

Ints == -INT_MAX - 1..INT_MAX

\* The kinds of uri.
FileUri == 0
CgiUri == 1
RelativeUri == 2
Uris == {FileUri, CgiUri, RelativeUri}

Symbols ==
  { s \in [type : {"eol", "junk", "byte", "line", "header"}, name : Names, value : Ints] :
      s.type = "line" => s.value \in Uris }
EOL == [type |-> "eol", name |-> "", value |-> 0]
Junk == [type |-> "junk", name |-> "", value |-> 0]
Byte(v) == [type |-> "byte", name |-> "", value |-> v]

\* "METHOD uri HTTP/1.1", with the kind of uri in value.
Line(method, uri) == [type |-> "line", name |-> method, value |-> uri]

\* "name: value", the value being what atoi makes of it, of either sign; for
\* Connection, 1 is "close".
Header(name, v) == [type |-> "header", name |-> name, value |-> v]

Requests == [line : Symbols, headers : Seq(Symbols), body : Seq(Symbols)]

\* A request on the wire: its line, its headers and its body.
HeaderLines(q) ==
  [i \in 1..2 * Len(q.headers) |->
     IF i % 2 = 1 THEN q.headers[(i + 1) \div 2] ELSE EOL]
Bytes(q) == <<q.line, EOL>> \o HeaderLines(q) \o <<EOL>> \o q.body

\* What has been sent with the first i requests, for each i.
Sent(requests) ==
  LET sent[i \in 0..Len(requests)] ==
        IF i = 0 THEN <<>> ELSE sent[i - 1] \o Bytes(requests[i])
  IN sent

ASSUME ParserAssumption ==
  /\ BUF_SIZE \in Nat \ {0}
  /\ SizeT \in Nat /\ SizeT > BUF_SIZE
  /\ INT_MAX \in Nat /\ INT_MAX >= 2 /\ INT_MAX < SizeT
  /\ Scripts \subseteq Seq(Requests)
  /\ Deliveries \subseteq {"whole", "cut"}
  /\ MaxHeaders \in Nat /\ MaxOverrun \in Nat

\* str_truncate cuts the last letter off both names that str_loosecompare
\* compares: "Hosx" is taken for "Host".
SameName(name, wanted) ==
  name = wanted \/ (wanted = "Host" /\ name = "Hosx")

\* get_header_value finds the header nearest to the head of the list.
Found(list, name) == {i \in DOMAIN list : SameName(list[i].name, name)}
HasHeader(list, name) == Found(list, name) # {}
HeaderValue(list, name) ==
  list[CHOOSE i \in Found(list, name) : \A j \in Found(list, name) : i <= j].value

\* A request that ends where the server takes it to end: the last Content-Length
\* sent is the length of the body.
Framed(q) ==
  LET list == Reverse(q.headers)
  IN /\ EOL \notin {q.line} \cup ToSet(list)
     /\ Len(q.body) = IF HasHeader(list, "Content-Length")
                      THEN HeaderValue(list, "Content-Length") ELSE 0
     /\ q.line.name \in {"GET", "HEAD"} => q.body = <<>>

-----------------------------------------------------------------------------

REQ_LINE == 1
HEADER == 2
CONTENT == 3
COMPLETE == 4
ERROR == 5

VARIABLES
  \* the client
  script, delivery,
  got,         \* symbols of the stream that the server has received
  left,        \* the client has closed its end
  \* conn_obj
  state, is_pipe, buf, read_size,
  \* request_obj
  linetype, stucode, mtdcode, uri, is_CGI, header_list, lineptr, content_length,
  has_body,    \* message_body # NULL
  body,        \* what lies between message_body and messageptr
  \* locals of parse_request
  pc, line_ptr, rdbufsize,
  \* history: linetype and read_size when parse_request was called, and what
  \* was answered
  entry, answers

clientVars == <<script, delivery, got, left>>
connVars == <<state, is_pipe, buf, read_size>>
reqVars == <<linetype, stucode, mtdcode, uri, is_CGI, header_list, lineptr,
             content_length, has_body, body>>
localVars == <<pc, line_ptr, rdbufsize>>
histVars == <<entry, answers>>
vars == <<clientVars, connVars, reqVars, localVars, histVars>>

Stream == Sent(script)[Len(script)]

\* Where request i+1 begins in the stream.
Start(i) == Len(Sent(script)[i])

\* Mutant: the header list of the request before is kept.
FreshRequest_KeepsHeaders ==
  /\ linetype' = REQ_LINE /\ stucode' = "OK" /\ lineptr' = NULL
  /\ mtdcode' \in {"GET", "POST"}
  /\ uri' = NULL /\ is_CGI' = FALSE
  /\ header_list' = header_list /\ content_length' = 0
  /\ has_body' = FALSE /\ body' = <<>>

\* Mutant: lineptr is not reset.
FreshRequest_KeepsPointer ==
  /\ linetype' = REQ_LINE /\ stucode' = "OK" /\ lineptr' = lineptr
  /\ mtdcode' \in {"GET", "POST"}
  /\ uri' = NULL /\ is_CGI' = FALSE
  /\ header_list' = <<>> /\ content_length' = 0
  /\ has_body' = FALSE /\ body' = <<>>

\* create_http_request; mtdcode is what malloc left there.
FreshRequest ==
  /\ linetype' = REQ_LINE /\ stucode' = "OK" /\ lineptr' = NULL
  /\ mtdcode' \in {"GET", "POST"}
  /\ uri' = NULL /\ is_CGI' = FALSE
  /\ header_list' = <<>> /\ content_length' = 0
  /\ has_body' = FALSE /\ body' = <<>>

Init ==
  /\ script \in Scripts /\ delivery \in Deliveries
  /\ delivery = "whole" => \A i \in DOMAIN script : Framed(script[i])
  /\ got = 0 /\ left = FALSE
  /\ state = "VACANT" /\ is_pipe = FALSE
  /\ buf = [i \in 0..BUF_SIZE-1 |-> Junk] /\ read_size = 0
  /\ linetype = REQ_LINE /\ stucode = "OK" /\ lineptr = NULL
  /\ mtdcode \in {"GET", "POST"}
  /\ uri = NULL /\ is_CGI = FALSE
  /\ header_list = <<>> /\ content_length = 0 /\ has_body = FALSE /\ body = <<>>
  /\ pc = "select" /\ line_ptr = 0 /\ rdbufsize = 0
  /\ entry = <<REQ_LINE, 0>> /\ answers = <<>>

-----------------------------------------------------------------------------
(* read_connection, and the call of parse_request *)

\* Segments end where the network likes; or, for a client that is served
\* "whole", where a request ends or inside a request line, never with more
\* behind a request that waits than that request is long, and with nothing
\* while a CGI child answers.
Delivers(n) ==
  LET k == Len(answers)
  IN delivery = "whole" =>
       /\ ~is_pipe /\ k < Len(script)
       /\ \E i \in 0..Len(script) : got + n \in {Start(i), Start(i) + 1}
       /\ \A j \in k+1..Len(script) : got + n - Start(j) <= Start(j) - Start(j - 1)
       /\ read_size + n < BUF_SIZE

\* A read_size that has wrapped around points in front of the buffer.
ReadOffset == IF read_size < BUF_SIZE THEN read_size ELSE read_size - SizeT
Filled(n) ==
  [i \in DOMAIN buf |->
     IF i - ReadOffset \in 0..n-1 THEN Stream[got + 1 + i - ReadOffset] ELSE buf[i]]
SizeAfter(n) == (read_size + n) % SizeT

CallsParser ==
  /\ Len(header_list) <= MaxHeaders
  /\ state' = "PARSING"
  /\ pc' = "line"
  /\ rdbufsize' = read_size'
  /\ line_ptr' = IF lineptr = NULL THEN 0 ELSE lineptr
  /\ entry' = <<linetype, read_size'>>

\* run_liso after a read that failed.
ReadFailed ==
  /\ read_size' = read_size
  /\ IF read_size = 0
     THEN pc' = "closed" /\ UNCHANGED <<state, line_ptr, rdbufsize, entry>>
     ELSE CallsParser

Arrives(n) ==
  /\ pc = "select" /\ ~left
  /\ n <= (BUF_SIZE - read_size) % SizeT
  /\ got + n <= Len(Stream) /\ Delivers(n)
  /\ got' = got + n /\ buf' = Filled(n)
  /\ UNCHANGED <<script, delivery, left, is_pipe, reqVars, answers>>

Receives(n) ==
  /\ Arrives(n)
  /\ SizeAfter(n) < BUF_SIZE
  /\ read_size' = SizeAfter(n)
  /\ CallsParser

\* "READ BUFFER OVERFLOW": the bytes are dropped.
ReceivesTooMuch(n) ==
  /\ Arrives(n)
  /\ SizeAfter(n) >= BUF_SIZE
  /\ ReadFailed

EndOfFile ==
  /\ pc = "select" /\ left
  /\ ReadFailed
  /\ UNCHANGED <<clientVars, is_pipe, buf, reqVars, answers>>

\* Bytes written in front of the buffer damage the heap.
DamagesHeap ==
  /\ pc = "select" /\ ~left /\ got < Len(Stream) /\ read_size >= BUF_SIZE
  /\ delivery = "whole" => ~is_pipe
  /\ pc' = "dead"
  /\ UNCHANGED <<clientVars, connVars, reqVars, line_ptr, rdbufsize, histVars>>

\* A pass in which select() found others: what is PARSING is parsed again.
OtherPass ==
  /\ pc = "select" /\ state = "PARSING"
  /\ read_size' = read_size
  /\ CallsParser
  /\ UNCHANGED <<clientVars, is_pipe, buf, reqVars, answers>>

Leaves ==
  /\ pc = "select" /\ ~left
  /\ left' = TRUE
  /\ UNCHANGED <<script, delivery, got, connVars, reqVars, localVars, histVars>>

-----------------------------------------------------------------------------
(* The loop of parse_request: lines *)

\* Mutant: the difference is signed.
Unread_Signed(from) == rdbufsize - from

Unread(from) == (rdbufsize - from) % SizeT

\* With nothing left, buffer_size-1 wraps around and find_token runs on
\* through what lies in the buffer from earlier reads, and out of it.
RunsOn == Unread(line_ptr) = 0 \/ line_ptr + Unread(line_ptr) > BUF_SIZE
ScanEnd == IF RunsOn THEN BUF_SIZE ELSE line_ptr + Unread(line_ptr)
Ends == {i \in line_ptr..ScanEnd-1 : buf[i] = EOL}

\* Where the next line may end.
LineEnds ==
  IF Ends # {} THEN {Min(Ends) + 1}
  ELSE IF RunsOn THEN {i \in BUF_SIZE+1..BUF_SIZE+MaxOverrun : i > line_ptr}
  ELSE {}

\* Its text, of which the first symbol decides; in other memory there may be
\* anything, the lines of a response for instance.
Texts ==
  IF line_ptr < BUF_SIZE THEN {buf[line_ptr]} ELSE {EOL, Junk, Header("Host", 0)}

TakesLine(to, text) ==
  /\ pc = "line" /\ linetype < CONTENT
  /\ to \in LineEnds /\ text \in Texts
  /\ line_ptr' = to

\* find_token returns NULL: the call ends, and lineptr is not moved.
NoLine ==
  /\ pc = "line" /\ linetype < CONTENT /\ Ends = {} /\ ~RunsOn
  /\ pc' = "process"
  /\ UNCHANGED <<clientVars, connVars, reqVars, line_ptr, rdbufsize, histVars>>

RunsOff ==
  /\ pc = "line" /\ linetype < CONTENT /\ Ends = {} /\ RunsOn
  /\ pc' = "dead"
  /\ UNCHANGED <<clientVars, connVars, reqVars, line_ptr, rdbufsize, histVars>>

\* What the empty line still misses.
Incomplete ==
  \/ ~HasHeader(header_list, "Host")
  \/ mtdcode = "POST" /\ ~HasHeader(header_list, "Content-Length")

\* Mutant: HEAD is forgotten.
EmptyLine_NotHead(to) ==
  /\ TakesLine(to, EOL)
  /\ IF Incomplete
     THEN linetype' = ERROR /\ stucode' = "BAD_REQUEST" /\ pc' = "process"
     ELSE /\ linetype' = IF mtdcode = "POST" THEN CONTENT
                        ELSE IF mtdcode = "GET" THEN COMPLETE ELSE linetype
          /\ UNCHANGED <<stucode, pc>>
  /\ UNCHANGED <<mtdcode, uri, is_CGI, header_list, lineptr, content_length,
                 has_body, body>>
  /\ UNCHANGED <<clientVars, connVars, rdbufsize, histVars>>

EmptyLine(to) ==
  /\ TakesLine(to, EOL)
  /\ IF Incomplete
     THEN linetype' = ERROR /\ stucode' = "BAD_REQUEST" /\ pc' = "process"
     ELSE /\ linetype' = IF mtdcode = "POST" THEN CONTENT ELSE COMPLETE
          /\ UNCHANGED <<stucode, pc>>
  /\ UNCHANGED <<mtdcode, uri, is_CGI, header_list, lineptr, content_length,
                 has_body, body>>
  /\ UNCHANGED <<clientVars, connVars, rdbufsize, histVars>>

\* Mutant: a method it does not know has no status of its own.
StatusOfLine_Unset(text) == IF text.type = "line" THEN stucode ELSE "BAD_REQUEST"

\* What parse_request_line says of a line it does not take.
StatusOfLine(text) == IF text.type = "line" THEN "NOT_IMPLEMENTED" ELSE "BAD_REQUEST"

\* Whatever parse_request_line says, linetype is HEADER afterwards.
RequestLine(to, text) ==
  /\ TakesLine(to, text) /\ text # EOL /\ linetype = REQ_LINE
  /\ linetype' = HEADER
  /\ IF text.type = "line" /\ text.name \in Methods
     THEN /\ text.value # RelativeUri
          /\ mtdcode' = text.name /\ uri' = text.value
          /\ is_CGI' = (text.value = CgiUri)
          /\ stucode' = stucode
     ELSE /\ stucode' = StatusOfLine(text)
          /\ UNCHANGED <<mtdcode, uri, is_CGI>>
  /\ UNCHANGED <<header_list, lineptr, content_length, has_body, body>>
  /\ UNCHANGED <<clientVars, connVars, pc, rdbufsize, histVars>>

\* A uri without "/" is appended to a string literal.
WritesLiteral(to, text) ==
  /\ TakesLine(to, text) /\ linetype = REQ_LINE
  /\ text.type = "line" /\ text.name \in Methods /\ text.value = RelativeUri
  /\ pc' = "dead"
  /\ UNCHANGED <<clientVars, connVars, reqVars, rdbufsize, histVars>>

HeaderLine(to, text) ==
  /\ TakesLine(to, text) /\ text # EOL /\ linetype = HEADER
  /\ IF text.type = "header"
     THEN /\ header_list' = Cons(text, header_list)
          /\ UNCHANGED <<linetype, stucode>>
     ELSE /\ linetype' = ERROR /\ stucode' = "BAD_REQUEST"
          /\ UNCHANGED header_list
  /\ UNCHANGED <<mtdcode, uri, is_CGI, lineptr, content_length, has_body, body>>
  /\ UNCHANGED <<clientVars, connVars, pc, rdbufsize, histVars>>

-----------------------------------------------------------------------------
(* The loop of parse_request: the body *)

\* n symbols from line_ptr; behind the buffer there is other memory.
Copied(n) ==
  [i \in 1..n |-> IF line_ptr + i - 1 < BUF_SIZE THEN buf[line_ptr + i - 1] ELSE Junk]

InBody == pc = "line" /\ linetype = CONTENT

\* v is taken for the length: atoi(tmp), which only the call that reads the
\* empty line has set; an int.
TakenLength(v) ==
  /\ InBody /\ v \in Ints
  /\ has_body => v = content_length
  /\ ~has_body /\ entry[1] # CONTENT => v = HeaderValue(header_list, "Content-Length")

\* Mutant: what is there already is not subtracted.
Missing_Whole(v) == v % SizeT

\* An int less a size_t is a size_t.
Missing(v) == (v - Len(body)) % SizeT

\* malloc(line_length+2), of a size_t: NULL when that has wrapped around.
Allocates(v) == v >= -2

TakesBody(v, n) ==
  /\ Allocates(v) \/ n = 0
  /\ has_body' = Allocates(v) /\ content_length' = v
  /\ body' = body \o Copied(n)
  /\ line_ptr' = line_ptr + n
  /\ UNCHANGED <<stucode, mtdcode, uri, is_CGI, header_list, lineptr>>
  /\ UNCHANGED <<clientVars, connVars, rdbufsize, histVars>>

PartOfBody(v) ==
  /\ TakenLength(v) /\ Unread(line_ptr) < Missing(v)
  /\ TakesBody(v, Unread(line_ptr))
  /\ pc' = "finish" /\ UNCHANGED linetype

RestOfBody(v) ==
  /\ TakenLength(v) /\ Unread(line_ptr) >= Missing(v)
  /\ TakesBody(v, Missing(v))
  /\ linetype' = COMPLETE /\ UNCHANGED pc

\* memcpy or memmove leaves the memory of the process.
CopiesTooFar ==
  /\ \/ \E v \in Ints :
          /\ TakenLength(v) /\ Unread(line_ptr) >= Missing(v)
          /\ line_ptr + Missing(v) > BUF_SIZE
     \/ pc = "finish" /\ line_ptr > BUF_SIZE /\ line_ptr < rdbufsize
  /\ pc' = "dead"
  /\ UNCHANGED <<clientVars, connVars, reqVars, line_ptr, rdbufsize, histVars>>

\* Of a negative length: more is copied than was allocated, or a later call
\* follows tmp, which it has not set.
OverrunsBody ==
  /\ \/ \E v \in Ints :
          TakenLength(v) /\ Len(body) + Min({Unread(line_ptr), Missing(v)}) > v + 2
     \/ InBody /\ ~has_body /\ entry[1] = CONTENT
  /\ pc' = "dead"
  /\ UNCHANGED <<clientVars, connVars, reqVars, line_ptr, rdbufsize, histVars>>

-----------------------------------------------------------------------------
(* The end of parse_request, and process_connection *)

\* Mutant: the pointers are moved after an error too.
LoopEnds_Always ==
  /\ pc = "line" /\ linetype >= COMPLETE
  /\ pc' = "finish"
  /\ UNCHANGED <<clientVars, connVars, reqVars, line_ptr, rdbufsize, histVars>>

LoopEnds ==
  /\ pc = "line" /\ linetype >= COMPLETE
  /\ pc' = IF linetype = ERROR THEN "process" ELSE "finish"
  /\ UNCHANGED <<clientVars, connVars, reqVars, line_ptr, rdbufsize, histVars>>

\* Mutant: one symbol less is moved.
Moved_Less(n) ==
  [i \in DOMAIN buf |->
     IF i >= n - 1 THEN buf[i] ELSE IF line_ptr + i < BUF_SIZE THEN buf[line_ptr + i] ELSE Junk]

\* memmove(rdbufptr, line_ptr, n)
Moved(n) ==
  [i \in DOMAIN buf |->
     IF i >= n THEN buf[i] ELSE IF line_ptr + i < BUF_SIZE THEN buf[line_ptr + i] ELSE Junk]

\* Not the unread symbols are moved, but as many as were read.
FinishesParse ==
  /\ pc = "finish"
  /\ lineptr' = line_ptr
  /\ buf' = IF line_ptr < rdbufsize THEN Moved(line_ptr) ELSE buf
  /\ read_size' = Unread(line_ptr)
  /\ pc' = "process"
  /\ UNCHANGED <<linetype, stucode, mtdcode, uri, is_CGI, header_list,
                 content_length, has_body, body>>
  /\ UNCHANGED <<clientVars, state, is_pipe, line_ptr, rdbufsize, histVars>>

Answered == [status |-> stucode, method |-> mtdcode, headers |-> header_list, body |-> body]

Done == pc = "process" /\ linetype \in {COMPLETE, ERROR}

StaysParsing ==
  /\ pc = "process" /\ linetype < COMPLETE
  /\ pc' = "select"
  /\ UNCHANGED <<clientVars, connVars, reqVars, line_ptr, rdbufsize, histVars>>

\* A CGI child is started, or runs already.
AwaitsCGI ==
  /\ Done /\ (is_pipe \/ is_CGI)
  /\ is_pipe' = TRUE /\ state' = "PARSED"
  /\ pc' = "select"
  /\ UNCHANGED <<clientVars, buf, read_size, reqVars, line_ptr, rdbufsize, histVars>>

AsksToClose ==
  HasHeader(header_list, "Connection") /\ HeaderValue(header_list, "Connection") = 1

AnswersAndCloses ==
  /\ Done /\ ~is_pipe /\ ~is_CGI
  /\ answers' = Append(answers, Answered)
  /\ pc' = "closed"
  /\ UNCHANGED <<clientVars, connVars, reqVars, line_ptr, rdbufsize, entry>>

\* refresh_connection, after which run_liso says VACANT.
AnswersAndKeeps ==
  /\ Done /\ ~is_pipe /\ ~is_CGI
  /\ stucode = "OK" /\ ~AsksToClose
  /\ answers' = Append(answers, Answered)
  /\ FreshRequest
  /\ state' = "VACANT" /\ pc' = "select"
  /\ UNCHANGED <<clientVars, is_pipe, buf, read_size, line_ptr, rdbufsize, entry>>

\* The child ends; the connection is closed with its answer.
CGIEnds ==
  /\ pc = "select" /\ state = "PARSED"
  /\ answers' = Append(answers, Answered)
  /\ pc' = "closed"
  /\ UNCHANGED <<clientVars, connVars, reqVars, line_ptr, rdbufsize, entry>>

\* A request that starts with a header adds its headers again in every pass.
Terminating ==
  /\ pc \in {"closed", "dead"} \/ (pc = "select" /\ Len(header_list) > MaxHeaders)
  /\ UNCHANGED vars

-----------------------------------------------------------------------------

Input ==
  \/ \E n \in 1..Len(Stream) : Receives(n) \/ ReceivesTooMuch(n)
  \/ EndOfFile \/ DamagesHeap \/ OtherPass \/ Leaves \/ CGIEnds

ParseRequest ==
  \/ NoLine \/ RunsOff \/ LoopEnds \/ FinishesParse
  \/ \E to \in LineEnds :
       \/ EmptyLine(to)
       \/ \E text \in Texts :
            RequestLine(to, text) \/ WritesLiteral(to, text) \/ HeaderLine(to, text)
  \/ \E v \in Ints : PartOfBody(v) \/ RestOfBody(v)
  \/ CopiesTooFar \/ OverrunsBody

Process == StaysParsing \/ AwaitsCGI \/ AnswersAndCloses \/ AnswersAndKeeps

Next == Input \/ ParseRequest \/ Process \/ Terminating

Spec == Init /\ [][Next]_vars

\* The server's thread runs.
FairSpec == Spec /\ WF_vars(ParseRequest \/ Process)

-----------------------------------------------------------------------------
(* Correctness *)

Sizes == 0..SizeT-1
Statuses == {"OK", "BAD_REQUEST", "NOT_IMPLEMENTED"}

\* What process_connection builds a response from.
Answers ==
  [status : Statuses, method : Methods, headers : Seq(Symbols), body : Seq(Symbols)]

\* Every variable keeps its type; a size is a size_t, however it wraps.
TypeOK ==
  /\ script \in Scripts /\ got \in Nat
  /\ state \in {"VACANT", "PARSING", "PARSED"} /\ is_pipe \in BOOLEAN
  /\ buf \in [0..BUF_SIZE-1 -> Symbols] /\ read_size \in Sizes
  /\ linetype \in REQ_LINE..ERROR
  /\ stucode \in Statuses
  /\ mtdcode \in Methods /\ uri \in Uris \cup {NULL}
  /\ is_CGI \in BOOLEAN /\ has_body \in BOOLEAN
  /\ header_list \in Seq(Symbols) /\ body \in Seq(Symbols)
  /\ lineptr \in Nat \cup {NULL} /\ content_length \in Ints
  /\ pc \in {"select", "line", "finish", "process", "closed", "dead"}
  /\ line_ptr \in Nat /\ rdbufsize \in Sizes
  /\ answers \in Seq(Answers)

\* However a body is cut, and wherever its pieces are taken from, no more than
\* Content-Length bytes are copied to message_body, and a request is complete
\* with exactly as many (http_parse_request.c:125-142), unless Content-Length is
\* negative: with -1 there is room for one byte and all that is unread is
\* copied (lines 119-131).
BodyFits ==
  content_length >= 0 =>
    /\ Len(body) <= content_length
    /\ linetype = COMPLETE /\ has_body => Len(body) = content_length

\* parse_request_line may fail and be overruled by line 153: a request that is
\* still OK once its first line is read has a uri, which access_file follows,
\* whatever pieces and leftovers it was put together from.
OkHasUri == linetype # REQ_LINE /\ stucode = "OK" => uri # NULL

\* A request with all it needs, Host under one of the names in hosts.
Complete(q, hosts) ==
  /\ q.line.type = "line" /\ q.line.name \in Methods
  /\ \A i \in DOMAIN q.headers : q.headers[i].type = "header"
  /\ \E i \in DOMAIN q.headers : q.headers[i].name \in hosts
  /\ q.line.name = "POST" =>
       \E i \in DOMAIN q.headers : q.headers[i].name = "Content-Length"

WellFormed(q) == Complete(q, {"Host"})

\* Also what the server takes for one, because str_truncate cuts "Hosx" short.
PassesAsWellFormed(q) == Complete(q, {"Host", "Hosx"})

Served(q) ==
  [status |-> "OK", method |-> q.line.name, headers |-> Reverse(q.headers), body |-> q.body]

\* What the parser owes a client for request q; nothing for a request that
\* passes as well-formed and is not.
Fits(a, q) ==
  /\ WellFormed(q) => a = Served(q)
  /\ ~PassesAsWellFormed(q) => a.status # "OK"

\* The test at http_parse_request.c:327-341, for any requests in a row: served
\* "whole", each is answered in its turn, a well-formed one as what it is, with
\* its own headers and body, and a malformed one with an error unless the
\* defect of str_truncate makes it pass.
AnswersFit ==
  delivery = "whole" =>
    /\ Len(answers) <= Len(script)
    /\ \A i \in DOMAIN answers : Fits(answers[i], script[i])

\* Between two calls for a client served "whole", read_buffer starts with what
\* was received and not answered, in place and in order: bytes of a request
\* that came with the one before it survive the move of line 182.
BufferIsStream ==
  delivery = "whole" /\ pc = "select" /\ ~is_pipe =>
    LET from == Start(Len(answers))
    IN /\ read_size = got - from
       /\ \A i \in 0..read_size-1 : buf[i] = Stream[from + i + 1]

\* For a client served "whole", find_token and the copies of the body never
\* leave read_buffer; the process dies of a uri without "/" only.
WholeStaysInside ==
  delivery = "whole" =>
    /\ line_ptr <= BUF_SIZE
    /\ pc = "dead" => \E i \in DOMAIN script : script[i].line.value = RelativeUri

AbstractType(lt) == IF lt = COMPLETE THEN "COMPLETE" ELSE IF lt = ERROR THEN "ERROR" ELSE "OPEN"
AbstractSize(n) == IF n = 0 THEN 0 ELSE 1

ServerSees ==
  /\ pc \in {"line", "finish"} /\ pc' = "process" =>
       <<AbstractType(linetype'), AbstractSize(read_size')>> \in
         ParseOutcome(AbstractType(entry[1]), AbstractSize(entry[2]))
  /\ read_size' # read_size /\ pc = "select" =>
       AbstractSize(read_size') \in ReadOutcome(AbstractSize(read_size))
  /\ pc \in {"line", "finish"} /\ pc' = "dead" => AbstractType(entry[1]) # "ERROR"
  /\ pc = "select" /\ pc' = "dead" => AbstractSize(read_size) # 0

\* LisoServer's picture of the parser is right: a call of parse_request leaves
\* in linetype and read_size what ParseOutcome says, a read leaves what
\* ReadOutcome says, and the process dies in either only where DiesProcessing
\* and DiesReading let it, for segments cut anywhere and sizes that have wrapped.
AsServerSees == [][ServerSees]_vars

\* A request that lies in the buffer as a whole when parse_request is called is
\* answered, also one that waited there as VACANT (server.c:192) until more
\* input came.
WholeRequestAnswered ==
  \A k \in 0..2 :
    (/\ delivery = "whole" /\ pc = "line" /\ Len(answers) = k
     /\ k < Len(script) /\ Start(k + 1) <= got)
    ~> (Len(answers) > k \/ is_pipe \/ pc \in {"closed", "dead"})

=============================================================================
