------------------------------- MODULE Response -------------------------------
(***************************************************************************)
(* The responses of one connection, one request after the other: the file  *)
(* looked up and read (file_loader.c), the headers put together and laid   *)
(* out (http_generate_response.c), and the buffer they are laid out in or  *)
(* a CGI child's output is read into (conn_obj.c, cgi.c).  Meanwhile the   *)
(* file may be written, removed and replaced by others.                    *)
(*                                                                         *)
(* A header line is the number of bytes it takes.  Memory does not run     *)
(* out here; sizes are those of the code, counted in bytes.                *)
(***************************************************************************)
EXTENDS Integers, FiniteSets

CONSTANTS
  FileSizes,   \* the sizes the requested file may have
  Chunks,      \* what one read() of a CGI child's output may return
  MaxReads     \* bound: reads of one CGI child's output

BUF_SIZE == 4096
MAXLINESIZE == 255

ASSUME ResponseAssumption ==
  /\ FileSizes \subseteq Nat
  /\ Chunks \subseteq 1..BUF_SIZE
  /\ MaxReads \in Nat

NoFile == -1

\* enum status_code; a method the server does not know is NOT_IMPLEMENTED.
OK == 200
BAD_REQUEST == 400
NOT_FOUND == 404
SERVER_ERROR == 500
NOT_IMPLEMENTED == 505

PCs == {"idle", "stat", "fopen", "ftell", "fread", "connection", "allocate",
        "serialize", "send", "read_cgi", "closed"}

VARIABLES
  pc,
  stucode, wants_close, head,  \* of the request: status, Connection: close, HEAD
  count, header_bytes,         \* of the header list: its length, its lines laid out
  is_open, says_close,         \* res_objp->is_open, and the Connection header sent
  file_size, content,          \* fobjp: the size, and how many bytes were read
  write_buffer,                \* the room write_buffer has
  write_size,
  reads,                       \* read() calls that returned CGI output
  \* the file system
  disk,                        \* the size of the requested file, or NoFile
  fd,                          \* the size of the file fopen has opened
  same,                        \* that file is still the one on disk
  \* history
  shrunk,                      \* the opened file lost bytes after ftell
  kept,                        \* an earlier response was kept alive
  again                        \* this request has been answered before

reqVars == <<stucode, wants_close, head>>
resVars == <<count, header_bytes, is_open, says_close, file_size, content>>
bufVars == <<write_buffer, write_size, reads>>
diskVars == <<disk, fd, same>>
history == <<shrunk, kept, again>>
vars == <<pc, reqVars, resVars, bufVars, diskVars, history>>

-----------------------------------------------------------------------------
(* Lines *)

Digits(n) == Cardinality({k \in 0..9 : k = 0 \/ 10^k <= n})

\* "name :value\r\n"
DateLine == 37
ServerLine == 18
LastModifiedLine == 46
ContentTypeLines == {24, 25, 26, 40} \* get_content_type
ContentLengthLine(n) == 18 + Digits(n)
ConnectionLine(close) == IF close THEN 19 ELSE 24

\* checkstatus: "HTTP/1.1 " and the status, with its line end
StatusLine(status) ==
  IF status = OK THEN 17
  ELSE IF status = NOT_FOUND THEN 24
  ELSE IF status = SERVER_ERROR THEN 36
  ELSE IF status = BAD_REQUEST THEN 26
  ELSE 30

-----------------------------------------------------------------------------

\* create_http_response and create_file_wrapper
FreshResponse ==
  /\ count' = 0 /\ header_bytes' = 0
  /\ is_open' = TRUE /\ says_close' = FALSE
  /\ file_size' = 0 /\ content' = 0

Init ==
  /\ pc = "idle"
  /\ stucode = OK /\ wants_close = FALSE /\ head = FALSE
  /\ count = 0 /\ header_bytes = 0 /\ is_open = TRUE /\ says_close = FALSE
  /\ file_size = 0 /\ content = 0
  /\ write_buffer = BUF_SIZE /\ write_size = 0 /\ reads = 0
  /\ disk \in FileSizes \cup {NoFile} /\ fd = NoFile /\ same = FALSE
  /\ shrunk = FALSE /\ kept = FALSE /\ again = FALSE

AddsHeader(line) ==
  /\ count' = count + 1
  /\ header_bytes' = header_bytes + line

-----------------------------------------------------------------------------
(* build_http_response *)

\* The response begins with Date and Server on a new list of headers.  The file
\* is looked up for a GET or POST nobody has found fault with.
Builds(status, is_head) ==
  /\ count' = 2 /\ header_bytes' = DateLine + ServerLine
  /\ pc' = IF status = OK /\ ~is_head THEN "stat" ELSE "connection"
  /\ UNCHANGED <<is_open, says_close, file_size, content>>

\* The request is parsed.
Begins(status, close, is_head) ==
  /\ pc = "idle"
  /\ stucode' = status /\ wants_close' = close /\ head' = is_head
  /\ Builds(status, is_head)
  /\ UNCHANGED <<bufVars, diskVars, history>>

\* SSL_write sent nothing, and more bytes came: process_connection answers the
\* same request once more, in the same response object.
BeginsAgain ==
  /\ pc = "send" /\ reads = 0
  /\ Builds(stucode, head)
  /\ again' = TRUE
  /\ UNCHANGED <<reqVars, bufVars, diskVars, shrunk, kept>>

\* check_file, for the file or the index.html of a directory
Stats ==
  /\ pc = "stat"
  /\ IF disk = NoFile
     THEN stucode' = NOT_FOUND /\ pc' = "connection"
     ELSE stucode' = stucode /\ pc' = "fopen"
  /\ UNCHANGED <<wants_close, head, resVars, bufVars, diskVars, history>>

\* Mutant: the result of fopen is not tested.
CanOpen_Unchecked == TRUE

CanOpen == disk # NoFile

Opens ==
  /\ pc = "fopen" /\ CanOpen
  /\ fd' = disk /\ same' = TRUE
  /\ pc' = "ftell"
  /\ UNCHANGED <<reqVars, resVars, bufVars, disk, history>>

\* The file is gone again, or may not be read.
OpenFails ==
  /\ pc = "fopen"
  /\ stucode' = SERVER_ERROR
  /\ pc' = "connection"
  /\ UNCHANGED <<wants_close, head, resVars, bufVars, diskVars, history>>

\* Content-Length comes from ftell, not from stat.
Measures ==
  /\ pc = "ftell"
  /\ file_size' = fd
  /\ shrunk' = FALSE
  /\ pc' = "fread"
  /\ UNCHANGED <<reqVars, count, header_bytes, is_open, says_close, content>>
  /\ UNCHANGED <<bufVars, diskVars, kept, again>>

\* Mutant: the last byte is left for a terminator.
BytesRead_Terminated ==
  IF fd < file_size \/ file_size = 0 THEN fd ELSE file_size - 1

\* load_file reads into fresh memory what is there, up to the size measured.
BytesRead == IF fd < file_size THEN fd ELSE file_size

Loads(type) ==
  /\ pc = "fread"
  /\ content' = BytesRead
  /\ count' = count + 3
  /\ header_bytes' = header_bytes + type + ContentLengthLine(file_size)
                       + LastModifiedLine
  /\ fd' = NoFile /\ same' = FALSE
  /\ pc' = "connection"
  /\ UNCHANGED <<reqVars, is_open, says_close, file_size, bufVars, disk, history>>

\* Mutant: only the client's wish counts.
Closes_Wish == wants_close

\* access_file may have changed the status of an acceptable request.
Closes == stucode # OK \/ wants_close

AddsConnection ==
  /\ pc = "connection"
  /\ AddsHeader(ConnectionLine(Closes))
  /\ says_close' = Closes
  /\ is_open' = (is_open /\ ~Closes)
  /\ pc' = "allocate"
  /\ UNCHANGED <<reqVars, file_size, content, bufVars, diskVars, history>>

-----------------------------------------------------------------------------
(* allocate_write_buffer, serailize_http_response and write_connection *)

\* Mutant: the file is left out.
RoomFor_Headers == StatusLine(stucode) + count * MAXLINESIZE

RoomFor == StatusLine(stucode) + count * MAXLINESIZE + file_size

Allocates ==
  /\ pc = "allocate"
  /\ write_buffer' = RoomFor
  /\ write_size' = RoomFor
  /\ pc' = "serialize"
  /\ UNCHANGED <<reqVars, resVars, reads, diskVars, history>>

\* The status line, the headers, the empty line, the file.
Laid == StatusLine(stucode) + header_bytes + 2 + file_size

Serializes ==
  /\ pc = "serialize"
  /\ write_size' = Laid
  /\ pc' = "send"
  /\ UNCHANGED <<reqVars, resVars, write_buffer, reads, diskVars, history>>

\* Mutant: the next response grows the headers of the one before.
AfterKeptAlive_Headers ==
  /\ is_open' = TRUE /\ says_close' = FALSE /\ content' = 0
  /\ UNCHANGED <<count, header_bytes, file_size>>

\* refresh_connection
AfterKeptAlive == FreshResponse

\* All of it is sent: the connection closes, after a CGI child's output in any
\* case, or is ready for the next request with the buffer as it is.
Sends ==
  /\ pc = "send"
  /\ IF reads > 0 \/ ~is_open
     THEN /\ pc' = "closed"
          /\ UNCHANGED <<reqVars, resVars, kept, again, write_size>>
     ELSE /\ pc' = "idle"
          /\ AfterKeptAlive
          /\ write_size' = 0 /\ kept' = TRUE /\ again' = FALSE
          /\ stucode' = OK /\ wants_close' = FALSE /\ head' = FALSE
  /\ UNCHANGED <<write_buffer, reads, diskVars, shrunk>>

\* Part of it, or an error: the connection closes.  A CGI child's output that
\* SSL_write did not send is not read a second time.
SendFails ==
  /\ pc = "send"
  /\ pc' = "closed"
  /\ UNCHANGED <<reqVars, resVars, bufVars, diskVars, history>>

-----------------------------------------------------------------------------
(* read_CGI_response *)

\* A request for a CGI URI; its answer is whatever the child writes.
BeginsCGI ==
  /\ pc = "idle"
  /\ pc' = "read_cgi"
  /\ write_size' = 0
  /\ UNCHANGED <<reqVars, resVars, write_buffer, reads, diskVars, history>>

\* Mutant: the buffer grows to what it holds.
RoomAfterRead_Full(n) == write_size + n

\* realloc(buffer,buffer_size+BUF_SIZE)
RoomAfterRead(n) == write_size + n + BUF_SIZE

ReadsCGI(n) ==
  /\ pc = "read_cgi" /\ reads < MaxReads
  /\ write_size' = write_size + n
  /\ write_buffer' = RoomAfterRead(n)
  /\ reads' = reads + 1
  /\ UNCHANGED <<pc, reqVars, resVars, diskVars, history>>

\* Without any output the connection has nothing to send, then or later.
EndsCGI ==
  /\ pc = "read_cgi"
  /\ pc' = IF write_size > 0 THEN "send" ELSE "closed"
  /\ UNCHANGED <<reqVars, resVars, bufVars, diskVars, history>>

-----------------------------------------------------------------------------
(* Others at work on the file *)

Writes(size) ==
  /\ disk # NoFile
  /\ disk' = size
  /\ fd' = IF same THEN size ELSE fd
  /\ shrunk' = (shrunk \/ (same /\ pc = "fread" /\ size < file_size))
  /\ UNCHANGED <<pc, reqVars, resVars, bufVars, same, kept, again>>

Removes ==
  /\ disk # NoFile
  /\ disk' = NoFile /\ same' = FALSE
  /\ UNCHANGED <<pc, reqVars, resVars, bufVars, fd, history>>

Appears(size) ==
  /\ disk = NoFile
  /\ disk' = size
  /\ UNCHANGED <<pc, reqVars, resVars, bufVars, fd, same, history>>

Others ==
  /\ pc # "closed"
  /\ Removes \/ \E size \in FileSizes : Writes(size) \/ Appears(size)

Done == pc = "closed" /\ UNCHANGED vars

-----------------------------------------------------------------------------

Statuses == {OK, BAD_REQUEST, NOT_IMPLEMENTED}

Answer ==
  \/ \E status \in Statuses, close, is_head \in BOOLEAN :
       Begins(status, close, is_head)
  \/ BeginsAgain
  \/ Stats \/ Opens \/ OpenFails \/ Measures
  \/ \E type \in ContentTypeLines : Loads(type)
  \/ AddsConnection \/ Allocates \/ Serializes \/ Sends \/ SendFails

AnswerCGI == BeginsCGI \/ EndsCGI \/ \E n \in Chunks : ReadsCGI(n)

Next == Answer \/ AnswerCGI \/ Others \/ Done

Spec == Init /\ [][Next]_vars

-----------------------------------------------------------------------------
(* Correctness *)

TypeOK ==
  /\ pc \in PCs
  /\ stucode \in Statuses \cup {NOT_FOUND, SERVER_ERROR}
  /\ wants_close \in BOOLEAN /\ head \in BOOLEAN
  /\ count \in 0..6 /\ header_bytes \in Nat
  /\ is_open \in BOOLEAN /\ says_close \in BOOLEAN
  /\ file_size \in FileSizes \cup {0} /\ content \in Nat
  /\ write_buffer \in Nat /\ write_size \in Nat /\ reads \in 0..MaxReads
  /\ disk \in FileSizes \cup {NoFile} /\ fd \in FileSizes \cup {NoFile}
  /\ same \in BOOLEAN
  /\ shrunk \in BOOLEAN /\ kept \in BOOLEAN /\ again \in BOOLEAN

\* Whatever the file and the headers, a response is laid out inside the buffer
\* that was allocated for it, the terminating zero of the last line included.
ResponseFits ==
  pc = "serialize" => Laid + (IF file_size = 0 THEN 1 ELSE 0) <= write_buffer

\* The body goes out with bytes that were not read from the file only if the
\* file lost bytes between ftell and fread, whatever else happened to it since
\* stat.
BodyIsRead ==
  pc \in {"allocate", "serialize", "send"} => content = file_size \/ shrunk

\* A response other than 200 says that the connection closes, and so it does:
\* the connection is idle again only after a 200 that said otherwise.
KeptAfterOK == pc = "send" /\ pc' = "idle" => stucode = OK /\ ~says_close
ErrorsClose == [][KeptAfterOK]_vars

\* No response carries a file over from another request on its connection: as
\* long as none has been read for it there is no body, for a HEAD or an error
\* to the end.  (A request answered again may find its own file gone.)
NothingCarriedOver ==
  pc \in {"stat", "fopen", "ftell", "connection"} /\ count = 2 /\ ~again =>
    file_size = 0 /\ content = 0

\* vulnerabilities.txt:2, for a connection that comes with a CGI request: every
\* read finds BUF_SIZE bytes of room behind what has been read.
CGIRoomAtFirst ==
  pc = "read_cgi" /\ (reads > 0 \/ ~kept) => write_buffer - write_size >= BUF_SIZE

\* vulnerabilities.txt:2: "buffersize is always 4096 bits more than actual
\* usage".
CGIRoom == pc = "read_cgi" => write_buffer - write_size >= BUF_SIZE

=============================================================================
