---------------------------- MODULE Response_proofs ----------------------------
(***************************************************************************)
(* Proofs about Response, for files and CGI output of any size.            *)
(***************************************************************************)
EXTENDS Response, FiniteSetTheorems, TLAPS

\* No header line is longer than LongestLine, far less than the MAXLINESIZE
\* that allocate_write_buffer counts for each.
LongestLine == 46

Types ==
  /\ pc \in PCs
  /\ stucode \in Int
  /\ count \in Nat /\ header_bytes \in Nat
  /\ file_size \in Int /\ content \in Int /\ disk \in Int /\ fd \in Int
  /\ kept \in BOOLEAN /\ again \in BOOLEAN /\ shrunk \in BOOLEAN
  /\ same \in BOOLEAN
  /\ is_open \in BOOLEAN
  /\ write_buffer \in Int /\ write_size \in Int /\ reads \in Nat

HeadersBounded ==
  /\ header_bytes <= count * LongestLine
  /\ pc \in {"allocate", "serialize"} => count >= 1
  /\ pc = "serialize" => write_buffer = RoomFor

\* Where the room behind a CGI child's output comes from.
RoomKnown ==
  /\ pc = "idle" /\ ~kept => write_buffer = BUF_SIZE
  /\ reads > 0 => pc \in {"read_cgi", "send", "closed"}
  /\ CGIRoomAtFirst

\* What has been read of the file at each control point.
FileRead ==
  /\ pc \in {"idle", "read_cgi"} => file_size = 0 /\ content = 0 /\ ~again
  /\ pc \in {"stat", "fopen", "ftell"} /\ ~again => file_size = 0 /\ content = 0
  /\ pc \in {"stat", "fopen", "ftell", "fread"} => count = 2
  /\ pc = "connection" /\ count = 2 /\ ~again => file_size = 0 /\ content = 0
  /\ pc = "fread" => fd >= file_size \/ shrunk
  /\ pc \in {"stat", "fopen", "ftell", "connection", "allocate", "serialize", "send"}
       => content = file_size \/ shrunk

Inv == Types /\ HeadersBounded /\ RoomKnown /\ FileRead

-----------------------------------------------------------------------------

\* A size has at most ten digits here.
LEMMA DigitsBound == \A n \in Int : Digits(n) \in 0..10
<1> SUFFICES ASSUME NEW n \in Int PROVE Digits(n) \in 0..10
  OBVIOUS
<1> DEFINE D == {k \in 0..9 : k = 0 \/ 10^k <= n}
<1>1. IsFiniteSet(0..9) /\ Cardinality(0..9) = 10
  <2>1. \A a, b \in Int :
          IsFiniteSet(a..b) /\ Cardinality(a..b) = IF a > b THEN 0 ELSE b - a + 1
    BY FS_Interval
  <2>2. 0 \in Int /\ 9 \in Int
    OBVIOUS
  <2>3. /\ IsFiniteSet(0..9)
        /\ Cardinality(0..9) = IF 0 > 9 THEN 0 ELSE 9 - 0 + 1
    BY <2>1, <2>2, Zenon
  <2>4. QED BY <2>3
<1>2. IsFiniteSet(D) /\ Cardinality(D) <= Cardinality(0..9)
  BY <1>1, FS_Subset
<1>3. Cardinality(D) \in Nat
  BY <1>2, FS_CardinalityType
<1>4. QED BY <1>1, <1>2, <1>3 DEF Digits

\* The absence of a file is a number too.
LEMMA NoFileType == NoFile \in Int
BY DEF NoFile

\* The invariant holds before the first request.
LEMMA InvInit == Init => Inv
<1> SUFFICES ASSUME Init PROVE Inv
  OBVIOUS
<1>1. Types
  <2>1. disk \in Int /\ fd \in Int
    BY ResponseAssumption, NoFileType DEF Init
  <2>2. pc \in PCs
    BY DEF Init, PCs
  <2>3. /\ kept \in BOOLEAN /\ shrunk \in BOOLEAN
        /\ again \in BOOLEAN /\ same \in BOOLEAN /\ is_open \in BOOLEAN
    BY Zenon DEF Init
  <2>4. /\ stucode \in Int /\ write_buffer \in Int
    BY DEF Init, OK, BUF_SIZE
  <2>5. /\ count \in Nat /\ header_bytes \in Nat /\ file_size \in Int
        /\ content \in Int /\ write_size \in Int /\ reads \in Nat
    BY DEF Init
  <2>6. QED BY <2>1, <2>2, <2>3, <2>4, <2>5, Zenon DEF Types
<1>2. HeadersBounded
  BY DEF Init, HeadersBounded, LongestLine
<1>3. RoomKnown
  BY DEF Init, RoomKnown, CGIRoomAtFirst
<1>4. FileRead
  BY DEF Init, FileRead
<1>5. QED BY <1>1, <1>2, <1>3, <1>4 DEF Inv

\* The types, with no bound on sizes and counters.
LEMMA TypesNext == Types /\ [Next]_vars => Types'
<1> SUFFICES ASSUME Types, [Next]_vars PROVE Types'
  OBVIOUS
<1> USE ResponseAssumption, NoFileType DEF Types, PCs, bufVars, diskVars, history,
    reqVars, resVars
<1>1. ASSUME NEW status \in Statuses, NEW close \in BOOLEAN, NEW is_head \in BOOLEAN,
             Begins(status, close, is_head)
      PROVE Types'
  BY <1>1 DEF Begins, Builds, Statuses, OK, BAD_REQUEST,
     NOT_IMPLEMENTED, DateLine, ServerLine
<1>2. CASE Stats
  BY <1>2 DEF Stats, NOT_FOUND
<1>3. CASE Opens
  BY <1>3 DEF Opens
<1>4. CASE OpenFails
  BY <1>4 DEF OpenFails, SERVER_ERROR
<1>5. CASE Measures
  BY <1>5 DEF Measures
<1>6. ASSUME NEW type \in ContentTypeLines, Loads(type) PROVE Types'
  <2>1. ContentLengthLine(file_size) \in Nat
    BY DigitsBound DEF ContentLengthLine
  <2>2. header_bytes' \in Nat /\ count' \in Nat
    BY <1>6, <2>1 DEF Loads, ContentTypeLines, LastModifiedLine
  <2>3. QED BY <1>6, <2>2 DEF Loads, BytesRead
<1>7. CASE AddsConnection
  BY <1>7 DEF AddsConnection, AddsHeader, ConnectionLine
<1>8. CASE Allocates
  BY <1>8 DEF Allocates, RoomFor, StatusLine, MAXLINESIZE
<1>9. CASE Serializes
  BY <1>9 DEF Serializes, Laid, StatusLine
<1>10. CASE Sends
  <2>1. CASE reads > 0 \/ ~is_open
    BY <1>10, <2>1 DEF Sends
  <2>2. CASE ~(reads > 0 \/ ~is_open)
    <3>1. /\ kept' = TRUE /\ again' = FALSE /\ is_open' = TRUE /\ shrunk' = shrunk
          /\ same' = same
      BY <1>10, <2>2 DEF Sends, AfterKeptAlive, FreshResponse
    <3>2. /\ kept' \in BOOLEAN /\ again' \in BOOLEAN /\ shrunk' \in BOOLEAN
          /\ same' \in BOOLEAN /\ is_open' \in BOOLEAN
      BY <3>1, Zenon
    <3>3. /\ pc' \in PCs /\ stucode' \in Int
          /\ count' \in Nat /\ header_bytes' \in Nat
          /\ file_size' \in Int /\ content' \in Int /\ disk' \in Int /\ fd' \in Int
          /\ write_buffer' \in Int /\ write_size' \in Int /\ reads' \in Nat
      BY <1>10, <2>2 DEF Sends, AfterKeptAlive, FreshResponse, OK
    <3>4. QED BY <3>2, <3>3
  <2>3. QED BY <2>1, <2>2
<1>11. CASE SendFails
  BY <1>11 DEF SendFails
<1>12. CASE BeginsCGI
  BY <1>12 DEF BeginsCGI
<1>13. CASE EndsCGI
  BY <1>13 DEF EndsCGI
<1>14. ASSUME NEW n \in Chunks, ReadsCGI(n) PROVE Types'
  BY <1>14 DEF ReadsCGI, RoomAfterRead, BUF_SIZE
<1>15. CASE Removes
  BY <1>15 DEF Removes
<1>16. ASSUME NEW size \in FileSizes, Writes(size) PROVE Types'
  BY <1>16 DEF Writes
<1>17. ASSUME NEW size \in FileSizes, Appears(size) PROVE Types'
  BY <1>17 DEF Appears
<1>18. CASE BeginsAgain
  BY <1>18 DEF BeginsAgain, Builds, DateLine, ServerLine
<1>19. CASE Done \/ UNCHANGED vars
  BY <1>19 DEF Done, vars
<1>20. QED
  BY <1>1, <1>2, <1>3, <1>4, <1>5, <1>6, <1>7, <1>8, <1>9, <1>10, <1>11, <1>12,
     <1>13, <1>14, <1>15, <1>16, <1>17, <1>18, <1>19
  DEF Next, Answer, AnswerCGI, Others

\* Each header adds less to the layout than to the room.
LEMMA HeadersNext == Types /\ HeadersBounded /\ [Next]_vars => HeadersBounded'
<1> SUFFICES ASSUME Types, HeadersBounded, [Next]_vars PROVE HeadersBounded'
  OBVIOUS
<1> USE ResponseAssumption DEF HeadersBounded, LongestLine, RoomFor,
    StatusLine, bufVars, diskVars, history, reqVars, resVars
<1>1. ASSUME NEW status \in Statuses, NEW close \in BOOLEAN, NEW is_head \in BOOLEAN,
             Begins(status, close, is_head)
      PROVE HeadersBounded'
  BY <1>1 DEF Begins, Builds, Types, DateLine, ServerLine
<1>2. CASE Stats
  BY <1>2 DEF Stats
<1>3. CASE Opens
  BY <1>3 DEF Opens
<1>4. CASE OpenFails
  BY <1>4 DEF OpenFails
<1>5. CASE Measures
  BY <1>5 DEF Measures
<1>6. ASSUME NEW type \in ContentTypeLines, Loads(type) PROVE HeadersBounded'
  <2>1. ContentLengthLine(file_size) \in 18..28
    BY DigitsBound DEF Types, ContentLengthLine
  <2>2. QED BY <1>6, <2>1 DEF Loads, Types, ContentTypeLines, LastModifiedLine
<1>7. CASE AddsConnection
  BY <1>7 DEF AddsConnection, AddsHeader, ConnectionLine, Types
<1>8. CASE Allocates
  BY <1>8 DEF Allocates
<1>9. CASE Serializes
  BY <1>9 DEF Serializes
<1>10. CASE Sends
  BY <1>10 DEF Sends, AfterKeptAlive, FreshResponse
<1>11. CASE SendFails
  BY <1>11 DEF SendFails
<1>12. CASE BeginsCGI
  BY <1>12 DEF BeginsCGI
<1>13. CASE EndsCGI
  BY <1>13 DEF EndsCGI
<1>14. ASSUME NEW n \in Chunks, ReadsCGI(n) PROVE HeadersBounded'
  BY <1>14 DEF ReadsCGI
<1>15. CASE Removes
  BY <1>15 DEF Removes
<1>16. ASSUME NEW size \in FileSizes, Writes(size) PROVE HeadersBounded'
  BY <1>16 DEF Writes
<1>17. ASSUME NEW size \in FileSizes, Appears(size) PROVE HeadersBounded'
  BY <1>17 DEF Appears
<1>18. CASE BeginsAgain
  BY <1>18 DEF BeginsAgain, Builds, Types, DateLine, ServerLine
<1>19. CASE Done \/ UNCHANGED vars
  BY <1>19 DEF Done, vars
<1>20. QED
  BY <1>1, <1>2, <1>3, <1>4, <1>5, <1>6, <1>7, <1>8, <1>9, <1>10, <1>11, <1>12,
     <1>13, <1>14, <1>15, <1>16, <1>17, <1>18, <1>19
  DEF Next, Answer, AnswerCGI, Others

\* A connection that kept no response alive has its first buffer, and every
\* read leaves room for the next.
LEMMA RoomNext == Types /\ RoomKnown /\ [Next]_vars => RoomKnown'
<1> SUFFICES ASSUME Types, RoomKnown, [Next]_vars PROVE RoomKnown'
  OBVIOUS
<1> USE ResponseAssumption DEF RoomKnown, CGIRoomAtFirst, bufVars, diskVars,
    history, reqVars, resVars
<1>1. ASSUME NEW status \in Statuses, NEW close \in BOOLEAN, NEW is_head \in BOOLEAN,
             Begins(status, close, is_head)
      PROVE RoomKnown'
  BY <1>1 DEF Begins, Builds
<1>2. CASE Stats
  BY <1>2 DEF Stats
<1>3. CASE Opens
  BY <1>3 DEF Opens
<1>4. CASE OpenFails
  BY <1>4 DEF OpenFails
<1>5. CASE Measures
  BY <1>5 DEF Measures
<1>6. ASSUME NEW type \in ContentTypeLines, Loads(type) PROVE RoomKnown'
  BY <1>6 DEF Loads
<1>7. CASE AddsConnection
  BY <1>7 DEF AddsConnection
<1>8. CASE Allocates
  BY <1>8 DEF Allocates
<1>9. CASE Serializes
  BY <1>9 DEF Serializes
<1>10. CASE Sends
  BY <1>10 DEF Sends
<1>11. CASE SendFails
  BY <1>11 DEF SendFails
<1>12. CASE BeginsCGI
  BY <1>12 DEF BeginsCGI, BUF_SIZE
<1>13. CASE EndsCGI
  BY <1>13 DEF EndsCGI
<1>14. ASSUME NEW n \in Chunks, ReadsCGI(n) PROVE RoomKnown'
  BY <1>14 DEF ReadsCGI, RoomAfterRead, BUF_SIZE, Types
<1>15. CASE Removes
  BY <1>15 DEF Removes
<1>16. ASSUME NEW size \in FileSizes, Writes(size) PROVE RoomKnown'
  BY <1>16 DEF Writes
<1>17. ASSUME NEW size \in FileSizes, Appears(size) PROVE RoomKnown'
  BY <1>17 DEF Appears
<1>18. CASE BeginsAgain
  BY <1>18 DEF BeginsAgain, Builds
<1>19. CASE Done \/ UNCHANGED vars
  BY <1>19 DEF Done, vars
<1>20. QED
  BY <1>1, <1>2, <1>3, <1>4, <1>5, <1>6, <1>7, <1>8, <1>9, <1>10, <1>11, <1>12,
     <1>13, <1>14, <1>15, <1>16, <1>17, <1>18, <1>19
  DEF Next, Answer, AnswerCGI, Others

\* The file is measured once and read once for each response.
LEMMA FileNext == Types /\ FileRead /\ [Next]_vars => FileRead'
<1> SUFFICES ASSUME Types, FileRead, [Next]_vars PROVE FileRead'
  OBVIOUS
<1> USE ResponseAssumption DEF FileRead, Types, bufVars, diskVars, history,
    reqVars, resVars
<1>1. ASSUME NEW status \in Statuses, NEW close \in BOOLEAN, NEW is_head \in BOOLEAN,
             Begins(status, close, is_head)
      PROVE FileRead'
  BY <1>1 DEF Begins, Builds
<1>2. CASE Stats
  BY <1>2 DEF Stats
<1>3. CASE Opens
  BY <1>3 DEF Opens
<1>4. CASE OpenFails
  BY <1>4 DEF OpenFails
<1>5. CASE Measures
  BY <1>5 DEF Measures
<1>6. ASSUME NEW type \in ContentTypeLines, Loads(type) PROVE FileRead'
  BY <1>6 DEF Loads, BytesRead
<1>7. CASE AddsConnection
  BY <1>7 DEF AddsConnection, AddsHeader
<1>8. CASE Allocates
  BY <1>8 DEF Allocates
<1>9. CASE Serializes
  BY <1>9 DEF Serializes
<1>10. CASE Sends
  BY <1>10 DEF Sends, AfterKeptAlive, FreshResponse
<1>11. CASE SendFails
  BY <1>11 DEF SendFails
<1>12. CASE BeginsCGI
  BY <1>12 DEF BeginsCGI
<1>13. CASE EndsCGI
  BY <1>13 DEF EndsCGI
<1>14. ASSUME NEW n \in Chunks, ReadsCGI(n) PROVE FileRead'
  BY <1>14 DEF ReadsCGI
<1>15. CASE Removes
  BY <1>15 DEF Removes
<1>16. ASSUME NEW size \in FileSizes, Writes(size) PROVE FileRead'
  BY <1>16 DEF Writes
<1>17. ASSUME NEW size \in FileSizes, Appears(size) PROVE FileRead'
  BY <1>17 DEF Appears
<1>18. CASE BeginsAgain
  BY <1>18 DEF BeginsAgain, Builds
<1>19. CASE Done \/ UNCHANGED vars
  BY <1>19 DEF Done, vars
<1>20. QED
  BY <1>1, <1>2, <1>3, <1>4, <1>5, <1>6, <1>7, <1>8, <1>9, <1>10, <1>11, <1>12,
     <1>13, <1>14, <1>15, <1>16, <1>17, <1>18, <1>19
  DEF Next, Answer, AnswerCGI, Others

\* Inv is inductive.
LEMMA InvAlways == Spec => []Inv
<1>1. Inv /\ [Next]_vars => Inv'
  BY TypesNext, HeadersNext, RoomNext, FileNext DEF Inv
<1>2. QED BY InvInit, <1>1, PTL DEF Spec

-----------------------------------------------------------------------------

\* Every response is laid out inside the buffer allocated for it.
THEOREM ResponseAlwaysFits == Spec => []ResponseFits
<1>1. Inv => ResponseFits
  BY DEF Inv, Types, HeadersBounded, ResponseFits, RoomFor, Laid, StatusLine,
     LongestLine, MAXLINESIZE
<1>2. QED BY <1>1, InvAlways, PTL

\* Bytes that were not read from the file go out only after it shrank.
THEOREM BodyAlwaysRead == Spec => []BodyIsRead
<1>1. Inv => BodyIsRead
  BY DEF Inv, FileRead, BodyIsRead
<1>2. QED BY <1>1, InvAlways, PTL

\* A response without a file has no body.
THEOREM NothingEverCarriedOver == Spec => []NothingCarriedOver
<1>1. Inv => NothingCarriedOver
  BY DEF Inv, FileRead, NothingCarriedOver
<1>2. QED BY <1>1, InvAlways, PTL

\* The room promised to a connection that comes with a CGI request is there.
THEOREM CGIRoomAlwaysAtFirst == Spec => []CGIRoomAtFirst
<1>1. Inv => CGIRoomAtFirst
  BY DEF Inv, RoomKnown
<1>2. QED BY <1>1, InvAlways, PTL

-----------------------------------------------------------------------------
(* The types of TypeOK, and who may be kept alive *)

\* What TypeOK says of numbers, with what is needed of the control points.
Ranges ==
  /\ stucode \in Statuses \cup {NOT_FOUND, SERVER_ERROR}
  /\ count <= 6 /\ (pc \in {"connection"} => count <= 5)
  /\ file_size \in FileSizes \cup {0} /\ content \in Nat
  /\ write_buffer \in Nat /\ write_size \in Nat /\ reads <= MaxReads
  /\ disk \in FileSizes \cup {NoFile} /\ fd \in FileSizes \cup {NoFile}
  /\ pc \in {"ftell", "fread"} => fd \in FileSizes

Flags == wants_close \in BOOLEAN /\ head \in BOOLEAN /\ says_close \in BOOLEAN

\* A response still open when it is laid out is a 200 that says keep-alive; a
\* CGI child that wrote nothing leaves nothing to send.
OpenIsOK ==
  /\ pc \in {"allocate", "serialize", "send"} /\ reads = 0 /\ is_open =>
       stucode = OK /\ ~says_close
  /\ pc = "read_cgi" /\ reads = 0 => write_size = 0

FullInv == Inv /\ Ranges /\ Flags /\ OpenIsOK

\* Every step keeps the ranges.
LEMMA RangesNext == Inv /\ Ranges /\ [Next]_vars => Ranges'
<1> SUFFICES ASSUME Inv, Ranges, [Next]_vars PROVE Ranges'
  OBVIOUS
<1> USE ResponseAssumption, NoFileType DEF Ranges, Inv, Types, FileRead, Statuses,
    OK, BAD_REQUEST, NOT_FOUND, SERVER_ERROR, NOT_IMPLEMENTED, NoFile, bufVars, diskVars, history,
    reqVars, resVars
<1>1. ASSUME NEW status \in Statuses, NEW close \in BOOLEAN, NEW is_head \in BOOLEAN,
             Begins(status, close, is_head)
      PROVE Ranges'
  BY <1>1 DEF Begins, Builds, DateLine, ServerLine
<1>2. CASE Stats
  BY <1>2 DEF Stats
<1>3. CASE Opens
  BY <1>3 DEF Opens, CanOpen
<1>4. CASE OpenFails
  BY <1>4 DEF OpenFails
<1>5. CASE Measures
  BY <1>5 DEF Measures
<1>6. ASSUME NEW type \in ContentTypeLines, Loads(type) PROVE Ranges'
  BY <1>6 DEF Loads, BytesRead
<1>7. CASE AddsConnection
  BY <1>7 DEF AddsConnection, AddsHeader, Closes
<1>8. CASE Allocates
  BY <1>8 DEF Allocates, RoomFor, StatusLine, MAXLINESIZE
<1>9. CASE Serializes
  BY <1>9 DEF Serializes, Laid, StatusLine
<1>10. CASE Sends
  BY <1>10 DEF Sends, AfterKeptAlive, FreshResponse
<1>11. CASE SendFails
  BY <1>11 DEF SendFails
<1>12. CASE BeginsCGI
  BY <1>12 DEF BeginsCGI, BUF_SIZE
<1>13. CASE EndsCGI
  BY <1>13 DEF EndsCGI
<1>14. ASSUME NEW n \in Chunks, ReadsCGI(n) PROVE Ranges'
  BY <1>14 DEF ReadsCGI, RoomAfterRead, BUF_SIZE
<1>15. CASE Removes
  BY <1>15 DEF Removes
<1>16. ASSUME NEW size \in FileSizes, Writes(size) PROVE Ranges'
  BY <1>16 DEF Writes
<1>17. ASSUME NEW size \in FileSizes, Appears(size) PROVE Ranges'
  BY <1>17 DEF Appears
<1>18. CASE BeginsAgain
  BY <1>18 DEF BeginsAgain, Builds, DateLine, ServerLine
<1>19. CASE Done \/ UNCHANGED vars
  BY <1>19 DEF Done, vars
<1>20. QED
  BY <1>1, <1>2, <1>3, <1>4, <1>5, <1>6, <1>7, <1>8, <1>9, <1>10, <1>11, <1>12,
     <1>13, <1>14, <1>15, <1>16, <1>17, <1>18, <1>19
  DEF Next, Answer, AnswerCGI, Others

\* The flags of the request and of the response stay Boolean.
LEMMA FlagsNext == Flags /\ [Next]_vars => Flags'
<1> SUFFICES ASSUME Flags, [Next]_vars PROVE Flags'
  OBVIOUS
<1> USE DEF Flags, bufVars, diskVars, history,
    reqVars, resVars
<1>1. ASSUME NEW status \in Statuses, NEW close \in BOOLEAN, NEW is_head \in BOOLEAN,
             Begins(status, close, is_head)
      PROVE Flags'
  BY <1>1, Zenon DEF Begins, Builds
<1>2. CASE Stats
  BY <1>2, Zenon DEF Stats
<1>3. CASE Opens
  BY <1>3, Zenon DEF Opens, CanOpen
<1>4. CASE OpenFails
  BY <1>4, Zenon DEF OpenFails
<1>5. CASE Measures
  BY <1>5, Zenon DEF Measures
<1>6. ASSUME NEW type \in ContentTypeLines, Loads(type) PROVE Flags'
  BY <1>6, Zenon DEF Loads, BytesRead
<1>7. CASE AddsConnection
  BY <1>7, Zenon DEF AddsConnection, AddsHeader, Closes
<1>8. CASE Allocates
  BY <1>8, Zenon DEF Allocates
<1>9. CASE Serializes
  BY <1>9, Zenon DEF Serializes
<1>10. CASE Sends
  BY <1>10, Zenon DEF Sends, AfterKeptAlive, FreshResponse
<1>11. CASE SendFails
  BY <1>11, Zenon DEF SendFails
<1>12. CASE BeginsCGI
  BY <1>12, Zenon DEF BeginsCGI
<1>13. CASE EndsCGI
  BY <1>13, Zenon DEF EndsCGI
<1>14. ASSUME NEW n \in Chunks, ReadsCGI(n) PROVE Flags'
  BY <1>14, Zenon DEF ReadsCGI
<1>15. CASE Removes
  BY <1>15, Zenon DEF Removes
<1>16. ASSUME NEW size \in FileSizes, Writes(size) PROVE Flags'
  BY <1>16, Zenon DEF Writes
<1>17. ASSUME NEW size \in FileSizes, Appears(size) PROVE Flags'
  BY <1>17, Zenon DEF Appears
<1>18. CASE BeginsAgain
  BY <1>18, Zenon DEF BeginsAgain, Builds
<1>19. CASE Done \/ UNCHANGED vars
  BY <1>19, Zenon DEF Done, vars
<1>20. QED
  BY <1>1, <1>2, <1>3, <1>4, <1>5, <1>6, <1>7, <1>8, <1>9, <1>10, <1>11, <1>12,
     <1>13, <1>14, <1>15, <1>16, <1>17, <1>18, <1>19
  DEF Next, Answer, AnswerCGI, Others

\* The Connection header and is_open agree with the status.
LEMMA OpenNext == Inv /\ Ranges /\ OpenIsOK /\ [Next]_vars => OpenIsOK'
<1> SUFFICES ASSUME Inv, Ranges, OpenIsOK, [Next]_vars PROVE OpenIsOK'
  OBVIOUS
<1> USE ResponseAssumption DEF OpenIsOK, Inv, Types, RoomKnown, bufVars, diskVars, history,
    reqVars, resVars
<1>1. ASSUME NEW status \in Statuses, NEW close \in BOOLEAN, NEW is_head \in BOOLEAN,
             Begins(status, close, is_head)
      PROVE OpenIsOK'
  BY <1>1 DEF Begins, Builds
<1>2. CASE Stats
  BY <1>2 DEF Stats
<1>3. CASE Opens
  BY <1>3 DEF Opens, CanOpen
<1>4. CASE OpenFails
  BY <1>4 DEF OpenFails
<1>5. CASE Measures
  BY <1>5 DEF Measures
<1>6. ASSUME NEW type \in ContentTypeLines, Loads(type) PROVE OpenIsOK'
  BY <1>6 DEF Loads, BytesRead
<1>7. CASE AddsConnection
  BY <1>7 DEF AddsConnection, AddsHeader, Closes
<1>8. CASE Allocates
  BY <1>8 DEF Allocates
<1>9. CASE Serializes
  BY <1>9 DEF Serializes
<1>10. CASE Sends
  BY <1>10 DEF Sends, AfterKeptAlive, FreshResponse
<1>11. CASE SendFails
  BY <1>11 DEF SendFails
<1>12. CASE BeginsCGI
  BY <1>12 DEF BeginsCGI
<1>13. CASE EndsCGI
  BY <1>13 DEF EndsCGI
<1>14. ASSUME NEW n \in Chunks, ReadsCGI(n) PROVE OpenIsOK'
  BY <1>14 DEF ReadsCGI
<1>15. CASE Removes
  BY <1>15 DEF Removes
<1>16. ASSUME NEW size \in FileSizes, Writes(size) PROVE OpenIsOK'
  BY <1>16 DEF Writes
<1>17. ASSUME NEW size \in FileSizes, Appears(size) PROVE OpenIsOK'
  BY <1>17 DEF Appears
<1>18. CASE BeginsAgain
  BY <1>18 DEF BeginsAgain, Builds
<1>19. CASE Done \/ UNCHANGED vars
  BY <1>19 DEF Done, vars
<1>20. QED
  BY <1>1, <1>2, <1>3, <1>4, <1>5, <1>6, <1>7, <1>8, <1>9, <1>10, <1>11, <1>12,
     <1>13, <1>14, <1>15, <1>16, <1>17, <1>18, <1>19
  DEF Next, Answer, AnswerCGI, Others

\* FullInv is inductive.
LEMMA FullAlways == Spec => []FullInv
<1>1. Init => Ranges
  BY ResponseAssumption DEF Init, Ranges, Statuses, BUF_SIZE
<1>2. Init => Flags
  BY Zenon DEF Init, Flags
<1>3. Init => OpenIsOK
  BY DEF Init, OpenIsOK
<1>4. Inv /\ [Next]_vars => Inv'
  BY TypesNext, HeadersNext, RoomNext, FileNext DEF Inv
<1>5. FullInv /\ [Next]_vars => FullInv'
  BY <1>4, RangesNext, FlagsNext, OpenNext DEF FullInv
<1>6. Init => FullInv
  BY <1>1, <1>2, <1>3, InvInit DEF FullInv
<1>7. QED BY <1>5, <1>6, PTL DEF Spec

\* The variables of a response keep their types: a list never has more than six
\* headers, and sizes are never negative though the absence of a file is.
THEOREM TypeCorrect == Spec => []TypeOK
<1>1. FullInv => TypeOK
  <2> SUFFICES ASSUME FullInv PROVE TypeOK
    OBVIOUS
  <2>1. count \in 0..6 /\ reads \in 0..MaxReads
    BY ResponseAssumption DEF FullInv, Inv, Types, Ranges
  <2>2. QED BY <2>1, Zenon DEF FullInv, Inv, Types, Ranges, Flags, TypeOK
<1>2. QED BY <1>1, FullAlways, PTL

\* A connection is kept alive only after a 200 that did not announce its end.
THEOREM ErrorsAlwaysClose == Spec => ErrorsClose
<1>1. FullInv /\ [Next]_vars => [KeptAfterOK]_vars
  <2> SUFFICES ASSUME FullInv, Next, pc = "send", pc' = "idle"
               PROVE stucode = OK /\ ~says_close
    BY DEF KeptAfterOK
  <2>1. CASE Sends
    BY <2>1 DEF Sends, FullInv, Inv, Types, OpenIsOK
  <2>2. CASE ~Sends
    BY <2>2 DEF Next, Answer, AnswerCGI, Others, Done, Begins, Builds, BeginsAgain,
       Stats, Opens, OpenFails, Measures, Loads, AddsConnection, Allocates,
       Serializes, SendFails, BeginsCGI, EndsCGI, ReadsCGI, Removes, Writes,
       Appears, vars
  <2>3. QED BY <2>1, <2>2
<1>2. QED BY <1>1, FullAlways, PTL DEF Spec, ErrorsClose

=============================================================================
