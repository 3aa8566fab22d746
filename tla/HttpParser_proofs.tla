--------------------------- MODULE HttpParser_proofs ---------------------------
(***************************************************************************)
(* Theorems about HttpParser, for buffers of any size, any requests and    *)
(* any cuts of the stream.                                                 *)
(***************************************************************************)
EXTENDS HttpParser, SequenceTheorems, WellFoundedInduction, TLAPS

\* The first line has no headers before it, message_body exists from the first
\* piece of a body on, and no request waits for a body without having a
\* Content-Length.
BodyHeld ==
  /\ linetype = REQ_LINE => header_list = <<>>
  /\ linetype < CONTENT => ~has_body
  /\ ~has_body => body = <<>>
  /\ has_body => Allocates(content_length)
  /\ linetype = CONTENT /\ ~has_body => HasHeader(header_list, "Content-Length")

\* During a call, what is known of the request it was called with; the call
\* ends with everything read, or with a request that is complete.
SinceEntry ==
  /\ pc \in {"line", "finish"} =>
       /\ rdbufsize = read_size /\ entry[2] = read_size /\ entry[1] \in REQ_LINE..ERROR
       /\ entry[1] >= COMPLETE => linetype = entry[1]
  /\ pc = "finish" => linetype = COMPLETE \/ (linetype = CONTENT /\ Unread(line_ptr) = 0)

ParserInv == TypeOK /\ BodyHeld /\ BodyFits /\ OkHasUri /\ SinceEntry

-----------------------------------------------------------------------------
(* Arithmetic, minima and symbols *)

\* What size_t can hold.
LEMMA ModRange ==
  ASSUME NEW x \in Int, NEW m \in Nat \ {0}
  PROVE  x % m \in 0..m-1
OBVIOUS

\* A size that fits is itself.
LEMMA ModSmall ==
  ASSUME NEW m \in Nat \ {0}, NEW x \in 0..m-1
  PROVE  x % m = x
OBVIOUS

\* Once everything unread is taken nothing is left, wrapped or not.
LEMMA ModRest ==
  ASSUME NEW x \in Int, NEW m \in Nat \ {0}
  PROVE  (x - (x % m)) % m = 0
OBVIOUS

\* The order of the naturals, as the theorem about it has it.
LEMMA LessThan == OpToRel(<, Nat) = {p \in Nat \X Nat : p[1] < p[2]}
BY DEF OpToRel

\* A set of numbers has a least one.
LEMMA LeastNat ==
  ASSUME NEW S, S \subseteq Nat, S # {}
  PROVE  \E m \in S : \A k \in S : m <= k
<1>1. PICK m \in S : \A k \in S : ~(<<k, m>> \in OpToRel(<, Nat))
  BY NatLessThanWellFounded, WFMin
<1>2. ASSUME NEW k \in S PROVE m <= k
  <2>1. k \in Nat /\ m \in Nat
    OBVIOUS
  <2>2. ~(k < m)
    BY <1>1, <2>1, LessThan
  <2> QED BY <2>1, <2>2
<1> QED BY <1>2

\* The symbols other memory may show are symbols.
LEMMA SymbolTypes ==
  /\ EOL \in Symbols /\ Junk \in Symbols /\ Header("Host", 0) \in Symbols
<1>1. 0 \in Ints
  BY ParserAssumption DEF Ints
<1>2. "" \in Names /\ "Host" \in Names
  BY DEF Names
<1>3. EOL \in Symbols
  BY <1>1, <1>2 DEF Symbols, EOL
<1>4. Junk \in Symbols
  BY <1>1, <1>2 DEF Symbols, Junk
<1>5. Header("Host", 0) \in Symbols
  BY <1>1, <1>2 DEF Symbols, Header
<1> QED BY <1>3, <1>4, <1>5

-----------------------------------------------------------------------------
(* The stream *)

\* f is, for every number of requests up to n, what they are on the wire.
IsSent(f, n, requests) ==
  f = [i \in 0..n |-> IF i = 0 THEN <<>> ELSE f[i - 1] \o Bytes(requests[i])]

\* The requests of a script can be written one after the other.
LEMMA SentExists ==
  ASSUME NEW requests, NEW N \in Nat
  PROVE  \E f : IsSent(f, N, requests)
<1> DEFINE D == {n \in Nat : ~\E f : IsSent(f, n, requests)}
<1> SUFFICES ASSUME D # {} PROVE FALSE
  OBVIOUS
<1>1. PICK m \in D : \A k \in D : m <= k
  <2> D \subseteq Nat
    OBVIOUS
  <2> HIDE DEF D
  <2> QED BY LeastNat
<1>2. m \in Nat /\ ~\E f : IsSent(f, m, requests)
  BY <1>1
<1>3. CASE m = 0
  <2> DEFINE f == [i \in 0..0 |-> <<>>]
  <2>1. f = [i \in 0..0 |-> IF i = 0 THEN <<>> ELSE f[i - 1] \o Bytes(requests[i])]
    OBVIOUS
  <2> QED BY <1>2, <1>3, <2>1 DEF IsSent
<1>4. CASE m # 0
  <2>1. m - 1 \in Nat /\ m - 1 \notin D
    BY <1>1, <1>2, <1>4
  <2>2. PICK f : IsSent(f, m - 1, requests)
    BY <2>1
  <2> DEFINE g == [i \in 0..m |-> IF i = m THEN f[m - 1] \o Bytes(requests[m]) ELSE f[i]]
  <2>3. \A i \in 0..m - 1 : g[i] = f[i]
    BY <1>2
  <2>4. ASSUME NEW i \in 0..m
        PROVE  g[i] = IF i = 0 THEN <<>> ELSE g[i - 1] \o Bytes(requests[i])
    <3>1. CASE i = m
      BY <1>2, <1>4, <2>3, <3>1
    <3>2. CASE i # m
      <4>1. i \in 0..m - 1 /\ (i # 0 => i - 1 \in 0..m - 1)
        BY <1>2, <3>2
      <4>2. f[i] = IF i = 0 THEN <<>> ELSE f[i - 1] \o Bytes(requests[i])
        BY <2>2, <4>1 DEF IsSent
      <4> HIDE DEF g
      <4> QED BY <2>3, <4>1, <4>2
    <3> QED BY <3>1, <3>2
  <2>5. IsSent(g, m, requests)
    BY <2>4 DEF IsSent
  <2> QED BY <1>2, <2>5
<1> QED BY <1>3, <1>4

\* Sent is what its recursion says.
LEMMA SentSteps ==
  ASSUME NEW requests \in Seq(Requests)
  PROVE  IsSent(Sent(requests), Len(requests), requests)
<1> DEFINE sent[i \in 0..Len(requests)] ==
             IF i = 0 THEN <<>> ELSE sent[i - 1] \o Bytes(requests[i])
<1>1. Len(requests) \in Nat
  BY LenProperties
<1>2. PICK f : IsSent(f, Len(requests), requests)
  BY <1>1, SentExists
<1>3. sent = [i \in 0..Len(requests) |->
                IF i = 0 THEN <<>> ELSE sent[i - 1] \o Bytes(requests[i])]
  BY <1>2 DEF IsSent
<1>4. Sent(requests) = sent
  BY DEF Sent
<1> HIDE DEF sent
<1> QED BY <1>3, <1>4 DEF IsSent

\* Where the elements of two sequences are in one after the other.
LEMMA JoinedAt ==
  ASSUME NEW S, NEW s \in Seq(S), NEW t \in Seq(S)
  PROVE  /\ s \o t \in Seq(S) /\ Len(s \o t) = Len(s) + Len(t)
         /\ \A p \in 1..Len(s) : (s \o t)[p] = s[p]
         /\ \A p \in 1..Len(t) : (s \o t)[Len(s) + p] = t[p]
<1>1. /\ s \o t \in Seq(S) /\ Len(s \o t) = Len(s) + Len(t)
      /\ \A p \in 1..Len(s) + Len(t) :
           (s \o t)[p] = IF p <= Len(s) THEN s[p] ELSE t[p - Len(s)]
  BY ConcatProperties
<1>2. Len(s) \in Nat /\ Len(t) \in Nat
  BY LenProperties
<1>3. ASSUME NEW p \in 1..Len(s) PROVE (s \o t)[p] = s[p]
  <2>1. p \in 1..Len(s) + Len(t) /\ p <= Len(s)
    BY <1>2
  <2> QED BY <1>1, <2>1
<1>4. ASSUME NEW p \in 1..Len(t) PROVE (s \o t)[Len(s) + p] = t[p]
  <2>1. /\ Len(s) + p \in 1..Len(s) + Len(t) /\ ~(Len(s) + p <= Len(s))
        /\ Len(s) + p - Len(s) = p
    BY <1>2
  <2>2. (s \o t)[Len(s) + p] = t[Len(s) + p - Len(s)]
    BY <1>1, <2>1
  <2> QED BY <2>1, <2>2
<1> QED BY <1>1, <1>3, <1>4

\* q has n headers and m bytes of body.
Sized(q, n, m) == Len(q.headers) = n /\ Len(q.body) = m

\* Every request has a size.
LEMMA SizeTypes ==
  ASSUME NEW q \in Requests
  PROVE  \E n \in Nat, m \in Nat : Sized(q, n, m)
<1>1. q.headers \in Seq(Symbols) /\ q.body \in Seq(Symbols)
  BY DEF Requests
<1> QED BY <1>1, LenProperties DEF Sized

\* The headers on the wire: each followed by a CR LF.
LEMMA HeaderLinesAt ==
  ASSUME NEW q \in Requests, NEW n \in Nat, NEW m \in Nat, Sized(q, n, m)
  PROVE  /\ HeaderLines(q) \in Seq(Symbols)
         /\ Len(HeaderLines(q)) = 2 * n
         /\ \A j \in 1..n :
              HeaderLines(q)[2 * j - 1] = q.headers[j] /\ HeaderLines(q)[2 * j] = EOL
<1>1. q.headers \in Seq(Symbols)
  BY DEF Requests
<1>2. \A j \in 1..n : q.headers[j] \in Symbols
  BY <1>1, ElementOfSeq DEF Sized
<1>3. ASSUME NEW i \in 1..2 * n
      PROVE  (IF i % 2 = 1 THEN q.headers[(i + 1) \div 2] ELSE EOL) \in Symbols
  <2>1. i % 2 = 1 => (i + 1) \div 2 \in 1..n
    OBVIOUS
  <2> QED BY <1>2, <2>1, SymbolTypes
<1>4. HeaderLines(q) \in [1..2 * n -> Symbols]
  BY <1>3 DEF HeaderLines, Sized
<1>5. HeaderLines(q) \in Seq(Symbols) /\ Len(HeaderLines(q)) = 2 * n
  BY <1>4, LenProperties
<1>6. ASSUME NEW j \in 1..n
      PROVE  HeaderLines(q)[2 * j - 1] = q.headers[j] /\ HeaderLines(q)[2 * j] = EOL
  <2>1. /\ 2 * j - 1 \in 1..2 * n /\ (2 * j - 1) % 2 = 1 /\ (2 * j - 1 + 1) \div 2 = j
        /\ 2 * j \in 1..2 * n /\ (2 * j) % 2 = 0
    OBVIOUS
  <2>2. HeaderLines(q) = [i \in 1..2 * n |->
                            IF i % 2 = 1 THEN q.headers[(i + 1) \div 2] ELSE EOL]
    BY DEF HeaderLines, Sized
  <2> QED BY <2>1, <2>2
<1> QED BY <1>5, <1>6

\* n headers, m bytes of body: the length of a request on the wire.
SizeOf(n, m) == 2 * n + 3 + m

\* A request on the wire, symbol by symbol.
LEMMA BytesAt ==
  ASSUME NEW q \in Requests, NEW n \in Nat, NEW m \in Nat, Sized(q, n, m)
  PROVE  /\ Bytes(q) \in Seq(Symbols)
         /\ Len(Bytes(q)) = SizeOf(n, m)
         /\ Bytes(q)[1] = q.line /\ Bytes(q)[2] = EOL
         /\ \A j \in 1..n : Bytes(q)[2 * j + 1] = q.headers[j] /\ Bytes(q)[2 * j + 2] = EOL
         /\ Bytes(q)[2 * n + 3] = EOL
         /\ \A i \in 1..m : Bytes(q)[2 * n + 3 + i] = q.body[i]
<1> DEFINE first == <<q.line, EOL>>
           lines == HeaderLines(q)
           blank == <<EOL>>
           a == first \o lines
           b == a \o blank
<1>1. q.line \in Symbols /\ q.body \in Seq(Symbols)
  BY DEF Requests
<1>2. /\ first \in Seq(Symbols) /\ Len(first) = 2 /\ first[1] = q.line /\ first[2] = EOL
      /\ blank \in Seq(Symbols) /\ Len(blank) = 1 /\ blank[1] = EOL
  BY <1>1, SymbolTypes
<1>3. /\ lines \in Seq(Symbols) /\ Len(lines) = 2 * n
      /\ \A j \in 1..n : lines[2 * j - 1] = q.headers[j] /\ lines[2 * j] = EOL
  BY HeaderLinesAt
<1>4. Bytes(q) = b \o q.body
  BY DEF Bytes
<1> HIDE DEF first, lines, blank
<1>5. /\ a \in Seq(Symbols) /\ Len(a) = 2 + 2 * n
      /\ \A p \in 1..2 : a[p] = first[p]
      /\ \A p \in 1..2 * n : a[2 + p] = lines[p]
  <2>1. /\ a \in Seq(Symbols) /\ Len(a) = Len(first) + Len(lines)
        /\ \A p \in 1..Len(first) : a[p] = first[p]
        /\ \A p \in 1..Len(lines) : a[Len(first) + p] = lines[p]
    <3>1. first \in Seq(Symbols) /\ lines \in Seq(Symbols)
      BY <1>2, <1>3
    <3> QED BY <3>1, JoinedAt
  <2> QED BY <1>2, <1>3, <2>1
<1> HIDE DEF a
<1>6. /\ b \in Seq(Symbols) /\ Len(b) = 2 + 2 * n + 1
      /\ \A p \in 1..2 + 2 * n : b[p] = a[p]
      /\ \A p \in 1..1 : b[2 + 2 * n + p] = blank[p]
  <2>1. /\ b \in Seq(Symbols) /\ Len(b) = Len(a) + Len(blank)
        /\ \A p \in 1..Len(a) : b[p] = a[p]
        /\ \A p \in 1..Len(blank) : b[Len(a) + p] = blank[p]
    <3>1. a \in Seq(Symbols) /\ blank \in Seq(Symbols)
      BY <1>2, <1>5
    <3> QED BY <3>1, JoinedAt
  <2> QED BY <1>2, <1>5, <2>1
<1> HIDE DEF b
<1>7. /\ Bytes(q) \in Seq(Symbols) /\ Len(Bytes(q)) = 2 + 2 * n + 1 + m
      /\ \A p \in 1..2 + 2 * n + 1 : Bytes(q)[p] = b[p]
      /\ \A p \in 1..m : Bytes(q)[2 + 2 * n + 1 + p] = q.body[p]
  <2>1. /\ Bytes(q) \in Seq(Symbols) /\ Len(Bytes(q)) = Len(b) + Len(q.body)
        /\ \A p \in 1..Len(b) : Bytes(q)[p] = b[p]
        /\ \A p \in 1..Len(q.body) : Bytes(q)[Len(b) + p] = q.body[p]
    <3>1. b \in Seq(Symbols) /\ q.body \in Seq(Symbols)
      BY <1>1, <1>6
    <3> QED BY <1>4, <3>1, JoinedAt
  <2> QED BY <1>6, <2>1 DEF Sized
<1>8. \A p \in 1..2 + 2 * n : Bytes(q)[p] = a[p]
  BY <1>6, <1>7
<1>9. Bytes(q)[1] = q.line /\ Bytes(q)[2] = EOL
  BY <1>2, <1>5, <1>8
<1>10. ASSUME NEW j \in 1..n
       PROVE  Bytes(q)[2 * j + 1] = q.headers[j] /\ Bytes(q)[2 * j + 2] = EOL
  <2>1. PICK p \in 1..2 * n : p = 2 * j - 1
    OBVIOUS
  <2>2. PICK r \in 1..2 * n : r = 2 * j
    OBVIOUS
  <2>3. a[2 + p] = q.headers[j] /\ a[2 + r] = EOL
    BY <1>3, <1>5, <2>1, <2>2
  <2>4. /\ 2 * j + 1 \in 1..2 + 2 * n /\ 2 * j + 1 = 2 + p
        /\ 2 * j + 2 \in 1..2 + 2 * n /\ 2 * j + 2 = 2 + r
    BY <2>1, <2>2
  <2> QED BY <1>8, <2>3, <2>4
<1>11. Bytes(q)[2 * n + 3] = EOL
  <2>1. 2 * n + 3 \in 1..2 + 2 * n + 1 /\ 2 * n + 3 = 2 + 2 * n + 1 /\ 1 \in 1..1
    OBVIOUS
  <2> QED BY <1>2, <1>6, <1>7, <2>1
<1>12. ASSUME NEW i \in 1..m PROVE Bytes(q)[2 * n + 3 + i] = q.body[i]
  <2>1. 2 * n + 3 + i = 2 + 2 * n + 1 + i
    OBVIOUS
  <2> QED BY <1>7, <2>1
<1>13. Len(Bytes(q)) = SizeOf(n, m)
  BY <1>7 DEF SizeOf
<1> QED BY <1>7, <1>9, <1>10, <1>11, <1>12, <1>13

\* The first i requests on the wire, and what the next one adds.
LEMMA SentAt ==
  ASSUME NEW requests \in Seq(Requests)
  PROVE  /\ Len(requests) \in Nat
         /\ Sent(requests)[0] = <<>>
         /\ \A i \in 1..Len(requests) :
              /\ requests[i] \in Requests
              /\ Sent(requests)[i] = Sent(requests)[i - 1] \o Bytes(requests[i])
<1>1. Len(requests) \in Nat
  BY LenProperties
<1>2. IsSent(Sent(requests), Len(requests), requests)
  BY SentSteps
<1>3. \A i \in 1..Len(requests) : requests[i] \in Requests
  BY ElementOfSeq
<1> QED BY <1>1, <1>2, <1>3 DEF IsSent

\* However many requests have been sent, they are symbols.
LEMMA SentTypes ==
  ASSUME NEW requests \in Seq(Requests)
  PROVE  \A i \in 0..Len(requests) : Sent(requests)[i] \in Seq(Symbols)
<1> DEFINE D == {i \in 0..Len(requests) : Sent(requests)[i] \notin Seq(Symbols)}
<1> SUFFICES ASSUME D # {} PROVE FALSE
  OBVIOUS
<1>1. PICK m \in D : \A k \in D : m <= k
  <2> D \subseteq Nat
    BY SentAt
  <2> HIDE DEF D
  <2> QED BY LeastNat
<1>2. m # 0
  <2>1. <<>> \in Seq(Symbols)
    BY EmptySeq
  <2> QED BY <1>1, <2>1, SentAt
<1>3. m \in 1..Len(requests) /\ m - 1 \in 0..Len(requests) /\ m - 1 \notin D
  BY <1>1, <1>2, SentAt
<1>4. requests[m] \in Requests /\ Sent(requests)[m] = Sent(requests)[m - 1] \o Bytes(requests[m])
  BY <1>3, SentAt
<1>5. Bytes(requests[m]) \in Seq(Symbols)
  BY <1>4, SizeTypes, BytesAt
<1>6. Sent(requests)[m - 1] \in Seq(Symbols)
  BY <1>3
<1>7. Sent(requests)[m] \in Seq(Symbols)
  <2>1. Sent(requests)[m - 1] \o Bytes(requests[m]) \in Seq(Symbols)
    BY <1>5, <1>6, ConcatProperties
  <2> QED BY <1>4, <2>1
<1> QED BY <1>1, <1>7

\* One request more leaves what was sent before as it is.
LEMMA SentNext ==
  ASSUME NEW requests \in Seq(Requests), NEW i \in 1..Len(requests)
  PROVE  LET before == Sent(requests)[i - 1]
             after == Sent(requests)[i]
         IN /\ before \in Seq(Symbols) /\ after \in Seq(Symbols)
            /\ Len(after) = Len(before) + Len(Bytes(requests[i]))
            /\ \A p \in 1..Len(before) : after[p] = before[p]
            /\ \A p \in 1..Len(Bytes(requests[i])) :
                 after[Len(before) + p] = Bytes(requests[i])[p]
<1> DEFINE before == Sent(requests)[i - 1]
           after == Sent(requests)[i]
           bytes == Bytes(requests[i])
<1>1. i - 1 \in 0..Len(requests) /\ i \in 0..Len(requests)
  BY SentAt
<1>2. before \in Seq(Symbols) /\ after \in Seq(Symbols)
  BY <1>1, SentTypes
<1>3. bytes \in Seq(Symbols)
  BY SentAt, SizeTypes, BytesAt
<1>4. after = before \o bytes
  BY SentAt
<1> HIDE DEF before, after, bytes
<1>5. /\ Len(after) = Len(before) + Len(bytes)
      /\ \A p \in 1..Len(before) : after[p] = before[p]
      /\ \A p \in 1..Len(bytes) : after[Len(before) + p] = bytes[p]
  BY <1>2, <1>3, <1>4, JoinedAt
<1> QED BY <1>2, <1>5 DEF before, after, bytes

\* A sum is not less than its parts.
LEMMA NotLess ==
  ASSUME NEW a \in Nat, NEW b \in Nat, NEW c \in Nat, a <= b
  PROVE  a <= b + c
OBVIOUS

\* What was sent with i requests is how everything sent with more begins.
LEMMA SentGrows ==
  ASSUME NEW requests \in Seq(Requests), NEW i \in 0..Len(requests)
  PROVE  \A j \in i..Len(requests) :
           /\ Len(Sent(requests)[i]) <= Len(Sent(requests)[j])
           /\ \A p \in 1..Len(Sent(requests)[i]) : Sent(requests)[j][p] = Sent(requests)[i][p]
<1> DEFINE Grown(j) ==
             /\ Len(Sent(requests)[i]) <= Len(Sent(requests)[j])
             /\ \A p \in 1..Len(Sent(requests)[i]) : Sent(requests)[j][p] = Sent(requests)[i][p]
           D == {j \in i..Len(requests) : ~Grown(j)}
<1>0. Len(requests) \in Nat /\ \A j \in 0..Len(requests) : Len(Sent(requests)[j]) \in Nat
  BY SentAt, SentTypes, LenProperties
<1> SUFFICES ASSUME D # {} PROVE FALSE
  OBVIOUS
<1>1. PICK m \in D : \A k \in D : m <= k
  <2> D \subseteq Nat
    BY <1>0
  <2> HIDE DEF D
  <2> QED BY LeastNat
<1>2. m # i
  BY <1>0, <1>1
<1>3. m \in 1..Len(requests) /\ m - 1 \in i..Len(requests) /\ m - 1 \notin D
  BY <1>0, <1>1, <1>2
<1>4. Grown(m - 1)
  BY <1>3
<1>5. /\ Len(Sent(requests)[m]) = Len(Sent(requests)[m - 1]) + Len(Bytes(requests[m]))
      /\ \A p \in 1..Len(Sent(requests)[m - 1]) : Sent(requests)[m][p] = Sent(requests)[m - 1][p]
  BY <1>3, SentNext
<1>6. Len(Bytes(requests[m])) \in Nat /\ m - 1 \in 0..Len(requests)
  <2>1. Bytes(requests[m]) \in Seq(Symbols)
    BY <1>3, SentAt, SizeTypes, BytesAt
  <2> QED BY <1>0, <1>3, <2>1, LenProperties
<1>7. Grown(m)
  <2>1. /\ Len(Sent(requests)[i]) \in Nat /\ Len(Sent(requests)[m - 1]) \in Nat
        /\ Len(Bytes(requests[m])) \in Nat
    BY <1>0, <1>6
  <2>2. /\ Len(Sent(requests)[i]) <= Len(Sent(requests)[m - 1])
        /\ Len(Sent(requests)[m]) = Len(Sent(requests)[m - 1]) + Len(Bytes(requests[m]))
    BY <1>4, <1>5
  <2>3. Len(Sent(requests)[i]) <= Len(Sent(requests)[m])
    <3>1. Len(Sent(requests)[i]) <= Len(Sent(requests)[m - 1]) + Len(Bytes(requests[m]))
      BY <2>1, <2>2, NotLess
    <3> QED BY <2>2, <3>1, Zenon
  <2>4. ASSUME NEW p \in 1..Len(Sent(requests)[i])
        PROVE  Sent(requests)[m][p] = Sent(requests)[i][p]
    <3>1. p \in 1..Len(Sent(requests)[m - 1])
      BY <2>1, <2>2
    <3>2. Sent(requests)[m][p] = Sent(requests)[m - 1][p]
      BY <1>5, <3>1
    <3> QED BY <1>4, <3>2
  <2> QED BY <2>3, <2>4
<1> QED BY <1>1, <1>7

\* The stream is made of symbols.
LEMMA StreamTypes ==
  ASSUME script \in Scripts
  PROVE  Stream \in Seq(Symbols)
<1>1. script \in Seq(Requests)
  BY ParserAssumption
<1>2. Len(script) \in 0..Len(script)
  BY <1>1, LenProperties
<1> QED BY <1>1, <1>2, SentTypes DEF Stream

-----------------------------------------------------------------------------
(* What the steps need *)

\* An empty list has no header.
LEMMA NoHeader ==
  ASSUME NEW name PROVE ~HasHeader(<<>>, name)
<1>1. DOMAIN <<>> = {}
  OBVIOUS
<1> QED BY <1>1 DEF HasHeader, Found

\* What is assumed of the constants, in the form the steps need.
LEMMA Constants ==
  /\ BUF_SIZE \in Nat \ {0} /\ SizeT \in Nat \ {0} /\ BUF_SIZE < SizeT
  /\ MaxOverrun \in Nat
  /\ INT_MAX \in Nat /\ INT_MAX < SizeT
  /\ 0 \in Ints /\ NULL \in Ints /\ Ints \subseteq Int
BY ParserAssumption DEF Ints, NULL

\* However it wraps, what is unread is a size.
LEMMA UnreadTypes ==
  ASSUME TypeOK, NEW from \in Nat
  PROVE  Unread(from) \in Sizes /\ Unread(from) \in Nat
<1>1. rdbufsize \in Int
  BY Constants DEF TypeOK, Sizes
<1>2. (rdbufsize - from) % SizeT \in 0..SizeT-1
  BY <1>1, Constants, ModRange
<1> QED BY <1>2, Constants DEF Unread, Sizes

\* A line ends behind its beginning, and starts with a symbol.
LEMMA FoundLineTypes ==
  ASSUME TypeOK
  PROVE  LineEnds \subseteq Nat /\ Texts \subseteq Symbols
<1>1. line_ptr \in Nat /\ Unread(line_ptr) \in Nat
  BY UnreadTypes DEF TypeOK
<1>2. ScanEnd \in Int
  BY <1>1, Constants DEF ScanEnd
<1>3. Ends \subseteq Nat
  BY <1>1, <1>2 DEF Ends
<1>4. Ends # {} => Min(Ends) \in Nat
  <2> SUFFICES ASSUME Ends # {} PROVE Min(Ends) \in Nat
    OBVIOUS
  <2>1. \E m \in Ends : \A k \in Ends : m <= k
    BY <1>3, LeastNat
  <2>2. Min(Ends) \in Ends
    BY <2>1 DEF Min
  <2> QED BY <1>3, <2>2
<1>5. LineEnds \subseteq Nat
  BY <1>1, <1>4, Constants DEF LineEnds
<1>6. line_ptr < BUF_SIZE => buf[line_ptr] \in Symbols
  BY <1>1, Constants DEF TypeOK
<1>7. Texts \subseteq Symbols
  BY <1>6, SymbolTypes DEF Texts
<1> QED BY <1>5, <1>7

\* get_header_value finds what is there.
LEMMA HeaderValueTypes ==
  ASSUME NEW list \in Seq(Symbols), NEW name, HasHeader(list, name)
  PROVE  HeaderValue(list, name) \in Ints
<1> DEFINE F == Found(list, name)
           i == CHOOSE i \in F : \A j \in F : i <= j
<1>1. F \subseteq DOMAIN list /\ F # {}
  BY DEF Found, HasHeader
<1>2. DOMAIN list = 1..Len(list) /\ Len(list) \in Nat
  BY LenProperties
<1>3. F \subseteq Nat
  BY <1>1, <1>2
<1>4. \E m \in F : \A k \in F : m <= k
  <2> HIDE DEF F
  <2> QED BY <1>1, <1>3, LeastNat
<1>5. i \in F
  BY <1>4
<1>6. list[i] \in Symbols
  BY <1>1, <1>2, <1>5, ElementOfSeq
<1>7. list[i].value \in Ints
  BY <1>6 DEF Symbols
<1> QED BY <1>7 DEF HeaderValue

\* An int, but for what is there already, as a size.
LEMMA MissingTypes ==
  ASSUME TypeOK, NEW v \in Ints
  PROVE  /\ Missing(v) \in Nat /\ Len(body) \in Nat
         /\ Len(body) <= v => Missing(v) = v - Len(body)
<1>1. Len(body) \in Nat /\ v \in Int /\ SizeT \in Nat \ {0}
  BY LenProperties, Constants DEF TypeOK
<1>2. Missing(v) \in Nat
  <2>1. v - Len(body) \in Int
    BY <1>1
  <2>2. (v - Len(body)) % SizeT \in 0..SizeT-1
    BY <1>1, <2>1, ModRange
  <2> QED BY <1>1, <2>2 DEF Missing
<1>3. ASSUME Len(body) <= v PROVE Missing(v) = v - Len(body)
  <2>1. v <= INT_MAX /\ INT_MAX \in Nat /\ INT_MAX < SizeT
    BY Constants DEF Ints
  <2>2. v - Len(body) \in 0..SizeT-1
    BY <1>1, <1>3, <2>1
  <2> QED BY <1>1, <2>2, ModSmall DEF Missing
<1> QED BY <1>1, <1>2, <1>3

\* A length that is not negative is one that what is there does not exceed.
LEMMA LengthHolds ==
  ASSUME TypeOK, BodyHeld, BodyFits, NEW v, TakenLength(v), v >= 0
  PROVE  Len(body) <= v
<1>1. v \in Int
  BY Constants DEF TakenLength
<1>2. CASE has_body
  BY <1>2 DEF TakenLength, BodyFits
<1>3. CASE ~has_body
  <2>1. Len(body) = 0
    BY <1>3, EmptySeq DEF BodyHeld
  <2> QED BY <1>1, <2>1
<1> QED BY <1>2, <1>3

\* n more symbols of the body.
LEMMA BodyStep ==
  ASSUME TypeOK, BodyHeld, NEW v, TakenLength(v), NEW n \in Nat, TakesBody(v, n)
  PROVE  /\ v \in Ints /\ content_length' = v /\ has_body' = Allocates(v)
         /\ body' \in Seq(Symbols) /\ Len(body) \in Nat
         /\ Len(body') = Len(body) + n
         /\ line_ptr' = line_ptr + n /\ line_ptr' \in Nat
         /\ ~has_body' => body' = <<>>
         /\ has_body' => Allocates(content_length')
<1>1. v \in Ints
  BY DEF TakenLength
<1>2. Copied(n) \in Seq(Symbols) /\ Len(Copied(n)) = n
  <2>1. line_ptr \in Nat
    BY DEF TypeOK
  <2>2. \A i \in 1..n :
          (IF line_ptr + i - 1 < BUF_SIZE THEN buf[line_ptr + i - 1] ELSE Junk) \in Symbols
    BY <2>1, Constants, SymbolTypes DEF TypeOK
  <2>3. Copied(n) \in [1..n -> Symbols]
    BY <2>2 DEF Copied
  <2> QED BY <2>3, LenProperties
<1>3. body \in Seq(Symbols) /\ line_ptr \in Nat
  BY DEF TypeOK
<1>4. /\ body \o Copied(n) \in Seq(Symbols)
      /\ Len(body \o Copied(n)) = Len(body) + Len(Copied(n))
  BY <1>2, <1>3, ConcatProperties
<1>5. Len(body) \in Nat
  BY <1>3, LenProperties
<1>6. ASSUME ~Allocates(v) PROVE body \o Copied(n) = <<>>
  <2>1. ~has_body /\ n = 0
    BY <1>6 DEF TakesBody, TakenLength, BodyHeld
  <2>2. Len(body) = 0
    BY <2>1, EmptySeq DEF BodyHeld
  <2>3. Len(body \o Copied(n)) = 0
    BY <1>2, <1>4, <2>1, <2>2
  <2> QED BY <1>4, <2>3, EmptySeq
<1> QED BY <1>1, <1>2, <1>3, <1>4, <1>5, <1>6 DEF TakesBody

\* What arrives is written into the buffer.
LEMMA FilledTypes ==
  ASSUME TypeOK, NEW n \in Nat, got + n <= Len(Stream)
  PROVE  Filled(n) \in [0..BUF_SIZE-1 -> Symbols]
<1>1. Stream \in Seq(Symbols)
  BY StreamTypes DEF TypeOK
<1>2. ReadOffset \in Int /\ got \in Nat
  BY Constants DEF TypeOK, ReadOffset, Sizes
<1>3. ASSUME NEW i \in 0..BUF_SIZE-1, i - ReadOffset \in 0..n-1
      PROVE  Stream[got + 1 + i - ReadOffset] \in Symbols
  <2>1. got + 1 + i - ReadOffset \in 1..Len(Stream)
    BY <1>1, <1>2, <1>3, Constants, LenProperties
  <2> QED BY <1>1, <2>1, ElementOfSeq
<1>4. DOMAIN buf = 0..BUF_SIZE-1 /\ \A i \in 0..BUF_SIZE-1 : buf[i] \in Symbols
  BY DEF TypeOK
<1> QED BY <1>3, <1>4 DEF Filled

\* memmove leaves symbols in the buffer.
LEMMA MovedTypes ==
  ASSUME TypeOK, NEW n \in Nat
  PROVE  Moved(n) \in [0..BUF_SIZE-1 -> Symbols]
<1>1. line_ptr \in Nat /\ DOMAIN buf = 0..BUF_SIZE-1
  BY DEF TypeOK
<1>2. ASSUME NEW i \in 0..BUF_SIZE-1
      PROVE  /\ buf[i] \in Symbols
             /\ line_ptr + i < BUF_SIZE => buf[line_ptr + i] \in Symbols
  BY <1>1, <1>2, Constants DEF TypeOK
<1> QED BY <1>1, <1>2, SymbolTypes DEF Moved

\* A request starts afresh.
LEMMA FreshTypes ==
  ASSUME FreshRequest
  PROVE  /\ linetype' = REQ_LINE /\ stucode' = "OK" /\ lineptr' = NULL
         /\ mtdcode' \in Methods /\ uri' = NULL /\ is_CGI' = FALSE
         /\ header_list' = <<>> /\ header_list' \in Seq(Symbols) /\ content_length' = 0
         /\ has_body' = FALSE /\ body' = <<>> /\ body' \in Seq(Symbols) /\ Len(body') = 0
BY EmptySeq DEF FreshRequest, Methods

\* An answer is made of what the parser has found.
LEMMA AnsweredTypes ==
  ASSUME TypeOK
  PROVE  Append(answers, Answered) \in Seq(Answers)
<1>1. Answered \in Answers
  BY DEF TypeOK, Answered, Answers
<1> QED BY <1>1, AppendProperties DEF TypeOK

\* The call of parse_request.
LEMMA CallTypes ==
  ASSUME TypeOK, CallsParser, read_size' \in Sizes
  PROVE  /\ line_ptr' \in Nat /\ rdbufsize' \in Sizes /\ state' = "PARSING" /\ pc' = "line"
         /\ entry'[1] = linetype /\ entry'[2] = read_size' /\ rdbufsize' = read_size'
BY DEF TypeOK, CallsParser

-----------------------------------------------------------------------------

\* The invariant holds for a connection just accepted.
LEMMA ParserInit == Init => ParserInv
<1> SUFFICES ASSUME Init PROVE ParserInv
  OBVIOUS
<1>1. <<>> \in Seq(Symbols) /\ Len(<<>>) = 0
  BY EmptySeq
<1>2. buf \in [0..BUF_SIZE-1 -> Symbols]
  BY SymbolTypes DEF Init
<1>3. TypeOK
  <2>1. /\ script \in Scripts /\ got \in Nat /\ state = "VACANT" /\ is_pipe = FALSE
        /\ read_size \in Sizes /\ line_ptr \in Nat /\ rdbufsize \in Sizes
    BY Constants DEF Init, Sizes
  <2>2. /\ linetype \in REQ_LINE..ERROR /\ stucode = "OK" /\ mtdcode \in Methods
        /\ uri = NULL /\ lineptr = NULL /\ is_CGI = FALSE /\ has_body = FALSE
        /\ header_list \in Seq(Symbols) /\ body \in Seq(Symbols)
        /\ content_length \in Ints /\ uri \in Ints /\ pc = "select"
    BY <1>1, Constants DEF Init, Methods, REQ_LINE, ERROR
  <2>3. answers \in Seq(Answers)
    BY EmptySeq DEF Init
  <2> QED BY <1>2, <2>1, <2>2, <2>3 DEF TypeOK, Statuses
<1> QED
  BY <1>1, <1>3 DEF Init, ParserInv, BodyHeld, BodyFits, OkHasUri, SinceEntry,
     REQ_LINE, CONTENT, COMPLETE

\* Every step keeps the invariant: one case for each action.
LEMMA ParserNext == ParserInv /\ [Next]_vars => ParserInv'
<1> SUFFICES ASSUME ParserInv, [Next]_vars PROVE ParserInv'
  OBVIOUS
<1> USE DEF clientVars, connVars, reqVars, localVars, histVars,
        REQ_LINE, HEADER, CONTENT, COMPLETE, ERROR
<1>a. TypeOK /\ BodyHeld /\ BodyFits /\ OkHasUri /\ SinceEntry
  BY DEF ParserInv
<1>1. ASSUME NEW n \in 1..Len(Stream), Receives(n) PROVE ParserInv'
  <2>a. n \in Nat /\ got + n <= Len(Stream)
    <3>1. Stream \in Seq(Symbols)
      BY <1>a, StreamTypes DEF TypeOK
    <3> QED BY <1>1, <3>1, LenProperties DEF Receives, Arrives
  <2>b. read_size' \in Sizes
    <3>1. read_size + n \in Int
      BY <1>a, <2>a, Constants DEF TypeOK, Sizes
    <3> QED BY <1>1, <3>1, Constants, ModRange DEF Receives, SizeAfter, Sizes
  <2>c. /\ line_ptr' \in Nat /\ rdbufsize' \in Sizes /\ state' = "PARSING" /\ pc' = "line"
        /\ entry'[1] = linetype /\ entry'[2] = read_size' /\ rdbufsize' = read_size'
    BY <1>a, <1>1, <2>b, CallTypes DEF Receives
  <2>d. buf' \in [0..BUF_SIZE-1 -> Symbols] /\ got' \in Nat
    BY <1>a, <1>1, <2>a, FilledTypes DEF Receives, Arrives, TypeOK
  <2>1. TypeOK'
    BY <1>a, <1>1, <2>b, <2>c, <2>d DEF Receives, Arrives, TypeOK
  <2>2. BodyHeld'
    BY <1>a, <1>1, <2>b, <2>c, <2>d DEF Receives, Arrives, BodyHeld
  <2>3. BodyFits'
    BY <1>a, <1>1, <2>b, <2>c, <2>d DEF Receives, Arrives, BodyFits
  <2>4. OkHasUri'
    BY <1>a, <1>1, <2>b, <2>c, <2>d DEF Receives, Arrives, OkHasUri
  <2>5. SinceEntry'
    BY <1>a, <1>1, <2>b, <2>c, <2>d DEF Receives, Arrives, SinceEntry, TypeOK
  <2> QED BY <2>1, <2>2, <2>3, <2>4, <2>5 DEF ParserInv
<1>2. ASSUME NEW n \in 1..Len(Stream), ReceivesTooMuch(n) PROVE ParserInv'
  <2>a. n \in Nat /\ got + n <= Len(Stream)
    <3>1. Stream \in Seq(Symbols)
      BY <1>a, StreamTypes DEF TypeOK
    <3> QED BY <1>2, <3>1, LenProperties DEF ReceivesTooMuch, Arrives
  <2>b. read_size' \in Sizes
    BY <1>a, <1>2 DEF ReceivesTooMuch, ReadFailed, TypeOK
  <2>c. CallsParser =>
          /\ line_ptr' \in Nat /\ rdbufsize' \in Sizes /\ state' = "PARSING" /\ pc' = "line"
          /\ entry'[1] = linetype /\ entry'[2] = read_size' /\ rdbufsize' = read_size'
    BY <1>a, <2>b, CallTypes
  <2>d. buf' \in [0..BUF_SIZE-1 -> Symbols] /\ got' \in Nat
    BY <1>a, <1>2, <2>a, FilledTypes DEF ReceivesTooMuch, Arrives, TypeOK
  <2>1. TypeOK'
    BY <1>a, <1>2, <2>b, <2>c, <2>d DEF ReceivesTooMuch, Arrives, ReadFailed, TypeOK
  <2>2. BodyHeld'
    BY <1>a, <1>2, <2>b, <2>c, <2>d DEF ReceivesTooMuch, Arrives, ReadFailed, BodyHeld
  <2>3. BodyFits'
    BY <1>a, <1>2, <2>b, <2>c, <2>d DEF ReceivesTooMuch, Arrives, ReadFailed, BodyFits
  <2>4. OkHasUri'
    BY <1>a, <1>2, <2>b, <2>c, <2>d DEF ReceivesTooMuch, Arrives, ReadFailed, OkHasUri
  <2>5. SinceEntry'
    BY <1>a, <1>2, <2>b, <2>c, <2>d DEF ReceivesTooMuch, Arrives, ReadFailed, SinceEntry, TypeOK
  <2> QED BY <2>1, <2>2, <2>3, <2>4, <2>5 DEF ParserInv
<1>3. CASE EndOfFile
  <2>b. read_size' \in Sizes
    BY <1>a, <1>3 DEF EndOfFile, ReadFailed, TypeOK
  <2>c. CallsParser =>
          /\ line_ptr' \in Nat /\ rdbufsize' \in Sizes /\ state' = "PARSING" /\ pc' = "line"
          /\ entry'[1] = linetype /\ entry'[2] = read_size' /\ rdbufsize' = read_size'
    BY <1>a, <2>b, CallTypes
  <2>1. TypeOK'
    BY <1>a, <1>3, <2>b, <2>c DEF EndOfFile, ReadFailed, TypeOK
  <2>2. BodyHeld'
    BY <1>a, <1>3, <2>b, <2>c DEF EndOfFile, ReadFailed, BodyHeld
  <2>3. BodyFits'
    BY <1>a, <1>3, <2>b, <2>c DEF EndOfFile, ReadFailed, BodyFits
  <2>4. OkHasUri'
    BY <1>a, <1>3, <2>b, <2>c DEF EndOfFile, ReadFailed, OkHasUri
  <2>5. SinceEntry'
    BY <1>a, <1>3, <2>b, <2>c DEF EndOfFile, ReadFailed, SinceEntry, TypeOK
  <2> QED BY <2>1, <2>2, <2>3, <2>4, <2>5 DEF ParserInv
<1>4. CASE DamagesHeap
  <2>1. TypeOK'
    BY <1>a, <1>4 DEF DamagesHeap, TypeOK
  <2>2. BodyHeld'
    BY <1>a, <1>4 DEF DamagesHeap, BodyHeld
  <2>3. BodyFits'
    BY <1>a, <1>4 DEF DamagesHeap, BodyFits
  <2>4. OkHasUri'
    BY <1>a, <1>4 DEF DamagesHeap, OkHasUri
  <2>5. SinceEntry'
    BY <1>a, <1>4 DEF DamagesHeap, SinceEntry, TypeOK
  <2> QED BY <2>1, <2>2, <2>3, <2>4, <2>5 DEF ParserInv
<1>5. CASE OtherPass
  <2>b. read_size' \in Sizes
    BY <1>a, <1>5 DEF OtherPass, TypeOK
  <2>c. /\ line_ptr' \in Nat /\ rdbufsize' \in Sizes /\ state' = "PARSING" /\ pc' = "line"
        /\ entry'[1] = linetype /\ entry'[2] = read_size' /\ rdbufsize' = read_size'
    BY <1>a, <1>5, <2>b, CallTypes DEF OtherPass
  <2>1. TypeOK'
    BY <1>a, <1>5, <2>b, <2>c DEF OtherPass, TypeOK
  <2>2. BodyHeld'
    BY <1>a, <1>5, <2>b, <2>c DEF OtherPass, BodyHeld
  <2>3. BodyFits'
    BY <1>a, <1>5, <2>b, <2>c DEF OtherPass, BodyFits
  <2>4. OkHasUri'
    BY <1>a, <1>5, <2>b, <2>c DEF OtherPass, OkHasUri
  <2>5. SinceEntry'
    BY <1>a, <1>5, <2>b, <2>c DEF OtherPass, SinceEntry, TypeOK
  <2> QED BY <2>1, <2>2, <2>3, <2>4, <2>5 DEF ParserInv
<1>6. CASE Leaves
  <2>1. TypeOK'
    BY <1>a, <1>6 DEF Leaves, TypeOK
  <2>2. BodyHeld'
    BY <1>a, <1>6 DEF Leaves, BodyHeld
  <2>3. BodyFits'
    BY <1>a, <1>6 DEF Leaves, BodyFits
  <2>4. OkHasUri'
    BY <1>a, <1>6 DEF Leaves, OkHasUri
  <2>5. SinceEntry'
    BY <1>a, <1>6 DEF Leaves, SinceEntry, TypeOK
  <2> QED BY <2>1, <2>2, <2>3, <2>4, <2>5 DEF ParserInv
<1>7. CASE CGIEnds
  <2>1. TypeOK'
    BY <1>a, <1>7, AnsweredTypes DEF CGIEnds, TypeOK
  <2>2. BodyHeld'
    BY <1>a, <1>7 DEF CGIEnds, BodyHeld
  <2>3. BodyFits'
    BY <1>a, <1>7 DEF CGIEnds, BodyFits
  <2>4. OkHasUri'
    BY <1>a, <1>7 DEF CGIEnds, OkHasUri
  <2>5. SinceEntry'
    BY <1>a, <1>7 DEF CGIEnds, SinceEntry, TypeOK
  <2> QED BY <2>1, <2>2, <2>3, <2>4, <2>5 DEF ParserInv
<1>8. CASE NoLine
  <2>1. TypeOK'
    BY <1>a, <1>8 DEF NoLine, TypeOK
  <2>2. BodyHeld'
    BY <1>a, <1>8 DEF NoLine, BodyHeld
  <2>3. BodyFits'
    BY <1>a, <1>8 DEF NoLine, BodyFits
  <2>4. OkHasUri'
    BY <1>a, <1>8 DEF NoLine, OkHasUri
  <2>5. SinceEntry'
    BY <1>a, <1>8 DEF NoLine, SinceEntry, TypeOK
  <2> QED BY <2>1, <2>2, <2>3, <2>4, <2>5 DEF ParserInv
<1>9. CASE RunsOff
  <2>1. TypeOK'
    BY <1>a, <1>9 DEF RunsOff, TypeOK
  <2>2. BodyHeld'
    BY <1>a, <1>9 DEF RunsOff, BodyHeld
  <2>3. BodyFits'
    BY <1>a, <1>9 DEF RunsOff, BodyFits
  <2>4. OkHasUri'
    BY <1>a, <1>9 DEF RunsOff, OkHasUri
  <2>5. SinceEntry'
    BY <1>a, <1>9 DEF RunsOff, SinceEntry, TypeOK
  <2> QED BY <2>1, <2>2, <2>3, <2>4, <2>5 DEF ParserInv
<1>10. ASSUME NEW to \in LineEnds, EmptyLine(to) PROVE ParserInv'
  <2>a. to \in Nat
    BY <1>a, FoundLineTypes
  <2>b. linetype = REQ_LINE => Incomplete
    BY <1>a, NoHeader DEF BodyHeld, Incomplete
  <2>1. TypeOK'
    BY <1>a, <1>10, <2>a, <2>b DEF EmptyLine, TakesLine, TypeOK, Statuses
  <2>2. BodyHeld'
    BY <1>a, <1>10, <2>b DEF EmptyLine, TakesLine, Incomplete, BodyHeld, TypeOK
  <2>3. BodyFits'
    BY <1>a, <1>10, <2>a, <2>b DEF EmptyLine, TakesLine, BodyFits, BodyHeld, TypeOK
  <2>4. OkHasUri'
    BY <1>a, <1>10, <2>b DEF EmptyLine, TakesLine, OkHasUri
  <2>5. SinceEntry'
    BY <1>a, <1>10, <2>a, <2>b DEF EmptyLine, TakesLine, SinceEntry, TypeOK
  <2> QED BY <2>1, <2>2, <2>3, <2>4, <2>5 DEF ParserInv
<1>11. ASSUME NEW to \in LineEnds, NEW text \in Texts, RequestLine(to, text) PROVE ParserInv'
  <2>a. to \in Nat /\ text \in Symbols
    BY <1>a, FoundLineTypes
  <2>b. text.type = "line" => text.value \in Uris
    BY <2>a DEF Symbols
  <2>1. TypeOK'
    <3>1. /\ linetype' \in REQ_LINE..ERROR /\ line_ptr' \in Nat
          /\ stucode' \in Statuses
      BY <1>a, <1>11, <2>a DEF RequestLine, TakesLine, StatusOfLine, TypeOK, Statuses
    <3>2. uri' \in Uris \cup {NULL} /\ mtdcode' \in Methods
      BY <1>a, <1>11, <2>b DEF RequestLine, TypeOK
    <3>3. (text.value = CgiUri) \in BOOLEAN
      OBVIOUS
    <3>4. is_CGI' = is_CGI \/ is_CGI' = (text.value = CgiUri)
      BY <1>11, Zenon DEF RequestLine
    <3>5. is_CGI' \in BOOLEAN
      BY <1>a, <3>3, <3>4, Zenon DEF TypeOK
    <3> QED BY <1>a, <1>11, <3>1, <3>2, <3>5 DEF RequestLine, TypeOK
  <2>2. BodyHeld'
    BY <1>a, <1>11, <2>a, <2>b DEF RequestLine, TakesLine, StatusOfLine, BodyHeld
  <2>3. BodyFits'
    BY <1>a, <1>11, <2>a, <2>b DEF RequestLine, TakesLine, StatusOfLine, BodyFits
  <2>4. OkHasUri'
    BY <1>a, <1>11, <2>a, <2>b
       DEF RequestLine, TakesLine, StatusOfLine, OkHasUri, NULL, TypeOK, Uris, FileUri, CgiUri,
           RelativeUri
  <2>5. SinceEntry'
    BY <1>a, <1>11, <2>a, <2>b DEF RequestLine, TakesLine, StatusOfLine, SinceEntry, TypeOK
  <2> QED BY <2>1, <2>2, <2>3, <2>4, <2>5 DEF ParserInv
<1>12. ASSUME NEW to \in LineEnds, NEW text \in Texts, WritesLiteral(to, text) PROVE ParserInv'
  <2>a. to \in Nat
    BY <1>a, FoundLineTypes
  <2>1. TypeOK'
    BY <1>a, <1>12, <2>a DEF WritesLiteral, TakesLine, TypeOK
  <2>2. BodyHeld'
    BY <1>a, <1>12, <2>a DEF WritesLiteral, TakesLine, BodyHeld
  <2>3. BodyFits'
    BY <1>a, <1>12, <2>a DEF WritesLiteral, TakesLine, BodyFits
  <2>4. OkHasUri'
    BY <1>a, <1>12, <2>a DEF WritesLiteral, TakesLine, OkHasUri
  <2>5. SinceEntry'
    BY <1>a, <1>12, <2>a DEF WritesLiteral, TakesLine, SinceEntry, TypeOK
  <2> QED BY <2>1, <2>2, <2>3, <2>4, <2>5 DEF ParserInv
<1>13. ASSUME NEW to \in LineEnds, NEW text \in Texts, HeaderLine(to, text) PROVE ParserInv'
  <2>a. to \in Nat /\ text \in Symbols
    BY <1>a, FoundLineTypes
  <2>b. Cons(text, header_list) \in Seq(Symbols)
    <3>1. <<text>> \in Seq(Symbols) /\ header_list \in Seq(Symbols)
      BY <1>a, <2>a DEF TypeOK
    <3> QED BY <3>1, ConcatProperties DEF Cons
  <2>1. TypeOK'
    BY <1>a, <1>13, <2>a, <2>b DEF HeaderLine, TakesLine, TypeOK, Statuses
  <2>2. BodyHeld'
    BY <1>a, <1>13, <2>a, <2>b DEF HeaderLine, TakesLine, BodyHeld
  <2>3. BodyFits'
    BY <1>a, <1>13, <2>a, <2>b DEF HeaderLine, TakesLine, BodyFits
  <2>4. OkHasUri'
    BY <1>a, <1>13, <2>a, <2>b DEF HeaderLine, TakesLine, OkHasUri
  <2>5. SinceEntry'
    BY <1>a, <1>13, <2>a, <2>b DEF HeaderLine, TakesLine, SinceEntry, TypeOK
  <2> QED BY <2>1, <2>2, <2>3, <2>4, <2>5 DEF ParserInv
<1>14. ASSUME NEW v \in Ints, PartOfBody(v) PROVE ParserInv'
  <2>a. Unread(line_ptr) \in Nat /\ line_ptr \in Nat
    BY <1>a, UnreadTypes DEF TypeOK
  <2>b. TakenLength(v) /\ TakesBody(v, Unread(line_ptr))
    BY <1>14 DEF PartOfBody
  <2>c. /\ content_length' = v /\ has_body' = Allocates(v)
        /\ body' \in Seq(Symbols) /\ Len(body) \in Nat
        /\ Len(body') = Len(body) + Unread(line_ptr)
        /\ line_ptr' = line_ptr + Unread(line_ptr) /\ line_ptr' \in Nat
        /\ ~has_body' => body' = <<>>
        /\ has_body' => Allocates(content_length')
    BY <1>a, <2>a, <2>b, BodyStep
  <2>1. TypeOK'
    <3>1. Allocates(v) \in BOOLEAN
      BY DEF Allocates
    <3> QED BY <1>a, <1>14, <2>a, <2>c, <3>1 DEF PartOfBody, TakesBody, TypeOK
  <2>2. BodyHeld'
    <3>1. /\ linetype' = CONTENT /\ linetype = CONTENT /\ header_list' = header_list
      BY <1>14 DEF PartOfBody, TakesBody, TakenLength, InBody
    <3>2. has_body => has_body'
      BY <1>a, <2>b, <2>c DEF TakenLength, BodyHeld
    <3>3. HasHeader(header_list, "Content-Length")' = HasHeader(header_list, "Content-Length")
      BY <3>1 DEF HasHeader, Found
    <3>4. ~has_body' => HasHeader(header_list, "Content-Length")'
      BY <1>a, <3>1, <3>2, <3>3 DEF BodyHeld
    <3> QED BY <2>c, <3>1, <3>4 DEF BodyHeld
  <2>3. BodyFits'
    <3> SUFFICES ASSUME v >= 0 PROVE Len(body') <= v /\ linetype' # COMPLETE
      BY <2>c DEF BodyFits
    <3>1. Len(body) <= v
      BY <1>a, <2>b, LengthHolds
    <3>2. Missing(v) = v - Len(body)
      BY <1>a, <3>1, MissingTypes
    <3>3. v \in Int
      BY Constants
    <3>4. Unread(line_ptr) < Missing(v) /\ linetype' = linetype /\ linetype = CONTENT
      BY <1>14 DEF PartOfBody, TakenLength, InBody
    <3> QED BY <2>a, <2>c, <3>2, <3>3, <3>4
  <2>4. OkHasUri'
    BY <1>a, <1>14 DEF PartOfBody, TakesBody, OkHasUri
  <2>5. SinceEntry'
    <3>1. rdbufsize \in Int
      BY <1>a, Constants DEF TypeOK, Sizes
    <3> DEFINE x == rdbufsize - line_ptr
    <3>2. rdbufsize - line_ptr' = x - (x % SizeT)
      BY <2>a, <2>c, <3>1 DEF Unread
    <3>3. (x - (x % SizeT)) % SizeT = 0
      <4>1. x \in Int
        BY <2>a, <3>1
      <4>2. SizeT \in Nat \ {0}
        BY Constants
      <4> HIDE DEF x
      <4> QED BY <4>1, <4>2, ModRest
    <3>4. Unread(line_ptr)' = 0
      BY <1>14, <3>2, <3>3 DEF PartOfBody, TakesBody, Unread
    <3> QED BY <1>a, <1>14, <3>4 DEF PartOfBody, TakesBody, TakenLength, InBody, SinceEntry
  <2> QED BY <2>1, <2>2, <2>3, <2>4, <2>5 DEF ParserInv
<1>15. ASSUME NEW v \in Ints, RestOfBody(v) PROVE ParserInv'
  <2>a. Len(body) \in Nat /\ Missing(v) \in Nat /\ line_ptr \in Nat
    BY <1>a, MissingTypes DEF TypeOK
  <2>b. TakenLength(v) /\ TakesBody(v, Missing(v))
    BY <1>15 DEF RestOfBody
  <2>c. /\ content_length' = v /\ has_body' = Allocates(v)
        /\ body' \in Seq(Symbols)
        /\ Len(body') = Len(body) + Missing(v)
        /\ line_ptr' = line_ptr + Missing(v) /\ line_ptr' \in Nat
        /\ ~has_body' => body' = <<>>
        /\ has_body' => Allocates(content_length')
    BY <1>a, <2>a, <2>b, BodyStep
  <2>1. TypeOK'
    <3>1. Allocates(v) \in BOOLEAN
      BY DEF Allocates
    <3> QED BY <1>a, <1>15, <2>a, <2>c, <3>1 DEF RestOfBody, TakesBody, TypeOK
  <2>2. BodyHeld'
    BY <1>a, <1>15, <2>a, <2>c
       DEF RestOfBody, TakesBody, TakenLength, InBody, BodyHeld, Allocates
  <2>3. BodyFits'
    <3> SUFFICES ASSUME v >= 0 PROVE Len(body') = v
      BY <2>c, Constants DEF BodyFits
    <3>1. Len(body) <= v
      BY <1>a, <2>b, LengthHolds
    <3>2. Missing(v) = v - Len(body)
      BY <1>a, <3>1, MissingTypes
    <3> QED BY <2>a, <2>c, <3>2, Constants
  <2>4. OkHasUri'
    BY <1>a, <1>15 DEF RestOfBody, TakesBody, TakenLength, InBody, OkHasUri
  <2>5. SinceEntry'
    BY <1>a, <1>15, <2>a, <2>c DEF RestOfBody, TakesBody, TakenLength, InBody, SinceEntry, TypeOK
  <2> QED BY <2>1, <2>2, <2>3, <2>4, <2>5 DEF ParserInv
<1>16. CASE CopiesTooFar \/ OverrunsBody
  <2>a. /\ pc' = "dead"
        /\ UNCHANGED <<clientVars, connVars, reqVars, line_ptr, rdbufsize, histVars>>
    BY <1>16 DEF CopiesTooFar, OverrunsBody
  <2>1. TypeOK'
    BY <1>a, <2>a DEF TypeOK
  <2>2. BodyHeld'
    BY <1>a, <2>a DEF BodyHeld
  <2>3. BodyFits'
    BY <1>a, <2>a DEF BodyFits
  <2>4. OkHasUri'
    BY <1>a, <2>a DEF OkHasUri
  <2>5. SinceEntry'
    BY <1>a, <2>a DEF SinceEntry, TypeOK
  <2> QED BY <2>1, <2>2, <2>3, <2>4, <2>5 DEF ParserInv
<1>17. CASE LoopEnds
  <2>1. TypeOK'
    BY <1>a, <1>17 DEF LoopEnds, TypeOK
  <2>2. BodyHeld'
    BY <1>a, <1>17 DEF LoopEnds, BodyHeld
  <2>3. BodyFits'
    BY <1>a, <1>17 DEF LoopEnds, BodyFits
  <2>4. OkHasUri'
    BY <1>a, <1>17 DEF LoopEnds, OkHasUri
  <2>5. SinceEntry'
    BY <1>a, <1>17 DEF LoopEnds, SinceEntry, TypeOK
  <2> QED BY <2>1, <2>2, <2>3, <2>4, <2>5 DEF ParserInv
<1>18. CASE FinishesParse
  <2>a. Unread(line_ptr) \in Nat /\ line_ptr \in Nat
    BY <1>a, UnreadTypes DEF TypeOK
  <2>b. read_size' \in Sizes
    BY <1>a, <1>18, <2>a, UnreadTypes DEF FinishesParse
  <2>c. buf' \in [0..BUF_SIZE-1 -> Symbols]
    BY <1>a, <1>18, <2>a, MovedTypes DEF FinishesParse, TypeOK
  <2>1. TypeOK'
    BY <1>a, <1>18, <2>a, <2>b, <2>c DEF FinishesParse, TypeOK
  <2>2. BodyHeld'
    BY <1>a, <1>18, <2>a, <2>b, <2>c DEF FinishesParse, BodyHeld
  <2>3. BodyFits'
    BY <1>a, <1>18, <2>a, <2>b, <2>c DEF FinishesParse, BodyFits
  <2>4. OkHasUri'
    BY <1>a, <1>18, <2>a, <2>b, <2>c DEF FinishesParse, OkHasUri
  <2>5. SinceEntry'
    BY <1>a, <1>18, <2>a, <2>b, <2>c DEF FinishesParse, SinceEntry, TypeOK
  <2> QED BY <2>1, <2>2, <2>3, <2>4, <2>5 DEF ParserInv
<1>19. CASE StaysParsing
  <2>1. TypeOK'
    BY <1>a, <1>19 DEF StaysParsing, TypeOK
  <2>2. BodyHeld'
    BY <1>a, <1>19 DEF StaysParsing, BodyHeld
  <2>3. BodyFits'
    BY <1>a, <1>19 DEF StaysParsing, BodyFits
  <2>4. OkHasUri'
    BY <1>a, <1>19 DEF StaysParsing, OkHasUri
  <2>5. SinceEntry'
    BY <1>a, <1>19 DEF StaysParsing, SinceEntry, TypeOK
  <2> QED BY <2>1, <2>2, <2>3, <2>4, <2>5 DEF ParserInv
<1>20. CASE AwaitsCGI
  <2>1. TypeOK'
    BY <1>a, <1>20 DEF AwaitsCGI, TypeOK
  <2>2. BodyHeld'
    BY <1>a, <1>20 DEF AwaitsCGI, BodyHeld
  <2>3. BodyFits'
    BY <1>a, <1>20 DEF AwaitsCGI, BodyFits
  <2>4. OkHasUri'
    BY <1>a, <1>20 DEF AwaitsCGI, OkHasUri
  <2>5. SinceEntry'
    BY <1>a, <1>20 DEF AwaitsCGI, SinceEntry, TypeOK
  <2> QED BY <2>1, <2>2, <2>3, <2>4, <2>5 DEF ParserInv
<1>21. CASE AnswersAndCloses
  <2>1. TypeOK'
    BY <1>a, <1>21, AnsweredTypes DEF AnswersAndCloses, TypeOK, Methods, NULL
  <2>2. BodyHeld'
    BY <1>a, <1>21 DEF AnswersAndCloses, BodyHeld
  <2>3. BodyFits'
    BY <1>a, <1>21 DEF AnswersAndCloses, BodyFits
  <2>4. OkHasUri'
    BY <1>a, <1>21 DEF AnswersAndCloses, OkHasUri
  <2>5. SinceEntry'
    BY <1>a, <1>21 DEF AnswersAndCloses, SinceEntry, TypeOK
  <2> QED BY <2>1, <2>2, <2>3, <2>4, <2>5 DEF ParserInv
<1>22. CASE AnswersAndKeeps
  <2>a. /\ linetype' = REQ_LINE /\ stucode' = "OK" /\ lineptr' = NULL
        /\ mtdcode' \in Methods /\ uri' = NULL /\ is_CGI' = FALSE
        /\ header_list' = <<>> /\ header_list' \in Seq(Symbols) /\ content_length' = 0
        /\ has_body' = FALSE /\ body' = <<>> /\ body' \in Seq(Symbols) /\ Len(body') = 0
    BY <1>22, FreshTypes DEF AnswersAndKeeps
  <2>1. TypeOK'
    <3>1. linetype' \in REQ_LINE..ERROR /\ uri' \in Ints /\ content_length' \in Ints
      BY <2>a, Constants
    <3> QED BY <1>a, <1>22, <2>a, <3>1, AnsweredTypes DEF AnswersAndKeeps, TypeOK, Statuses
  <2>2. BodyHeld'
    BY <1>a, <1>22, <2>a DEF AnswersAndKeeps, BodyHeld
  <2>3. BodyFits'
    BY <1>a, <1>22, <2>a, 0 \in Nat DEF AnswersAndKeeps, BodyFits
  <2>4. OkHasUri'
    BY <1>a, <1>22, <2>a DEF AnswersAndKeeps, OkHasUri
  <2>5. SinceEntry'
    BY <1>a, <1>22, <2>a DEF AnswersAndKeeps, SinceEntry, TypeOK
  <2> QED BY <2>1, <2>2, <2>3, <2>4, <2>5 DEF ParserInv
<1>23. CASE UNCHANGED vars
  <2>1. TypeOK'
    BY <1>a, <1>23 DEF vars, Unread, TypeOK
  <2>2. BodyHeld'
    BY <1>a, <1>23 DEF vars, Unread, BodyHeld
  <2>3. BodyFits'
    BY <1>a, <1>23 DEF vars, Unread, BodyFits
  <2>4. OkHasUri'
    BY <1>a, <1>23 DEF vars, Unread, OkHasUri
  <2>5. SinceEntry'
    BY <1>a, <1>23 DEF vars, Unread, SinceEntry, TypeOK
  <2> QED BY <2>1, <2>2, <2>3, <2>4, <2>5 DEF ParserInv
<1> QED
  BY <1>1, <1>2, <1>3, <1>4, <1>5, <1>6, <1>7, <1>8, <1>9, <1>10, <1>11, <1>12, <1>13,
     <1>14, <1>15, <1>16, <1>17, <1>18, <1>19, <1>20, <1>21, <1>22, <1>23
     DEF Next, Input, ParseRequest, Process, Terminating

\* The invariant holds in every reachable state.
THEOREM ParserInvariant == Spec => []ParserInv
BY ParserInit, ParserNext, PTL DEF Spec

\* Every variable keeps its type, and sizes stay those of a size_t.
THEOREM TypeCorrect == Spec => []TypeOK
<1>1. ParserInv => TypeOK
  BY DEF ParserInv
<1> QED BY <1>1, ParserInvariant, PTL

\* No body is longer than a Content-Length that is not negative, and that of a
\* complete request is as long.
THEOREM BodyAlwaysFits == Spec => []BodyFits
<1>1. ParserInv => BodyFits
  BY DEF ParserInv
<1> QED BY <1>1, ParserInvariant, PTL

\* A request that is OK behind its first line has a uri.
THEOREM OkAlwaysHasUri == Spec => []OkHasUri
<1>1. ParserInv => OkHasUri
  BY DEF ParserInv
<1> QED BY <1>1, ParserInvariant, PTL

-----------------------------------------------------------------------------
(* What run_liso sees of a call *)

\* A read from an empty buffer leaves something there.
LEMMA ReadSees ==
  ASSUME TypeOK, NEW n \in 1..Len(Stream), Receives(n)
  PROVE  AbstractSize(read_size') \in ReadOutcome(AbstractSize(read_size))
<1>1. n \in Nat /\ n > 0
  <2>1. Stream \in Seq(Symbols)
    BY StreamTypes DEF TypeOK
  <2> QED BY <2>1, LenProperties
<1>2. CASE read_size # 0
  BY <1>2 DEF AbstractSize, ReadOutcome
<1>3. CASE read_size = 0
  <2>1. n <= BUF_SIZE % SizeT
    BY <1>3, Constants DEF Receives, Arrives
  <2>2. BUF_SIZE \in 0..SizeT-1
    BY Constants
  <2>3. BUF_SIZE % SizeT = BUF_SIZE
    BY <2>2, Constants, ModSmall
  <2>4. n \in 0..SizeT-1
    BY <1>1, <2>1, <2>3, Constants
  <2>5. read_size' = n % SizeT
    BY <1>1, <1>3 DEF Receives, SizeAfter
  <2>6. read_size' = n
    BY <2>4, <2>5, Constants, ModSmall
  <2> QED BY <1>1, <1>3, <2>6 DEF AbstractSize, ReadOutcome
<1> QED BY <1>2, <1>3

\* Every step is one that run_liso reckons with.
LEMMA StepSees == ParserInv /\ [Next]_vars => [ServerSees]_vars
<1> SUFFICES ASSUME ParserInv, [Next]_vars, ~(UNCHANGED vars) PROVE ServerSees
  OBVIOUS
<1> USE DEF clientVars, connVars, reqVars, localVars, histVars,
        REQ_LINE, HEADER, CONTENT, COMPLETE, ERROR
<1>a. TypeOK /\ SinceEntry
  BY DEF ParserInv
<1>b. linetype \in 1..5 /\ (pc \in {"line", "finish"} => entry[1] \in 1..5)
  BY <1>a DEF TypeOK, SinceEntry
<1> DEFINE Outcome == <<AbstractType(linetype'), AbstractSize(read_size')>> \in
                        ParseOutcome(AbstractType(entry[1]), AbstractSize(entry[2]))
<1>1. ASSUME NEW n \in 1..Len(Stream), Receives(n) PROVE ServerSees
  BY <1>a, <1>1, ReadSees DEF Receives, Arrives, CallsParser, ReadFailed, ServerSees
<1>2. ASSUME NEW n \in 1..Len(Stream), ReceivesTooMuch(n) PROVE ServerSees
  BY <1>a, <1>2 DEF ReceivesTooMuch, Arrives, CallsParser, ReadFailed, ServerSees
<1>3. CASE EndOfFile
  BY <1>3 DEF EndOfFile, CallsParser, ReadFailed, ServerSees
<1>4. CASE DamagesHeap
  <2>1. AbstractSize(read_size) # 0
    BY <1>4, Constants DEF DamagesHeap, AbstractSize
  <2> QED BY <1>4, <2>1 DEF DamagesHeap, ServerSees
<1>5. CASE OtherPass
  BY <1>5 DEF OtherPass, CallsParser, ReadFailed, ServerSees
<1>6. CASE Leaves
  BY <1>6 DEF Leaves, ServerSees
<1>7. CASE CGIEnds
  BY <1>7 DEF CGIEnds, ServerSees
<1>8. CASE NoLine
  <2>1. Outcome
    BY <1>a, <1>b, <1>8 DEF NoLine, SinceEntry, AbstractType, AbstractSize, ParseOutcome
  <2> QED BY <1>8, <2>1 DEF NoLine, ServerSees
<1>9. CASE RunsOff
  <2>1. AbstractType(entry[1]) # "ERROR"
    BY <1>a, <1>b, <1>9 DEF RunsOff, SinceEntry, AbstractType
  <2> QED BY <1>9, <2>1 DEF RunsOff, ServerSees
<1>10. ASSUME NEW to \in LineEnds, EmptyLine(to) PROVE ServerSees
  <2>1. pc' = "process" => Outcome
    BY <1>a, <1>b, <1>10 DEF EmptyLine, TakesLine, SinceEntry, AbstractType, AbstractSize, ParseOutcome
  <2> QED BY <1>10, <2>1 DEF EmptyLine, TakesLine, ServerSees
<1>11. ASSUME NEW to \in LineEnds, NEW text \in Texts, RequestLine(to, text) PROVE ServerSees
  BY <1>11 DEF RequestLine, TakesLine, ServerSees
<1>12. ASSUME NEW to \in LineEnds, NEW text \in Texts, WritesLiteral(to, text) PROVE ServerSees
  <2>1. AbstractType(entry[1]) # "ERROR"
    BY <1>a, <1>b, <1>12 DEF WritesLiteral, TakesLine, SinceEntry, AbstractType
  <2> QED BY <1>12, <2>1 DEF WritesLiteral, TakesLine, ServerSees
<1>13. ASSUME NEW to \in LineEnds, NEW text \in Texts, HeaderLine(to, text) PROVE ServerSees
  BY <1>13 DEF HeaderLine, TakesLine, ServerSees
<1>14. ASSUME NEW v \in Ints, PartOfBody(v) PROVE ServerSees
  BY <1>14 DEF PartOfBody, TakesBody, TakenLength, InBody, ServerSees
<1>15. ASSUME NEW v \in Ints, RestOfBody(v) PROVE ServerSees
  BY <1>15 DEF RestOfBody, TakesBody, TakenLength, InBody, ServerSees
<1>16. CASE CopiesTooFar \/ OverrunsBody
  <2>1. pc \in {"line", "finish"} /\ linetype # ERROR
    <3>1. InBody \/ pc = "finish"
      BY <1>16, Zenon DEF CopiesTooFar, OverrunsBody, TakenLength
    <3>2. CASE InBody
      BY <3>2 DEF InBody
    <3>3. CASE pc = "finish"
      <4>1. linetype \in {COMPLETE, CONTENT}
        BY <1>a, <3>3 DEF SinceEntry
      <4> QED BY <3>3, <4>1
    <3> QED BY <3>1, <3>2, <3>3
  <2>2. AbstractType(entry[1]) # "ERROR"
    BY <1>a, <1>b, <2>1 DEF SinceEntry, AbstractType
  <2> QED BY <1>16, <2>2 DEF CopiesTooFar, OverrunsBody, TakenLength, InBody, ServerSees
<1>17. CASE LoopEnds
  <2>1. pc' = "process" => Outcome
    BY <1>a, <1>b, <1>17 DEF LoopEnds, SinceEntry, AbstractType, AbstractSize, ParseOutcome
  <2> QED BY <1>17, <2>1 DEF LoopEnds, ServerSees
<1>18. CASE FinishesParse
  <2>1. Outcome
    BY <1>a, <1>b, <1>18 DEF FinishesParse, SinceEntry, AbstractType, AbstractSize, ParseOutcome
  <2> QED BY <1>18, <2>1 DEF FinishesParse, ServerSees
<1>19. CASE StaysParsing
  BY <1>19 DEF StaysParsing, Done, ServerSees
<1>20. CASE AwaitsCGI
  BY <1>20 DEF AwaitsCGI, Done, ServerSees
<1>21. CASE AnswersAndCloses
  BY <1>21 DEF AnswersAndCloses, Done, ServerSees
<1>22. CASE AnswersAndKeeps
  BY <1>22 DEF AnswersAndKeeps, Done, ServerSees
<1> QED
  BY <1>1, <1>2, <1>3, <1>4, <1>5, <1>6, <1>7, <1>8, <1>9, <1>10, <1>11, <1>12, <1>13,
     <1>14, <1>15, <1>16, <1>17, <1>18, <1>19, <1>20, <1>21, <1>22
     DEF Next, Input, ParseRequest, Process, Terminating

\* A call of parse_request and a read leave in linetype and read_size what
\* LisoServer supposes.
THEOREM ParserAsServerSees == Spec => AsServerSees
<1>1. ParserInv /\ [Next]_vars => [ServerSees]_vars
  BY StepSees
<1> QED BY <1>1, ParserInvariant, PTL DEF Spec, AsServerSees

-----------------------------------------------------------------------------
(* A client that is served whole *)

\* The request in hand, and where it lies in the stream.
InHand == script[Len(answers) + 1]
From == Start(Len(answers))
To == Start(Len(answers) + 1)

\* The first j headers of q, as header_list keeps them.
Kept(q, j) == [i \in 1..j |-> q.headers[j + 1 - i]]

\* The server knows what the first line of q asks for.
LineKnown(q) == q.line.type = "line" /\ q.line.name \in Methods

\* read_buffer starts with what came from a place of the stream on.
InPlace(from) == \A i \in 0..got - from - 1 : buf[i] = Stream[from + i + 1]

\* read_buffer has what was received from the request in hand on.
Buffered ==
  /\ read_size = got - From /\ read_size < BUF_SIZE
  /\ InPlace(From)

\* Nothing of the request in hand has been taken.
Untouched ==
  linetype = REQ_LINE /\ stucode = "OK" /\ lineptr = NULL /\ header_list = <<>>
    /\ ~has_body /\ body = <<>>

\* The request in hand is there, and its first line has been taken.
LineTaken ==
  /\ To <= got /\ ~has_body /\ body = <<>>
  /\ IF LineKnown(InHand) THEN stucode = "OK" /\ mtdcode = InHand.line.name
     ELSE stucode # "OK"

\* And its first j headers.
HeadersTaken(j) ==
  /\ header_list = Kept(InHand, j)
  /\ \A i \in 1..j : InHand.headers[i].type = "header"

\* How a request is answered in fact: one that passes as well-formed as if it
\* were.
FitsAs(a, q) == IF PassesAsWellFormed(q) THEN a = Served(q) ELSE a.status # "OK"

\* What the loop of parse_request has taken from the request in hand.
AtFirstLine == linetype = REQ_LINE /\ Untouched /\ line_ptr = 0

AtHeader(j) ==
  /\ linetype = HEADER /\ LineTaken
  /\ j <= Len(InHand.headers) /\ HeadersTaken(j)
  /\ line_ptr = 2 * j + 2

AtBody ==
  /\ linetype = CONTENT /\ LineTaken /\ mtdcode = "POST"
  /\ HeadersTaken(Len(InHand.headers))
  /\ LineKnown(InHand) => PassesAsWellFormed(InHand)
  /\ line_ptr = 2 * Len(InHand.headers) + 3

\* The request in hand has been taken to its end and judged.
Judged ==
  /\ linetype = COMPLETE
  /\ To <= got /\ FitsAs(Answered, InHand)
  /\ line_ptr <= rdbufsize
  /\ stucode = "OK" => line_ptr = To - From

Refused == linetype = ERROR /\ stucode # "OK" /\ ~PassesAsWellFormed(InHand)

\* The request in hand will be answered as it should be.
Settled ==
  /\ Len(answers) < Len(script) /\ linetype \in {COMPLETE, ERROR}
  /\ FitsAs(Answered, InHand)

\* Between two calls, during one, at its end and behind it.
AtSelect ==
  /\ Buffered /\ Untouched
  /\ state = "PARSING" => From < got

InCall ==
  /\ Len(answers) < Len(script) /\ From < got
  /\ Buffered /\ rdbufsize = read_size
  /\ lineptr = NULL /\ entry[1] # CONTENT

AtLine ==
  /\ InCall
  /\ AtFirstLine \/ (\E j \in Nat : AtHeader(j)) \/ AtBody \/ Judged \/ Refused

AtFinish == InCall /\ Judged

AtProcess ==
  \/ AtSelect /\ From < got
  \/ /\ Settled
     /\ stucode = "OK" =>
          /\ linetype = COMPLETE
          /\ read_size = got - To /\ read_size < BUF_SIZE
          /\ InPlace(To)

\* What has come ends with a request or inside a request line, with no more
\* behind a request that is not answered than that request is long.
Delivered ==
  /\ got <= Len(Stream)
  /\ \E i \in 0..Len(script) : got \in {Start(i), Start(i) + 1}
  /\ \A j \in Len(answers)+1..Len(script) : got - Start(j) <= Start(j) - Start(j - 1)

AllFramed == \A i \in DOMAIN script : Framed(script[i])

AnswersRight ==
  /\ Len(answers) <= Len(script)
  /\ \A i \in DOMAIN answers : FitsAs(answers[i], script[i])

\* The pointers are inside the buffer, and the process has died of a uri only.
Inside ==
  /\ line_ptr <= BUF_SIZE /\ (lineptr # NULL => lineptr <= BUF_SIZE)
  /\ pc = "dead" => \E i \in DOMAIN script : script[i].line.value = RelativeUri

\* A request whose CGI child runs is complete.
ChildHeld == is_pipe /\ pc \notin {"closed", "dead"} => Settled

\* One that has none is where pc says.
ParsingHeld ==
  ~is_pipe =>
    /\ Delivered /\ state # "PARSED"
    /\ pc = "select" => AtSelect
    /\ pc = "line" => AtLine
    /\ pc = "finish" => AtFinish
    /\ pc = "process" => AtProcess

WholeInv == AllFramed /\ AnswersRight /\ Inside /\ ChildHeld /\ ParsingHeld

ServedWhole == delivery = "whole" => WholeInv

-----------------------------------------------------------------------------
(* Where the requests lie, in the stream and in the buffer *)

\* Where the requests of a script begin and end.
LEMMA Starts ==
  ASSUME script \in Scripts
  PROVE  /\ script \in Seq(Requests) /\ Len(script) \in Nat
         /\ Start(0) = 0 /\ Start(Len(script)) = Len(Stream)
         /\ \A i \in 0..Len(script) : Start(i) \in Nat
         /\ \A i \in 0..Len(script) : \A j \in i..Len(script) : Start(i) <= Start(j)
<1>1. script \in Seq(Requests)
  BY ParserAssumption
<1>2. Len(script) \in Nat /\ Sent(script)[0] = <<>>
  BY <1>1, SentAt
<1>3. Start(0) = 0
  BY <1>2, EmptySeq DEF Start
<1>4. \A i \in 0..Len(script) : Start(i) \in Nat
  BY <1>1, SentTypes, LenProperties DEF Start
<1>5. \A i \in 0..Len(script) : \A j \in i..Len(script) : Start(i) <= Start(j)
  BY <1>1, SentGrows DEF Start
<1> QED BY <1>1, <1>2, <1>3, <1>4, <1>5 DEF Start, Stream

\* Request k + 1 in the stream.
LEMMA RequestAt ==
  ASSUME script \in Scripts, NEW k \in Nat, k < Len(script)
  PROVE  /\ script[k + 1] \in Requests /\ k + 1 \in DOMAIN script
         /\ Start(k) \in Nat /\ Start(k + 1) \in Nat
         /\ Start(k + 1) <= Len(Stream)
         /\ Start(k + 1) = Start(k) + Len(Bytes(script[k + 1]))
         /\ \A p \in 1..Len(Bytes(script[k + 1])) :
              Stream[Start(k) + p] = Bytes(script[k + 1])[p]
<1>1. /\ script \in Seq(Requests) /\ Len(script) \in Nat
      /\ k \in 0..Len(script) /\ k + 1 \in 1..Len(script) /\ k + 1 - 1 = k
      /\ k + 1 \in 0..Len(script)
  BY Starts
<1>2. script[k + 1] \in Requests /\ k + 1 \in DOMAIN script
  BY <1>1, ElementOfSeq, LenProperties
<1>3. Start(k) \in Nat /\ Start(k + 1) \in Nat /\ Start(k + 1) <= Len(Stream)
  <2>1. Len(script) \in k + 1..Len(script)
    BY <1>1
  <2> QED BY <1>1, <2>1, Starts
<1>4. /\ Len(Sent(script)[k + 1]) = Len(Sent(script)[k]) + Len(Bytes(script[k + 1]))
      /\ \A p \in 1..Len(Bytes(script[k + 1])) :
           Sent(script)[k + 1][Len(Sent(script)[k]) + p] = Bytes(script[k + 1])[p]
  <2>1. PICK i \in 1..Len(script) : i = k + 1
    BY <1>1
  <2>2. /\ Len(Sent(script)[i]) = Len(Sent(script)[i - 1]) + Len(Bytes(script[i]))
        /\ \A p \in 1..Len(Bytes(script[i])) :
             Sent(script)[i][Len(Sent(script)[i - 1]) + p] = Bytes(script[i])[p]
    BY <1>1, SentNext
  <2>3. i - 1 = k
    BY <2>1
  <2> QED BY <2>1, <2>2, <2>3
<1>5. Start(k + 1) = Start(k) + Len(Bytes(script[k + 1]))
  BY <1>4 DEF Start
<1>6. ASSUME NEW p \in 1..Len(Bytes(script[k + 1]))
      PROVE  Stream[Start(k) + p] = Bytes(script[k + 1])[p]
  <2>1. Sent(script)[k + 1][Start(k) + p] = Bytes(script[k + 1])[p]
    BY <1>4 DEF Start
  <2>2. Len(Bytes(script[k + 1])) \in Nat
    <3>1. Bytes(script[k + 1]) \in Seq(Symbols)
      BY <1>2, SizeTypes, BytesAt
    <3> QED BY <3>1, LenProperties
  <2>3. Start(k) + p \in 1..Start(k + 1)
    BY <1>3, <1>5, <2>2
  <2>4. \A r \in 1..Len(Sent(script)[k + 1]) : Stream[r] = Sent(script)[k + 1][r]
    <3>1. Len(script) \in k + 1..Len(script)
      BY <1>1
    <3> QED BY <1>1, <3>1, SentGrows DEF Stream
  <2> QED BY <2>1, <2>3, <2>4 DEF Start
<1> QED BY <1>2, <1>3, <1>5, <1>6

\* Request k + 1 in the stream, symbol by symbol.
LEMMA RequestSymbols ==
  ASSUME script \in Scripts, NEW k \in Nat, k < Len(script),
         NEW n \in Nat, NEW m \in Nat, Sized(script[k + 1], n, m)
  PROVE  /\ Start(k + 1) = Start(k) + SizeOf(n, m)
         /\ Stream[Start(k) + 1] = script[k + 1].line
         /\ Stream[Start(k) + 2] = EOL
         /\ \A j \in 1..n :
              /\ Stream[Start(k) + (2 * j + 1)] = script[k + 1].headers[j]
              /\ Stream[Start(k) + (2 * j + 2)] = EOL
         /\ Stream[Start(k) + (2 * n + 3)] = EOL
         /\ \A i \in 1..m : Stream[Start(k) + (2 * n + 3 + i)] = script[k + 1].body[i]
<1> DEFINE q == script[k + 1]
<1>1. /\ q \in Requests /\ Start(k + 1) = Start(k) + Len(Bytes(q))
      /\ \A p \in 1..Len(Bytes(q)) : Stream[Start(k) + p] = Bytes(q)[p]
  BY RequestAt
<1>2. Sized(q, n, m)
  OBVIOUS
<1> HIDE DEF q
<1>3. /\ Len(Bytes(q)) = SizeOf(n, m)
      /\ Bytes(q)[1] = q.line /\ Bytes(q)[2] = EOL
      /\ \A j \in 1..n : Bytes(q)[2 * j + 1] = q.headers[j] /\ Bytes(q)[2 * j + 2] = EOL
      /\ Bytes(q)[2 * n + 3] = EOL
      /\ \A i \in 1..m : Bytes(q)[2 * n + 3 + i] = q.body[i]
  BY <1>1, <1>2, BytesAt
<1>4. \A p \in 1..SizeOf(n, m) : Stream[Start(k) + p] = Bytes(q)[p]
  BY <1>1, <1>3
<1>5. /\ 1 \in 1..SizeOf(n, m) /\ 2 \in 1..SizeOf(n, m) /\ 2 * n + 3 \in 1..SizeOf(n, m)
      /\ \A j \in 1..n : 2 * j + 1 \in 1..SizeOf(n, m) /\ 2 * j + 2 \in 1..SizeOf(n, m)
      /\ \A i \in 1..m : 2 * n + 3 + i \in 1..SizeOf(n, m)
  BY DEF SizeOf
<1>6. Stream[Start(k) + 1] = q.line /\ Stream[Start(k) + 2] = EOL
  BY <1>3, <1>4, <1>5
<1>7. ASSUME NEW j \in 1..n
      PROVE  /\ Stream[Start(k) + (2 * j + 1)] = q.headers[j]
             /\ Stream[Start(k) + (2 * j + 2)] = EOL
  <2>1. PICK a \in 1..SizeOf(n, m), b \in 1..SizeOf(n, m) : a = 2 * j + 1 /\ b = 2 * j + 2
    BY <1>5
  <2> QED BY <1>3, <1>4, <2>1
<1>8. Stream[Start(k) + (2 * n + 3)] = EOL
  BY <1>3, <1>4, <1>5
<1>9. ASSUME NEW i \in 1..m PROVE Stream[Start(k) + (2 * n + 3 + i)] = q.body[i]
  BY <1>3, <1>4, <1>5
<1> QED BY <1>1, <1>3, <1>6, <1>7, <1>8, <1>9 DEF q

\* The request in hand, with n headers and m bytes of body, lies in the buffer.
Laid(n, m) ==
  /\ Sized(InHand, n, m)
  /\ To - From = 2 * n + 3 + m /\ 2 * n + 3 + m <= rdbufsize
  /\ buf[0] = InHand.line /\ buf[0] # EOL /\ buf[1] = EOL
  /\ \A j \in 1..n :
       /\ buf[2 * j] = InHand.headers[j] /\ buf[2 * j] # EOL
       /\ buf[2 * j + 1] = EOL
  /\ buf[2 * n + 2] = EOL
  /\ \A i \in 1..m : buf[2 * n + 2 + i] = InHand.body[i]

\* From one request to the next, in numbers.
LEMMA Extent ==
  ASSUME TypeOK, Len(answers) < Len(script)
  PROVE  /\ Len(answers) \in Nat /\ Len(script) \in Nat
         /\ From \in Nat /\ To \in Nat /\ To <= Len(Stream) /\ Len(Stream) \in Nat
         /\ InHand \in Requests /\ Len(answers) + 1 \in DOMAIN script
         /\ \A n \in Nat, m \in Nat : Sized(InHand, n, m) => To = From + SizeOf(n, m)
<1>1. script \in Scripts /\ Len(answers) \in Nat
  BY LenProperties DEF TypeOK
<1>2. PICK k \in Nat : k = Len(answers)
  BY <1>1
<1>3. k < Len(script)
  BY <1>2
<1>4. /\ script[k + 1] \in Requests /\ k + 1 \in DOMAIN script
      /\ Start(k) \in Nat /\ Start(k + 1) \in Nat /\ Start(k + 1) <= Len(Stream)
  BY <1>1, <1>3, RequestAt
<1>5. \A n \in Nat, m \in Nat : Sized(script[k + 1], n, m) => Start(k + 1) = Start(k) + SizeOf(n, m)
  BY <1>1, <1>3, RequestSymbols
<1>6. Len(Stream) \in Nat /\ Len(script) \in Nat
  BY <1>1, StreamTypes, Starts, LenProperties
<1> QED BY <1>1, <1>2, <1>4, <1>5, <1>6 DEF From, To, InHand

\* A request that was received as a whole lies in the buffer.
LEMMA LaidOut ==
  ASSUME TypeOK, AllFramed, Len(answers) < Len(script), Buffered,
         rdbufsize = read_size, To <= got
  PROVE  \E n \in Nat, m \in Nat : Laid(n, m)
<1>1. script \in Scripts /\ Len(answers) \in Nat /\ got \in Nat
  BY LenProperties DEF TypeOK
<1>2. PICK k \in Nat : k = Len(answers)
  BY <1>1
<1>3. k < Len(script)
  BY <1>2
<1>4. /\ script[k + 1] \in Requests /\ k + 1 \in DOMAIN script
      /\ Start(k) \in Nat /\ Start(k + 1) \in Nat
  BY <1>1, <1>3, RequestAt
<1> DEFINE q == script[k + 1]
           b == Start(k)
<1>5. PICK n \in Nat, m \in Nat : Sized(q, n, m)
  BY <1>4, SizeTypes
<1>6. /\ Start(k + 1) = b + SizeOf(n, m)
      /\ Stream[b + 1] = q.line /\ Stream[b + 2] = EOL
      /\ \A j \in 1..n :
           Stream[b + (2 * j + 1)] = q.headers[j] /\ Stream[b + (2 * j + 2)] = EOL
      /\ Stream[b + (2 * n + 3)] = EOL
      /\ \A i \in 1..m : Stream[b + (2 * n + 3 + i)] = q.body[i]
  BY <1>1, <1>3, <1>5, RequestSymbols
<1>7. InHand = q /\ From = b /\ To = Start(k + 1)
  BY <1>2 DEF InHand, From, To
<1>8. q.line # EOL /\ \A j \in 1..n : q.headers[j] # EOL
  <2>1. Framed(q)
    BY <1>4 DEF AllFramed
  <2>2. EOL # q.line /\ EOL \notin ToSet(Reverse(q.headers))
    BY <2>1 DEF Framed
  <2>3. ASSUME NEW j \in 1..n PROVE q.headers[j] # EOL
    <3>1. q.headers \in Seq(Symbols) /\ Len(q.headers) = n
      BY <1>4, <1>5 DEF Requests, Sized
    <3>2. n - j + 1 \in 1..n /\ n - (n - j + 1) + 1 = j
      BY <1>5
    <3>3. Reverse(q.headers) = [i \in 1..n |-> q.headers[n - i + 1]]
      BY <3>1 DEF Reverse
    <3>4. q.headers[j] \in ToSet(Reverse(q.headers))
      BY <3>2, <3>3 DEF ToSet
    <3> QED BY <2>2, <3>4
  <2> QED BY <2>2, <2>3
<1>9. b \in Nat
  BY <1>4
<1> HIDE DEF q, b
<1>10. got - b \in Nat /\ SizeOf(n, m) <= got - b /\ rdbufsize = got - b
  <2>1. SizeOf(n, m) \in Nat
    BY <1>5 DEF SizeOf
  <2>2. b + SizeOf(n, m) <= got
    BY <1>6, <1>7
  <2>3. rdbufsize = got - b
    BY <1>7 DEF Buffered
  <2> QED BY <1>1, <1>9, <2>1, <2>2, <2>3
<1>11. \A p \in 1..SizeOf(n, m) : buf[p - 1] = Stream[b + p]
  <2>1. \A i \in 0..got - b - 1 : buf[i] = Stream[b + i + 1]
    BY <1>7 DEF Buffered, InPlace
  <2>2. ASSUME NEW p \in 1..SizeOf(n, m) PROVE buf[p - 1] = Stream[b + p]
    <3>1. p - 1 \in 0..got - b - 1 /\ b + (p - 1) + 1 = b + p
      BY <1>5, <1>9, <1>10 DEF SizeOf
    <3>2. buf[p - 1] = Stream[b + (p - 1) + 1]
      BY <2>1, <3>1
    <3> QED BY <3>1, <3>2
  <2> QED BY <2>2
<1>12. buf[0] = q.line /\ buf[1] = EOL
  <2>1. 1 \in 1..SizeOf(n, m) /\ 2 \in 1..SizeOf(n, m) /\ 1 - 1 = 0 /\ 2 - 1 = 1
    BY <1>5 DEF SizeOf
  <2>2. buf[1 - 1] = Stream[b + 1] /\ buf[2 - 1] = Stream[b + 2]
    BY <1>11, <2>1
  <2> QED BY <1>6, <2>1, <2>2
<1>13. ASSUME NEW j \in 1..n PROVE buf[2 * j] = q.headers[j] /\ buf[2 * j + 1] = EOL
  <2>1. /\ 2 * j + 1 \in 1..SizeOf(n, m) /\ 2 * j + 1 - 1 = 2 * j
        /\ 2 * j + 2 \in 1..SizeOf(n, m) /\ 2 * j + 2 - 1 = 2 * j + 1
    BY <1>5 DEF SizeOf
  <2>2. buf[2 * j + 1 - 1] = Stream[b + (2 * j + 1)] /\ buf[2 * j + 2 - 1] = Stream[b + (2 * j + 2)]
    BY <1>11, <2>1
  <2> QED BY <1>6, <2>1, <2>2
<1>14. buf[2 * n + 2] = EOL
  <2>1. 2 * n + 3 \in 1..SizeOf(n, m) /\ 2 * n + 3 - 1 = 2 * n + 2
    BY <1>5 DEF SizeOf
  <2>2. buf[2 * n + 3 - 1] = Stream[b + (2 * n + 3)]
    BY <1>11, <2>1
  <2> QED BY <1>6, <2>1, <2>2
<1>15. ASSUME NEW i \in 1..m PROVE buf[2 * n + 2 + i] = q.body[i]
  <2>1. 2 * n + 3 + i \in 1..SizeOf(n, m) /\ 2 * n + 3 + i - 1 = 2 * n + 2 + i
    BY <1>5 DEF SizeOf
  <2>2. buf[2 * n + 3 + i - 1] = Stream[b + (2 * n + 3 + i)]
    BY <1>11, <2>1
  <2> QED BY <1>6, <2>1, <2>2
<1>16. To - From = 2 * n + 3 + m
  <2>1. To = b + (2 * n + 3 + m) /\ From = b
    BY <1>6, <1>7 DEF SizeOf
  <2> QED BY <1>5, <1>9, <2>1
<1>17. 2 * n + 3 + m <= rdbufsize
  BY <1>10 DEF SizeOf
<1>18. Sized(InHand, n, m)
  BY <1>5, <1>7 DEF q
<1>19. Laid(n, m)
  BY <1>7, <1>8, <1>12, <1>13,
     <1>14, <1>15, <1>16, <1>17, <1>18 DEF Laid
<1> QED BY <1>5, <1>19

\* A size that has not wrapped leaves what one expects.
LEMMA UnreadInside ==
  ASSUME TypeOK, rdbufsize < BUF_SIZE, NEW from \in Nat, from <= rdbufsize
  PROVE  Unread(from) = rdbufsize - from
<1>1. rdbufsize \in Nat /\ rdbufsize < SizeT /\ SizeT \in Nat \ {0}
  BY Constants DEF TypeOK, Sizes
<1>2. rdbufsize - from \in 0..SizeT - 1
  BY <1>1
<1> QED BY <1>1, <1>2, ModSmall DEF Unread

\* find_token looks through what was read, and no further.
LEMMA ScansInside ==
  ASSUME TypeOK, rdbufsize < BUF_SIZE, line_ptr < rdbufsize
  PROVE  /\ ~RunsOn /\ Ends = {i \in line_ptr..rdbufsize-1 : buf[i] = EOL}
         /\ Texts = {buf[line_ptr]}
<1>1. rdbufsize \in Nat /\ BUF_SIZE \in Nat /\ line_ptr \in Nat
  BY Constants DEF TypeOK, Sizes
<1>2. Unread(line_ptr) = rdbufsize - line_ptr
  BY <1>1, UnreadInside
<1>3. ~RunsOn
  BY <1>1, <1>2 DEF RunsOn
<1>4. ScanEnd = rdbufsize
  BY <1>1, <1>2, <1>3 DEF ScanEnd
<1>5. Texts = {buf[line_ptr]}
  BY <1>1 DEF Texts
<1> QED BY <1>3, <1>4, <1>5 DEF Ends

\* A line ends at the first CR LF.
LEMMA FirstEnd ==
  ASSUME TypeOK, rdbufsize < BUF_SIZE, line_ptr < rdbufsize,
         NEW e \in line_ptr..rdbufsize - 1, buf[e] = EOL,
         \A i \in line_ptr..e - 1 : buf[i] # EOL
  PROVE  /\ ~RunsOn /\ Ends # {} /\ LineEnds = {e + 1} /\ Texts = {buf[line_ptr]}
<1>1. rdbufsize \in Nat /\ line_ptr \in Nat /\ e \in Nat
  BY Constants DEF TypeOK, Sizes
<1>2. /\ ~RunsOn /\ Ends = {i \in line_ptr..rdbufsize-1 : buf[i] = EOL}
      /\ Texts = {buf[line_ptr]}
  BY ScansInside
<1>3. e \in Ends /\ \A i \in Ends : e <= i
  BY <1>1, <1>2
<1>4. \A x \in Ends : (\A y \in Ends : x <= y) => x = e
  BY <1>1, <1>2, <1>3
<1>5. Min(Ends) = e
  BY <1>3, <1>4 DEF Min
<1> QED BY <1>2, <1>3, <1>5 DEF LineEnds

-----------------------------------------------------------------------------
(* The loop of parse_request, for a client that is served whole *)

\* A part of a request that has arrived is a part of its first line.
LEMMA OnlyLineCut ==
  ASSUME TypeOK, AllFramed, Delivered, Len(answers) < Len(script), From < got, got < To
  PROVE  got = From + 1
<1>1. script \in Scripts /\ Len(answers) \in Nat /\ got \in Nat
  BY LenProperties DEF TypeOK
<1>2. PICK k \in Nat : k = Len(answers)
  BY <1>1
<1>3. k < Len(script) /\ From = Start(k) /\ To = Start(k + 1) /\ Len(script) \in Nat
  BY <1>1, <1>2, Starts DEF From, To
<1>4. PICK i \in 0..Len(script) : got = Start(i) \/ got = Start(i) + 1
  BY DEF Delivered
<1>5. Start(i) \in Nat /\ Start(k) \in Nat /\ Start(k + 1) \in Nat
  <2>1. k \in 0..Len(script) /\ k + 1 \in 0..Len(script)
    BY <1>2, <1>3
  <2> QED BY <1>1, <1>4, <2>1, Starts
<1>6. CASE i <= k
  <2>1. k \in i..Len(script)
    BY <1>2, <1>3, <1>4, <1>6
  <2>2. Start(i) <= Start(k)
    BY <1>1, <1>4, <2>1, Starts
  <2> QED BY <1>1, <1>3, <1>4, <1>5, <2>2
<1>7. CASE k + 1 <= i
  <2>1. k + 1 \in 0..Len(script) /\ i \in k + 1..Len(script)
    BY <1>2, <1>3, <1>4, <1>7
  <2>2. Start(k + 1) <= Start(i)
    BY <1>1, <2>1, Starts
  <2> QED BY <1>1, <1>3, <1>4, <1>5, <2>2
<1> QED BY <1>2, <1>4, <1>6, <1>7

\* find_token finds no end of it.
LEMMA CutLineHasNoEnd ==
  ASSUME TypeOK, AllFramed, Delivered, InCall, got < To, line_ptr = 0
  PROVE  Ends = {} /\ ~RunsOn /\ LineEnds = {}
<1>1. got = From + 1
  BY OnlyLineCut DEF InCall
<1>2. From \in Nat /\ InHand \in Requests /\ Len(answers) + 1 \in DOMAIN script
  BY Extent DEF InCall
<1>3. rdbufsize = 1 /\ rdbufsize < BUF_SIZE
  <2>1. rdbufsize = got - From /\ rdbufsize < BUF_SIZE
    BY DEF InCall, Buffered
  <2> QED BY <1>1, <1>2, <2>1
<1>4. buf[0] = InHand.line
  <2>1. buf[0] = Stream[From + 1]
    <3>1. 0 \in 0..got - From - 1 /\ From + 0 + 1 = From + 1
      BY <1>1, <1>2
    <3>2. buf[0] = Stream[From + 0 + 1]
      BY <3>1 DEF InCall, Buffered, InPlace
    <3> QED BY <3>1, <3>2
  <2>2. Stream[From + 1] = InHand.line
    <3>1. script \in Scripts /\ Len(answers) \in Nat /\ Len(answers) < Len(script)
      BY LenProperties DEF TypeOK, InCall
    <3>2. PICK k \in Nat : k = Len(answers)
      BY <3>1
    <3>3. PICK n \in Nat, m \in Nat : Sized(script[k + 1], n, m)
      <4>1. script[k + 1] \in Requests
        BY <1>2, <3>2 DEF InHand
      <4> QED BY <4>1, SizeTypes
    <3>4. Stream[Start(k) + 1] = script[k + 1].line
      BY <3>1, <3>2, <3>3, RequestSymbols
    <3> QED BY <3>2, <3>4 DEF From, InHand
  <2> QED BY <2>1, <2>2
<1>5. InHand.line # EOL
  <2>1. Framed(InHand)
    BY <1>2 DEF AllFramed, InHand
  <2> QED BY <2>1 DEF Framed
<1>6. ~RunsOn /\ Ends = {i \in line_ptr..rdbufsize-1 : buf[i] = EOL}
  BY <1>3, ScansInside
<1>7. Ends = {}
  BY <1>3, <1>4, <1>5, <1>6
<1> QED BY <1>6, <1>7 DEF LineEnds

\* What an iteration of the loop leaves alone.
LEMMA SameCall ==
  ASSUME UNCHANGED <<clientVars, connVars, rdbufsize, histVars>>
  PROVE  /\ InHand' = InHand /\ From' = From /\ To' = To
         /\ (Len(answers) < Len(script))' = (Len(answers) < Len(script))
         /\ rdbufsize' = rdbufsize /\ got' = got
         /\ is_pipe' = is_pipe /\ state' = state /\ answers' = answers /\ script' = script
         /\ AllFramed => AllFramed'
         /\ AnswersRight => AnswersRight'
         /\ Delivered => Delivered'
         /\ Buffered => Buffered'
         /\ InCall /\ lineptr' = lineptr => InCall'
<1> USE DEF clientVars, connVars, histVars
<1>1. InHand' = InHand /\ From' = From /\ To' = To
  BY DEF InHand, From, To, Start
<1>2. AllFramed => AllFramed'
  BY DEF AllFramed
<1>3. AnswersRight => AnswersRight'
  BY DEF AnswersRight
<1>4. Delivered => Delivered'
  BY DEF Delivered, Start, Stream
<1>5. Buffered => Buffered'
  BY <1>1 DEF Buffered, InPlace, Stream
<1>6. InCall /\ lineptr' = lineptr => InCall'
  BY <1>1, <1>5 DEF InCall
<1> QED BY <1>1, <1>2, <1>3, <1>4, <1>5, <1>6

\* It keeps the invariant if it leaves the request where pc says.
LEMMA FromCall ==
  ASSUME WholeInv, ~is_pipe, UNCHANGED <<clientVars, connVars, rdbufsize, histVars>>,
         lineptr' = lineptr, line_ptr' <= BUF_SIZE,
         \/ pc' = "line" /\ AtLine'
         \/ pc' = "finish" /\ AtFinish'
         \/ pc' = "process" /\ AtProcess'
  PROVE  WholeInv'
<1>1. /\ is_pipe' = is_pipe /\ state' = state
      /\ AllFramed' /\ AnswersRight' /\ (Delivered => Delivered')
  BY SameCall DEF WholeInv
<1>2. Inside'
  BY DEF WholeInv, Inside
<1>3. ChildHeld'
  BY <1>1 DEF ChildHeld
<1>4. ParsingHeld'
  BY <1>1 DEF WholeInv, ParsingHeld
<1> QED BY <1>1, <1>2, <1>3, <1>4 DEF WholeInv

\* parse_request is in its loop, for a request of a client that is served whole.
Loops == TypeOK /\ BodyHeld /\ WholeInv /\ ~is_pipe /\ pc = "line"

\* What is known there.
LEMMA LoopFacts ==
  ASSUME Loops
  PROVE  /\ AllFramed /\ Delivered /\ AtLine /\ InCall /\ Inside
         /\ Len(answers) < Len(script) /\ Buffered /\ rdbufsize = read_size
         /\ rdbufsize \in Nat /\ rdbufsize < BUF_SIZE /\ BUF_SIZE \in Nat
         /\ line_ptr \in Nat /\ got \in Nat /\ From \in Nat /\ To \in Nat
         /\ InHand \in Requests /\ Len(answers) + 1 \in DOMAIN script
<1>1. AllFramed /\ Delivered /\ AtLine /\ InCall /\ Inside
  BY DEF Loops, WholeInv, ParsingHeld, AtLine
<1>2. Len(answers) < Len(script) /\ Buffered /\ rdbufsize = read_size
  BY <1>1 DEF InCall
<1>3. rdbufsize < BUF_SIZE /\ rdbufsize \in Nat /\ BUF_SIZE \in Nat /\ line_ptr \in Nat /\ got \in Nat
  BY <1>2, Constants DEF Buffered, Loops, TypeOK, Sizes
<1> QED BY <1>1, <1>2, <1>3, Extent DEF Loops

\* Where the first line ends, and a header, and the empty line.
LEMMA NextLine ==
  ASSUME Loops, NEW n \in Nat, NEW m \in Nat, Laid(n, m)
  PROVE  /\ AtFirstLine =>
              /\ LineEnds = {2} /\ Texts = {InHand.line} /\ InHand.line # EOL
              /\ ~RunsOn /\ Ends # {}
         /\ \A j \in Nat : AtHeader(j) =>
              /\ ~RunsOn /\ Ends # {} /\ j <= n
              /\ IF j < n
                 THEN LineEnds = {2 * (j + 1) + 2} /\ Texts = {InHand.headers[j + 1]}
                        /\ InHand.headers[j + 1] # EOL
                 ELSE LineEnds = {2 * n + 3} /\ Texts = {EOL}
<1>1. TypeOK /\ rdbufsize \in Nat /\ rdbufsize < BUF_SIZE /\ 2 * n + 3 + m <= rdbufsize
  BY LoopFacts DEF Loops, Laid
<1>2. ASSUME AtFirstLine
      PROVE  /\ LineEnds = {2} /\ Texts = {InHand.line} /\ InHand.line # EOL
             /\ ~RunsOn /\ Ends # {}
  <2>1. line_ptr = 0 /\ buf[0] = InHand.line /\ buf[0] # EOL /\ buf[1] = EOL
    BY <1>2 DEF AtFirstLine, Laid
  <2>2. 1 \in line_ptr..rdbufsize - 1 /\ line_ptr < rdbufsize /\ line_ptr..1 - 1 = {0}
    BY <1>1, <2>1
  <2>3. LineEnds = {1 + 1} /\ Texts = {buf[line_ptr]} /\ ~RunsOn /\ Ends # {}
    BY <1>1, <2>1, <2>2, FirstEnd
  <2> QED BY <2>1, <2>3
<1>3. ASSUME NEW j \in Nat, AtHeader(j)
      PROVE  /\ ~RunsOn /\ Ends # {} /\ j <= n
             /\ IF j < n
                THEN LineEnds = {2 * (j + 1) + 2} /\ Texts = {InHand.headers[j + 1]}
                       /\ InHand.headers[j + 1] # EOL
                ELSE LineEnds = {2 * n + 3} /\ Texts = {EOL}
  <2>1. line_ptr = 2 * j + 2 /\ j <= n
    BY <1>3 DEF AtHeader, Laid, Sized
  <2>2. CASE j < n
    <3>1. j + 1 \in 1..n /\ 2 * (j + 1) = 2 * j + 2
      BY <2>2
    <3>2. /\ buf[2 * (j + 1)] = InHand.headers[j + 1] /\ buf[2 * (j + 1)] # EOL
          /\ buf[2 * (j + 1) + 1] = EOL
      BY <3>1 DEF Laid
    <3>3. PICK e \in Nat : e = 2 * (j + 1) + 1
      OBVIOUS
    <3>4. /\ e \in line_ptr..rdbufsize - 1 /\ line_ptr < rdbufsize /\ buf[e] = EOL
          /\ \A i \in line_ptr..e - 1 : i = 2 * (j + 1)
      BY <1>1, <2>1, <2>2, <3>2, <3>3
    <3>5. \A i \in line_ptr..e - 1 : buf[i] # EOL
      BY <3>2, <3>4
    <3>6. LineEnds = {e + 1} /\ Texts = {buf[line_ptr]} /\ ~RunsOn /\ Ends # {}
      BY <1>1, <3>4, <3>5, FirstEnd
    <3>7. e + 1 = 2 * (j + 1) + 2 /\ buf[line_ptr] = InHand.headers[j + 1]
      BY <2>1, <3>1, <3>2, <3>3
    <3> QED BY <2>1, <2>2, <3>2, <3>6, <3>7
  <2>3. CASE ~(j < n)
    <3>1. line_ptr = 2 * n + 2 /\ buf[line_ptr] = EOL
      BY <2>1, <2>3 DEF Laid
    <3>2. PICK e \in Nat : e = line_ptr
      BY <3>1
    <3>3. /\ e \in line_ptr..rdbufsize - 1 /\ line_ptr < rdbufsize /\ buf[e] = EOL
          /\ \A i \in line_ptr..e - 1 : buf[i] # EOL
      BY <1>1, <3>1, <3>2
    <3>4. LineEnds = {e + 1} /\ Texts = {buf[line_ptr]} /\ ~RunsOn /\ Ends # {}
      BY <1>1, <3>3, FirstEnd
    <3> QED BY <2>1, <2>3, <3>1, <3>2, <3>4
  <2> QED BY <2>2, <2>3
<1> QED BY <1>2, <1>3

\* A call that finds no complete line leaves everything for the next.
LEMMA NoLineWhole ==
  ASSUME Loops, NoLine
  PROVE  WholeInv'
<1> USE DEF clientVars, connVars, reqVars, histVars
<1>1. /\ AllFramed /\ Delivered /\ AtLine /\ InCall /\ Inside /\ Len(answers) < Len(script)
      /\ Buffered /\ rdbufsize = read_size /\ got \in Nat /\ To \in Nat /\ From \in Nat
  BY LoopFacts
<1>2. linetype < CONTENT /\ Ends = {} /\ pc' = "process"
  BY DEF NoLine
<1>3. AtFirstLine \/ \E j \in Nat : AtHeader(j)
  BY <1>1, <1>2 DEF AtLine, AtBody, Judged, Refused, CONTENT, COMPLETE, ERROR
<1>4. ~(To <= got)
  <2> SUFFICES ASSUME To <= got PROVE FALSE
    OBVIOUS
  <2>1. PICK n \in Nat, m \in Nat : Laid(n, m)
    BY <1>1, LaidOut DEF Loops
  <2>2. Ends # {}
    BY <1>3, <2>1, NextLine
  <2> QED BY <1>2, <2>2
<1>5. AtFirstLine
  BY <1>3, <1>4 DEF AtHeader, LineTaken
<1>6. UNCHANGED <<clientVars, connVars, rdbufsize, histVars>> /\ UNCHANGED <<lineptr, line_ptr>>
  BY DEF NoLine
<1>7. Buffered' /\ From' = From /\ got' = got
  BY <1>1, <1>6, SameCall
<1>8. Untouched'
  BY <1>5 DEF AtFirstLine, Untouched, NoLine
<1>9. AtProcess'
  BY <1>1, <1>7, <1>8 DEF AtProcess, AtSelect, InCall
<1>10. WholeInv /\ ~is_pipe /\ line_ptr' <= BUF_SIZE
  BY <1>1, <1>6 DEF Loops, Inside
<1> QED BY <1>2, <1>6, <1>9, <1>10, FromCall

\* find_token stays in the buffer.
LEMMA NeverRunsOff ==
  ASSUME Loops
  PROVE  ~RunsOff
<1> SUFFICES ASSUME RunsOff PROVE FALSE
  OBVIOUS
<1>1. /\ AllFramed /\ Delivered /\ AtLine /\ InCall /\ Len(answers) < Len(script)
      /\ Buffered /\ rdbufsize = read_size /\ got \in Nat /\ To \in Nat
  BY LoopFacts
<1>2. linetype < CONTENT /\ RunsOn
  BY DEF RunsOff
<1>3. AtFirstLine \/ \E j \in Nat : AtHeader(j)
  BY <1>1, <1>2 DEF AtLine, AtBody, Judged, Refused, CONTENT, COMPLETE, ERROR
<1>4. CASE To <= got
  <2>1. PICK n \in Nat, m \in Nat : Laid(n, m)
    BY <1>1, <1>4, LaidOut DEF Loops
  <2> QED BY <1>2, <1>3, <2>1, NextLine
<1>5. CASE ~(To <= got)
  <2>1. AtFirstLine
    BY <1>3, <1>5 DEF AtHeader, LineTaken
  <2> QED BY <1>1, <1>2, <1>5, <2>1, CutLineHasNoEnd DEF Loops, AtFirstLine
<1> QED BY <1>4, <1>5

\* A line that is taken is one of a request that has arrived.
LEMMA LineArrived ==
  ASSUME Loops, NEW to \in LineEnds, NEW text, TakesLine(to, text)
  PROVE  \E n \in Nat, m \in Nat :
           Laid(n, m) /\ (AtFirstLine \/ \E j \in 0..n : AtHeader(j)) /\ To <= got
<1>1. /\ AllFramed /\ Delivered /\ AtLine /\ InCall /\ Len(answers) < Len(script)
      /\ Buffered /\ rdbufsize = read_size /\ got \in Nat /\ To \in Nat
  BY LoopFacts
<1>2. linetype < CONTENT
  BY DEF TakesLine
<1>3. AtFirstLine \/ \E j \in Nat : AtHeader(j)
  BY <1>1, <1>2 DEF AtLine, AtBody, Judged, Refused, CONTENT, COMPLETE, ERROR
<1>4. To <= got
  <2> SUFFICES ASSUME ~(To <= got) PROVE FALSE
    OBVIOUS
  <2>1. AtFirstLine
    BY <1>3 DEF AtHeader, LineTaken
  <2> QED BY <1>1, <2>1, CutLineHasNoEnd DEF Loops, AtFirstLine
<1>5. PICK n \in Nat, m \in Nat : Laid(n, m)
  BY <1>1, <1>4, LaidOut DEF Loops
<1>6. AtFirstLine \/ \E j \in 0..n : AtHeader(j)
  BY <1>3, <1>5, NextLine
<1> QED BY <1>4, <1>5, <1>6

\* add_head, once more.
LEMMA KeptGrows ==
  ASSUME NEW q \in Requests, NEW n \in Nat, NEW m \in Nat, Sized(q, n, m),
         NEW j \in Nat, j < n
  PROVE  Cons(q.headers[j + 1], Kept(q, j)) = Kept(q, j + 1)
<1> DEFINE e == q.headers[j + 1]
           before == Kept(q, j)
           after == Kept(q, j + 1)
<1>1. q.headers \in Seq(Symbols) /\ Len(q.headers) = n
  BY DEF Requests, Sized
<1>2. \A i \in 1..n : q.headers[i] \in Symbols
  BY <1>1, ElementOfSeq
<1>3. e \in Symbols
  BY <1>2
<1>4. before \in Seq(Symbols) /\ Len(before) = j /\ \A i \in 1..j : before[i] = q.headers[j + 1 - i]
  <2>1. \A i \in 1..j : q.headers[j + 1 - i] \in Symbols
    <3>1. \A i \in 1..j : j + 1 - i \in 1..n
      OBVIOUS
    <3> QED BY <1>2, <3>1
  <2>2. before \in [1..j -> Symbols]
    BY <2>1 DEF Kept
  <2>3. \A i \in 1..j : before[i] = q.headers[j + 1 - i]
    BY DEF Kept
  <2> HIDE DEF before
  <2>4. before \in Seq(Symbols) /\ Len(before) = j
    BY <2>2, LenProperties
  <2> QED BY <2>3, <2>4
<1>5. after \in Seq(Symbols) /\ Len(after) = j + 1 /\ \A i \in 1..j + 1 : after[i] = q.headers[j + 1 + 1 - i]
  <2>1. \A i \in 1..j + 1 : q.headers[j + 1 + 1 - i] \in Symbols
    <3>1. \A i \in 1..j + 1 : j + 1 + 1 - i \in 1..n
      OBVIOUS
    <3> QED BY <1>2, <3>1
  <2>2. after \in [1..j + 1 -> Symbols]
    BY <2>1 DEF Kept
  <2>3. \A i \in 1..j + 1 : after[i] = q.headers[j + 1 + 1 - i]
    BY DEF Kept
  <2> HIDE DEF after
  <2>4. after \in Seq(Symbols) /\ Len(after) = j + 1
    BY <2>2, LenProperties
  <2> QED BY <2>3, <2>4
<1> HIDE DEF before, after
<1>6. <<e>> \in Seq(Symbols) /\ Len(<<e>>) = 1 /\ <<e>>[1] = e
  BY <1>3
<1> DEFINE joined == <<e>> \o before
<1>7. /\ joined \in Seq(Symbols) /\ Len(joined) = Len(<<e>>) + Len(before)
      /\ \A p \in 1..Len(<<e>>) : joined[p] = <<e>>[p]
      /\ \A p \in 1..Len(before) : joined[Len(<<e>>) + p] = before[p]
  <2>1. <<e>> \in Seq(Symbols) /\ before \in Seq(Symbols)
    BY <1>4, <1>6
  <2> HIDE DEF e
  <2> QED BY <2>1, JoinedAt
<1>8. /\ joined \in Seq(Symbols) /\ Len(joined) = 1 + j /\ joined[1] = e
      /\ \A p \in 1..j : joined[1 + p] = before[p]
  <2> HIDE DEF joined
  <2> QED BY <1>4, <1>6, <1>7
<1>9. Cons(e, before) = joined
  BY DEF Cons
<1> HIDE DEF joined
<1>10. ASSUME NEW i \in 1..j + 1 PROVE joined[i] = after[i]
  <2>1. CASE i = 1
    <3>1. j + 1 + 1 - i = j + 1
      BY <2>1
    <3> QED BY <1>5, <1>8, <2>1, <3>1
  <2>2. CASE i # 1
    <3>1. PICK p \in 1..j : i = 1 + p
      BY <2>2
    <3>2. j + 1 + 1 - i = j + 1 - p
      BY <3>1
    <3>3. joined[1 + p] = q.headers[j + 1 - p]
      BY <1>4, <1>8
    <3>4. after[i] = q.headers[j + 1 + 1 - i]
      BY <1>5
    <3> HIDE DEF e
    <3> QED BY <3>1, <3>2, <3>3, <3>4
  <2> QED BY <2>1, <2>2
<1>11. joined = after
  <2>1. Len(joined) = Len(after) /\ \A i \in 1..Len(joined) : joined[i] = after[i]
    BY <1>5, <1>8, <1>10
  <2> QED BY <1>5, <1>8, <2>1, SeqEqual
<1> QED BY <1>9, <1>11 DEF before, after

\* The list of a whole request.
LEMMA KeptAll ==
  ASSUME NEW q \in Requests, NEW n \in Nat, NEW m \in Nat, Sized(q, n, m)
  PROVE  /\ Kept(q, n) = Reverse(q.headers)
         /\ \A name : HasHeader(Kept(q, n), name) <=>
              \E i \in DOMAIN q.headers : SameName(q.headers[i].name, name)
<1>1. q.headers \in Seq(Symbols) /\ Len(q.headers) = n /\ DOMAIN q.headers = 1..n
  BY LenProperties DEF Requests, Sized
<1>2. Kept(q, n) = Reverse(q.headers)
  <2>1. \A i \in 1..n : n + 1 - i = n - i + 1
    OBVIOUS
  <2> QED BY <1>1, <2>1 DEF Kept, Reverse
<1>3. ASSUME NEW name
      PROVE  HasHeader(Kept(q, n), name) <=>
               \E i \in DOMAIN q.headers : SameName(q.headers[i].name, name)
  <2>1. DOMAIN Kept(q, n) = 1..n /\ \A i \in 1..n : Kept(q, n)[i] = q.headers[n + 1 - i]
    BY DEF Kept
  <2>2. ASSUME NEW i \in 1..n, SameName(Kept(q, n)[i].name, name)
        PROVE  \E k \in DOMAIN q.headers : SameName(q.headers[k].name, name)
    <3>1. n + 1 - i \in 1..n
      OBVIOUS
    <3> QED BY <1>1, <2>1, <2>2, <3>1
  <2>3. ASSUME NEW i \in 1..n, SameName(q.headers[i].name, name)
        PROVE  \E k \in 1..n : SameName(Kept(q, n)[k].name, name)
    <3>1. n + 1 - i \in 1..n /\ n + 1 - (n + 1 - i) = i
      OBVIOUS
    <3>2. Kept(q, n)[n + 1 - i] = q.headers[i]
      BY <2>1, <3>1
    <3> QED BY <2>3, <3>1, <3>2
  <2>4. HasHeader(Kept(q, n), name) <=> \E i \in 1..n : SameName(Kept(q, n)[i].name, name)
    BY <2>1 DEF HasHeader, Found
  <2> QED BY <1>1, <2>2, <2>3, <2>4
<1> QED BY <1>2, <1>3

\* What the empty line still misses is what a well-formed request has.
LEMMA CompleteRequest ==
  ASSUME NEW q \in Requests, NEW n \in Nat, NEW m \in Nat, Sized(q, n, m),
         LineKnown(q), \A i \in 1..n : q.headers[i].type = "header"
  PROVE  PassesAsWellFormed(q) <=>
           /\ HasHeader(Kept(q, n), "Host")
           /\ q.line.name = "POST" => HasHeader(Kept(q, n), "Content-Length")
<1>1. DOMAIN q.headers = 1..n
  BY LenProperties DEF Requests, Sized
<1>2. \A name : SameName(name, "Content-Length") <=> name = "Content-Length"
  BY DEF SameName
<1>3. HasHeader(Kept(q, n), "Host") <=>
        \E i \in DOMAIN q.headers : q.headers[i].name \in {"Host", "Hosx"}
  <2>1. \A name : SameName(name, "Host") <=> name \in {"Host", "Hosx"}
    BY DEF SameName
  <2>2. HasHeader(Kept(q, n), "Host") <=>
          \E i \in DOMAIN q.headers : SameName(q.headers[i].name, "Host")
    BY KeptAll
  <2> QED BY <2>1, <2>2
<1>4. HasHeader(Kept(q, n), "Content-Length") <=>
        \E i \in DOMAIN q.headers : q.headers[i].name = "Content-Length"
  BY <1>2, KeptAll
<1> QED BY <1>1, <1>3, <1>4 DEF PassesAsWellFormed, Complete, LineKnown

-----------------------------------------------------------------------------
(* What each iteration takes: a line, a header, the body *)

\* The request line is taken: no header yet.
LEMMA RequestLineWhole ==
  ASSUME Loops, NEW to \in LineEnds, NEW text \in Texts, RequestLine(to, text)
  PROVE  WholeInv'
<1> USE DEF REQ_LINE, HEADER, CONTENT, COMPLETE, ERROR
<1>1. /\ InCall /\ rdbufsize < BUF_SIZE /\ InHand \in Requests
      /\ WholeInv /\ ~is_pipe /\ pc = "line" /\ rdbufsize \in Nat /\ BUF_SIZE \in Nat
  BY LoopFacts DEF Loops
<1>2. linetype = REQ_LINE /\ TakesLine(to, text)
  BY DEF RequestLine
<1>3. PICK n \in Nat, m \in Nat :
        Laid(n, m) /\ (AtFirstLine \/ \E j \in 0..n : AtHeader(j)) /\ To <= got
  BY <1>2, LineArrived
<1>4. AtFirstLine
  BY <1>2, <1>3 DEF AtHeader
<1>5. to = 2 /\ text = InHand.line
  BY <1>3, <1>4, NextLine
<1>6. UNCHANGED <<clientVars, connVars, rdbufsize, histVars>> /\ pc' = "line"
  BY <1>1 DEF RequestLine
<1>7. InHand' = InHand /\ To' = To /\ got' = got /\ InCall'
  BY <1>1, <1>6, SameCall DEF RequestLine
<1>8. /\ linetype' = HEADER /\ line_ptr' = 2 /\ lineptr' = lineptr
      /\ header_list' = <<>> /\ ~has_body' /\ body' = <<>>
  BY <1>4, <1>5 DEF RequestLine, TakesLine, AtFirstLine, Untouched
<1>9. IF LineKnown(InHand) THEN stucode' = "OK" /\ mtdcode' = InHand.line.name
      ELSE stucode' # "OK"
  BY <1>4, <1>5 DEF RequestLine, StatusOfLine, LineKnown, AtFirstLine, Untouched
<1>10. LineTaken'
  BY <1>3, <1>7, <1>8, <1>9 DEF LineTaken
<1>11. HeadersTaken(0)'
  <2>1. Kept(InHand, 0) = <<>>
    BY DEF Kept
  <2> QED BY <1>7, <1>8, <2>1 DEF HeadersTaken
<1>12. AtHeader(0)'
  <2>1. 0 <= Len(InHand.headers)
    BY <1>1, LenProperties DEF Requests
  <2> QED BY <1>7, <1>8, <1>10, <1>11, <2>1 DEF AtHeader
<1>13. AtLine'
  BY <1>7, <1>12 DEF AtLine
<1>14. line_ptr' <= BUF_SIZE
  BY <1>1, <1>3, <1>8 DEF Laid
<1> QED BY <1>1, <1>6, <1>8, <1>13, <1>14, FromCall

\* The process dies of a uri without "/", and of no other.
LEMMA WritesLiteralWhole ==
  ASSUME Loops, NEW to \in LineEnds, NEW text \in Texts, WritesLiteral(to, text)
  PROVE  WholeInv'
<1> USE DEF REQ_LINE, HEADER
<1>1. /\ rdbufsize < BUF_SIZE /\ rdbufsize \in Nat /\ BUF_SIZE \in Nat
      /\ Len(answers) + 1 \in DOMAIN script /\ WholeInv /\ ~is_pipe
  BY LoopFacts DEF Loops
<1>2. linetype = REQ_LINE /\ TakesLine(to, text)
  BY DEF WritesLiteral
<1>3. PICK n \in Nat, m \in Nat :
        Laid(n, m) /\ (AtFirstLine \/ \E j \in 0..n : AtHeader(j)) /\ To <= got
  BY <1>2, LineArrived
<1>4. to = 2 /\ text = InHand.line
  BY <1>2, <1>3, NextLine DEF AtHeader
<1>5. /\ UNCHANGED <<clientVars, connVars, rdbufsize, histVars>> /\ pc' = "dead"
      /\ lineptr' = lineptr /\ line_ptr' = 2
  BY <1>4 DEF WritesLiteral, TakesLine, reqVars
<1>6. /\ is_pipe' = is_pipe /\ state' = state /\ script' = script
      /\ AllFramed' /\ AnswersRight' /\ (Delivered => Delivered')
  BY <1>1, <1>5, SameCall DEF WholeInv
<1>7. Inside'
  <2>1. script[Len(answers) + 1].line.value = RelativeUri
    BY <1>4 DEF WritesLiteral, InHand
  <2>2. 2 <= BUF_SIZE
    BY <1>1, <1>3 DEF Laid
  <2> QED BY <1>1, <1>5, <1>6, <2>1, <2>2 DEF Inside, WholeInv
<1>8. ChildHeld' /\ ParsingHeld'
  BY <1>1, <1>5, <1>6 DEF ChildHeld, ParsingHeld, WholeInv
<1> QED BY <1>6, <1>7, <1>8 DEF WholeInv

\* A header is added, or refused.
LEMMA HeaderLineWhole ==
  ASSUME Loops, NEW to \in LineEnds, NEW text \in Texts, HeaderLine(to, text)
  PROVE  WholeInv'
<1> USE DEF REQ_LINE, HEADER, CONTENT, COMPLETE, ERROR
<1>1. /\ InCall /\ rdbufsize < BUF_SIZE /\ InHand \in Requests
      /\ WholeInv /\ ~is_pipe /\ pc = "line" /\ rdbufsize \in Nat /\ BUF_SIZE \in Nat
  BY LoopFacts DEF Loops
<1>2. linetype = HEADER /\ TakesLine(to, text) /\ text # EOL
  BY DEF HeaderLine
<1>3. PICK n \in Nat, m \in Nat :
        Laid(n, m) /\ (AtFirstLine \/ \E j \in 0..n : AtHeader(j)) /\ To <= got
  BY <1>2, LineArrived
<1>4. PICK j \in 0..n : AtHeader(j)
  BY <1>2, <1>3 DEF AtFirstLine
<1>5. j < n /\ to = 2 * (j + 1) + 2 /\ text = InHand.headers[j + 1]
  <2>1. j \in Nat
    OBVIOUS
  <2>2. IF j < n
        THEN LineEnds = {2 * (j + 1) + 2} /\ Texts = {InHand.headers[j + 1]}
        ELSE Texts = {EOL}
    BY <1>3, <1>4, <2>1, NextLine
  <2> QED BY <1>2, <2>2
<1>6. UNCHANGED <<clientVars, connVars, rdbufsize, histVars>> /\ pc' = "line"
  BY <1>1 DEF HeaderLine
<1>7. InHand' = InHand /\ To' = To /\ got' = got /\ InCall'
  BY <1>1, <1>6, SameCall DEF HeaderLine
<1>8. /\ line_ptr' = 2 * (j + 1) + 2 /\ lineptr' = lineptr /\ mtdcode' = mtdcode
      /\ has_body' = has_body /\ body' = body
  BY <1>5 DEF HeaderLine, TakesLine
<1>9. Sized(InHand, n, m) /\ Len(InHand.headers) = n /\ 2 * n + 3 + m <= rdbufsize
  BY <1>3 DEF Laid, Sized
<1>10. j + 1 \in Nat /\ j + 1 \in 1..n /\ line_ptr' <= BUF_SIZE
  BY <1>1, <1>5, <1>8, <1>9
<1>11. CASE text.type = "header"
  <2>1. /\ linetype' = HEADER /\ stucode' = stucode
        /\ header_list' = Cons(InHand.headers[j + 1], Kept(InHand, j))
    BY <1>2, <1>4, <1>5, <1>11 DEF HeaderLine, AtHeader, HeadersTaken
  <2>2. header_list' = Kept(InHand, j + 1)
    <3>1. InHand \in Requests /\ Sized(InHand, n, m) /\ j \in Nat /\ j < n
      BY <1>1, <1>3, <1>5 DEF Laid
    <3>2. Cons(InHand.headers[j + 1], Kept(InHand, j)) = Kept(InHand, j + 1)
      BY <3>1, KeptGrows
    <3> QED BY <2>1, <3>2
  <2>3. \A i \in 1..j + 1 : InHand.headers[i].type = "header"
    <3>1. \A i \in 1..j + 1 : i \in 1..j \/ i = j + 1
      OBVIOUS
    <3>2. \A i \in 1..j : InHand.headers[i].type = "header"
      BY <1>4 DEF AtHeader, HeadersTaken
    <3> QED BY <1>5, <1>11, <3>1, <3>2
  <2>4. HeadersTaken(j + 1)'
    BY <1>7, <2>2, <2>3 DEF HeadersTaken
  <2>5. LineTaken'
    BY <1>4, <1>7, <1>8, <2>1 DEF AtHeader, LineTaken
  <2>6. AtHeader(j + 1)'
    <3>1. j + 1 <= Len(InHand.headers)
      BY <1>5, <1>9
    <3> QED BY <1>7, <1>8, <2>1, <2>4, <2>5, <3>1 DEF AtHeader
  <2>7. AtLine'
    BY <1>7, <1>10, <2>6 DEF AtLine
  <2> QED BY <1>1, <1>6, <1>8, <1>10, <2>7, FromCall
<1>12. CASE text.type # "header"
  <2>1. linetype' = ERROR /\ stucode' = "BAD_REQUEST"
    BY <1>12 DEF HeaderLine
  <2>2. ~PassesAsWellFormed(InHand)
    <3>1. DOMAIN InHand.headers = 1..n
      BY <1>1, <1>9, LenProperties DEF Requests
    <3> QED BY <1>5, <1>10, <1>12, <3>1 DEF PassesAsWellFormed, Complete
  <2>3. AtLine'
    BY <1>7, <2>1, <2>2 DEF AtLine, Refused
  <2> QED BY <1>1, <1>6, <1>8, <1>10, <2>3, FromCall
<1> QED BY <1>11, <1>12

\* The empty line ends the headers: the request is judged, or its body awaited.
LEMMA EmptyLineWhole ==
  ASSUME Loops, NEW to \in LineEnds, EmptyLine(to)
  PROVE  WholeInv'
<1> USE DEF REQ_LINE, HEADER, CONTENT, COMPLETE, ERROR
<1>1. /\ InCall /\ rdbufsize < BUF_SIZE /\ InHand \in Requests
      /\ WholeInv /\ ~is_pipe /\ pc = "line" /\ rdbufsize \in Nat /\ BUF_SIZE \in Nat
      /\ AllFramed /\ Len(answers) + 1 \in DOMAIN script /\ Len(answers) < Len(script)
  BY LoopFacts DEF Loops
<1>2. TakesLine(to, EOL) /\ EOL \in Texts
  BY DEF EmptyLine, TakesLine
<1>3. PICK n \in Nat, m \in Nat :
        Laid(n, m) /\ (AtFirstLine \/ \E j \in 0..n : AtHeader(j)) /\ To <= got
  BY <1>2, LineArrived
<1>4. ~AtFirstLine
  BY <1>2, <1>3, NextLine
<1>5. AtHeader(n) /\ to = 2 * n + 3
  <2>1. PICK j \in 0..n : AtHeader(j)
    BY <1>3, <1>4
  <2>2. j \in Nat
    OBVIOUS
  <2>3. IF j < n
        THEN Texts = {InHand.headers[j + 1]} /\ InHand.headers[j + 1] # EOL
        ELSE LineEnds = {2 * n + 3}
    BY <1>3, <2>1, <2>2, NextLine
  <2>4. ~(j < n)
    BY <1>2, <2>3
  <2>5. j = n
    BY <2>4
  <2> QED BY <2>1, <2>3, <2>4, <2>5
<1>6. UNCHANGED <<clientVars, connVars, rdbufsize, histVars>>
  BY DEF EmptyLine
<1>7. /\ InHand' = InHand /\ To' = To /\ From' = From /\ got' = got /\ InCall'
      /\ rdbufsize' = rdbufsize /\ (Len(answers) < Len(script))'
  BY <1>1, <1>6, SameCall DEF EmptyLine
<1>8. /\ line_ptr' = 2 * n + 3
      /\ UNCHANGED <<mtdcode, header_list, lineptr, has_body, body>>
  BY <1>5 DEF EmptyLine, TakesLine
<1>9. Sized(InHand, n, m)
  BY <1>3 DEF Laid
<1>10. line_ptr' <= BUF_SIZE /\ line_ptr' <= rdbufsize /\ 2 * n + 3 \in Nat
  BY <1>1, <1>3, <1>8 DEF Laid
<1>11. LineTaken /\ HeadersTaken(n)
  BY <1>5 DEF AtHeader
<1>12. header_list = Kept(InHand, n) /\ \A i \in 1..n : InHand.headers[i].type = "header"
  BY <1>11 DEF HeadersTaken
<1>13. LineKnown(InHand) =>
         /\ stucode = "OK" /\ mtdcode = InHand.line.name
         /\ PassesAsWellFormed(InHand) <=> ~Incomplete
  <2> SUFFICES ASSUME LineKnown(InHand)
               PROVE  /\ stucode = "OK" /\ mtdcode = InHand.line.name
                      /\ PassesAsWellFormed(InHand) <=> ~Incomplete
    OBVIOUS
  <2>1. stucode = "OK" /\ mtdcode = InHand.line.name
    BY <1>11 DEF LineTaken
  <2>2. PassesAsWellFormed(InHand) <=>
          /\ HasHeader(Kept(InHand, n), "Host")
          /\ InHand.line.name = "POST" => HasHeader(Kept(InHand, n), "Content-Length")
    BY <1>1, <1>9, <1>12, CompleteRequest
  <2> QED BY <1>12, <2>1, <2>2 DEF Incomplete
<1>14. PassesAsWellFormed(InHand) => LineKnown(InHand)
  BY DEF PassesAsWellFormed, Complete, LineKnown
<1>15. ~LineKnown(InHand) => stucode # "OK"
  BY <1>11 DEF LineTaken
<1>16. CASE Incomplete
  <2>1. linetype' = ERROR /\ stucode' = "BAD_REQUEST" /\ pc' = "process"
    BY <1>16 DEF EmptyLine
  <2>2. ~PassesAsWellFormed(InHand)
    BY <1>13, <1>14, <1>16
  <2>3. FitsAs(Answered, InHand)'
    BY <1>7, <2>1, <2>2 DEF FitsAs, Served, Answered
  <2>4. AtProcess'
    BY <1>7, <2>1, <2>3 DEF AtProcess, Settled
  <2> QED BY <1>1, <1>6, <1>8, <1>10, <2>1, <2>4, FromCall
<1>17. CASE ~Incomplete /\ mtdcode = "POST"
  <2>1. linetype' = CONTENT /\ stucode' = stucode /\ pc' = "line"
    BY <1>1, <1>17 DEF EmptyLine
  <2>2. LineTaken'
    BY <1>7, <1>8, <1>11, <2>1 DEF LineTaken
  <2>3. Len(InHand.headers) = n
    BY <1>9 DEF Sized
  <2>4. HeadersTaken(n)'
    BY <1>7, <1>8, <1>11 DEF HeadersTaken
  <2>5. LineKnown(InHand) => PassesAsWellFormed(InHand)
    BY <1>13, <1>17
  <2>6. AtBody'
    <3>1. HeadersTaken(Len(InHand.headers))'
      BY <1>7, <2>3, <2>4
    <3>2. (LineKnown(InHand) => PassesAsWellFormed(InHand))'
      BY <1>7, <2>5 DEF LineKnown, PassesAsWellFormed, Complete
    <3>3. (line_ptr = 2 * Len(InHand.headers) + 3)'
      BY <1>7, <1>8, <2>3
    <3>4. mtdcode' = "POST"
      BY <1>8, <1>17
    <3> QED BY <2>1, <2>2, <3>1, <3>2, <3>3, <3>4 DEF AtBody
  <2>7. AtLine'
    BY <1>7, <2>6 DEF AtLine
  <2> QED BY <1>1, <1>6, <1>8, <1>10, <2>1, <2>7, FromCall
<1>18. CASE ~Incomplete /\ mtdcode # "POST"
  <2>1. linetype' = COMPLETE /\ stucode' = stucode /\ pc' = "line"
    BY <1>1, <1>18 DEF EmptyLine
  <2>2. stucode = "OK" => InHand.body = <<>> /\ m = 0 /\ PassesAsWellFormed(InHand)
    <3> SUFFICES ASSUME stucode = "OK" PROVE InHand.body = <<>> /\ m = 0 /\ PassesAsWellFormed(InHand)
      OBVIOUS
    <3>1. LineKnown(InHand) /\ PassesAsWellFormed(InHand) /\ InHand.line.name = mtdcode
      BY <1>13, <1>15, <1>18
    <3>2. InHand.line.name \in {"GET", "HEAD"}
      BY <1>18, <3>1 DEF LineKnown, Methods
    <3>3. Framed(InHand)
      BY <1>1 DEF AllFramed, InHand
    <3>4. InHand.body = <<>>
      BY <3>2, <3>3 DEF Framed
    <3>5. m = 0
      BY <1>9, <3>4, EmptySeq DEF Sized
    <3> QED BY <3>1, <3>4, <3>5
  <2>3. FitsAs(Answered, InHand)'
    <3>1. CASE PassesAsWellFormed(InHand)
      <4>1. stucode = "OK" /\ mtdcode = InHand.line.name
        BY <1>13, <1>14, <3>1
      <4>2. InHand.body = <<>> /\ body = <<>>
        BY <1>11, <2>2, <4>1 DEF LineTaken
      <4>3. header_list = Reverse(InHand.headers)
        BY <1>1, <1>9, <1>12, KeptAll
      <4>4. Answered' = [status |-> "OK", method |-> InHand.line.name,
                         headers |-> Reverse(InHand.headers), body |-> InHand.body]
        BY <1>8, <2>1, <4>1, <4>2, <4>3 DEF Answered
      <4> QED BY <1>7, <3>1, <4>4 DEF FitsAs, Served
    <3>2. CASE ~PassesAsWellFormed(InHand)
      <4>1. stucode' # "OK"
        BY <2>1, <2>2, <3>2
      <4> QED BY <1>7, <3>2, <4>1 DEF FitsAs, Served, Answered
    <3> QED BY <3>1, <3>2
  <2>4. (stucode = "OK" => line_ptr = To - From)'
    <3>1. To - From = 2 * n + 3 + m
      BY <1>3 DEF Laid
    <3> QED BY <1>7, <1>8, <2>1, <2>2, <3>1
  <2>5. Judged'
    BY <1>3, <1>7, <1>10, <2>1, <2>3, <2>4 DEF Judged
  <2>6. AtLine'
    BY <1>7, <2>5 DEF AtLine
  <2> QED BY <1>1, <1>6, <1>8, <1>10, <2>1, <2>6, FromCall
<1> QED BY <1>16, <1>17, <1>18

\* What is known when the body of a request is taken: it lies in the buffer, and
\* what Content-Length says is its length.
LEMMA BodyFacts ==
  ASSUME Loops, InBody
  PROVE  \E n \in Nat, m \in Nat :
           /\ Laid(n, m) /\ AtBody /\ HeadersTaken(n) /\ line_ptr = 2 * n + 3
           /\ \A v : TakenLength(v) => v = m
           /\ Missing(m) = m /\ Len(body) = 0 /\ To <= got /\ body = <<>>
<1> USE DEF REQ_LINE, HEADER, CONTENT, COMPLETE, ERROR
<1>1. /\ AllFramed /\ AtLine /\ Len(answers) < Len(script)
      /\ Buffered /\ rdbufsize = read_size /\ InHand \in Requests
      /\ Len(answers) + 1 \in DOMAIN script /\ TypeOK
  BY LoopFacts DEF Loops
<1>2. AtBody
  BY <1>1 DEF AtLine, AtFirstLine, AtHeader, Judged, Refused, InBody
<1>3. To <= got /\ body = <<>> /\ ~has_body /\ LineTaken
  BY <1>2 DEF AtBody, LineTaken
<1>4. PICK n \in Nat, m \in Nat : Laid(n, m)
  BY <1>1, <1>3, LaidOut
<1>5. Sized(InHand, n, m)
  BY <1>4 DEF Laid
<1>6. HeadersTaken(n) /\ line_ptr = 2 * n + 3
  BY <1>2, <1>5 DEF AtBody, Sized
<1>7. header_list = Reverse(InHand.headers)
  BY <1>1, <1>5, <1>6, KeptAll DEF HeadersTaken
<1>8. HasHeader(header_list, "Content-Length")
  BY <1>3 DEF Loops, BodyHeld, InBody
<1>9. Framed(InHand)
  BY <1>1 DEF AllFramed, InHand
<1>10. Len(InHand.body) = HeaderValue(header_list, "Content-Length")
  BY <1>7, <1>8, <1>9 DEF Framed
<1>11. \A v : TakenLength(v) => v = m
  <2>1. entry[1] # CONTENT
    BY LoopFacts DEF InCall
  <2>2. HeaderValue(header_list, "Content-Length") = m
    BY <1>5, <1>10 DEF Sized
  <2> QED BY <1>3, <2>1, <2>2 DEF TakenLength
<1>12. Len(body) = 0
  BY <1>3, EmptySeq
<1>13. Missing(m) = m
  <2>1. 2 * n + 3 + m <= rdbufsize /\ rdbufsize \in Nat /\ rdbufsize < BUF_SIZE
    BY <1>4, LoopFacts DEF Laid, Loops
  <2>2. m \in 0..SizeT-1 /\ SizeT \in Nat \ {0}
    BY <2>1, Constants
  <2>3. m - 0 = m
    OBVIOUS
  <2>4. m % SizeT = m
    BY <2>2, ModSmall
  <2> QED BY <1>12, <2>3, <2>4 DEF Missing
<1> QED BY <1>2, <1>3, <1>4, <1>6, <1>11, <1>12, <1>13

\* A body that has arrived is never taken in part, nothing is copied from behind
\* the buffer, and nothing to where there is no room.
LEMMA BodyThere ==
  ASSUME Loops
  PROVE  /\ \A v : ~PartOfBody(v)
         /\ ~CopiesTooFar /\ ~OverrunsBody
<1> SUFFICES ASSUME InBody
             PROVE  /\ \A v : ~PartOfBody(v)
                    /\ ~CopiesTooFar /\ ~OverrunsBody
  BY DEF PartOfBody, CopiesTooFar, OverrunsBody, TakenLength, Loops
<1>1. PICK n \in Nat, m \in Nat :
        /\ Laid(n, m) /\ line_ptr = 2 * n + 3 /\ Missing(m) = m /\ Len(body) = 0
        /\ \A v : TakenLength(v) => v = m
  BY BodyFacts
<1>2. /\ rdbufsize \in Nat /\ rdbufsize < BUF_SIZE /\ BUF_SIZE \in Nat /\ line_ptr \in Nat
      /\ TypeOK /\ entry[1] # CONTENT
  BY LoopFacts DEF Loops, InCall
<1>3. 2 * n + 3 + m <= rdbufsize
  BY <1>1 DEF Laid
<1>4. line_ptr <= rdbufsize
  BY <1>1, <1>2, <1>3
<1>5. Unread(line_ptr) = rdbufsize - line_ptr
  BY <1>2, <1>4, UnreadInside
<1>6. ~(Unread(line_ptr) < m) /\ ~(line_ptr + m > BUF_SIZE)
  BY <1>1, <1>2, <1>3, <1>5
<1>7. \A v : ~PartOfBody(v)
  BY <1>1, <1>6 DEF PartOfBody
<1>8. ~CopiesTooFar
  BY <1>1, <1>6 DEF CopiesTooFar, Loops
<1>9. ~(0 + Min({Unread(line_ptr), m}) > m + 2)
  <2>1. Unread(line_ptr) >= m /\ Unread(line_ptr) \in Nat
    BY <1>2, <1>4, <1>5, <1>6
  <2>2. Min({Unread(line_ptr), m}) = m
    <3> DEFINE S == {Unread(line_ptr), m}
    <3>1. m \in S /\ \A k \in S : m <= k
      BY <2>1
    <3>2. \A k \in S : (\A l \in S : k <= l) => k = m
      BY <2>1
    <3> QED BY <3>1, <3>2 DEF Min
  <2> QED BY <2>2
<1>10. ~OverrunsBody
  BY <1>1, <1>2, <1>9 DEF OverrunsBody
<1> QED BY <1>7, <1>8, <1>10

\* The body is what the client sent.
LEMMA RestOfBodyWhole ==
  ASSUME Loops, NEW v, RestOfBody(v)
  PROVE  WholeInv'
<1> USE DEF REQ_LINE, HEADER, CONTENT, COMPLETE, ERROR
<1>1. /\ InCall /\ rdbufsize < BUF_SIZE /\ InHand \in Requests
      /\ WholeInv /\ ~is_pipe /\ pc = "line" /\ rdbufsize \in Nat /\ BUF_SIZE \in Nat
  BY LoopFacts DEF Loops
<1>2. PICK n \in Nat, m \in Nat :
        /\ Laid(n, m) /\ AtBody /\ HeadersTaken(n) /\ line_ptr = 2 * n + 3
        /\ v = m /\ Missing(m) = m /\ To <= got /\ body = <<>>
  BY BodyFacts DEF RestOfBody, TakenLength
<1>3. UNCHANGED <<clientVars, connVars, rdbufsize, histVars>>
  BY DEF RestOfBody, TakesBody
<1>4. /\ InHand' = InHand /\ To' = To /\ From' = From /\ got' = got /\ InCall'
      /\ rdbufsize' = rdbufsize
  BY <1>1, <1>3, SameCall DEF RestOfBody, TakesBody
<1>5. /\ linetype' = COMPLETE /\ pc' = "line" /\ line_ptr' = 2 * n + 3 + m
      /\ UNCHANGED <<stucode, mtdcode, header_list, lineptr>>
      /\ body' = body \o Copied(m)
  BY <1>1, <1>2 DEF RestOfBody, TakesBody
<1>6. 2 * n + 3 + m <= rdbufsize /\ To - From = 2 * n + 3 + m /\ Sized(InHand, n, m)
  BY <1>2 DEF Laid
<1>7. line_ptr' <= BUF_SIZE /\ line_ptr' <= rdbufsize
  BY <1>1, <1>5, <1>6
<1>8. body' = InHand.body
  <2>1. InHand.body \in Seq(Symbols) /\ Len(InHand.body) = m
    BY <1>1, <1>6 DEF Requests, Sized
  <2>2. ASSUME NEW i \in 1..m
        PROVE  (IF line_ptr + i - 1 < BUF_SIZE THEN buf[line_ptr + i - 1] ELSE Junk)
                 = InHand.body[i]
    <3>1. line_ptr + i - 1 < BUF_SIZE /\ line_ptr + i - 1 = 2 * n + 2 + i
      BY <1>1, <1>2, <1>6
    <3>2. buf[2 * n + 2 + i] = InHand.body[i]
      BY <1>2 DEF Laid
    <3> QED BY <3>1, <3>2
  <2>3. Copied(m) = [i \in 1..m |-> InHand.body[i]]
    BY <2>2 DEF Copied
  <2>4. InHand.body = [i \in 1..m |-> InHand.body[i]]
    BY <2>1, LenProperties
  <2>5. body' = <<>> \o InHand.body
    BY <1>2, <1>5, <2>3, <2>4
  <2> QED BY <2>1, <2>5, ConcatEmptySeq
<1>9. header_list = Kept(InHand, n) /\ header_list = Reverse(InHand.headers)
  BY <1>1, <1>2, <1>6, KeptAll DEF HeadersTaken
<1>10. /\ LineKnown(InHand) =>
            stucode = "OK" /\ mtdcode = InHand.line.name /\ PassesAsWellFormed(InHand)
       /\ ~LineKnown(InHand) => stucode # "OK"
  BY <1>2 DEF AtBody, LineTaken
<1>11. FitsAs(Answered, InHand)'
  <2>1. CASE PassesAsWellFormed(InHand)
    <3>1. LineKnown(InHand)
      BY <2>1 DEF PassesAsWellFormed, Complete, LineKnown
    <3>2. Answered' = [status |-> "OK", method |-> InHand.line.name,
                       headers |-> Reverse(InHand.headers), body |-> InHand.body]
      BY <1>5, <1>8, <1>9, <1>10, <3>1 DEF Answered
    <3> QED BY <1>4, <2>1, <3>2 DEF FitsAs, Served
  <2>2. CASE ~PassesAsWellFormed(InHand)
    <3>1. stucode' # "OK"
      BY <1>5, <1>10, <2>2
    <3> QED BY <1>4, <2>2, <3>1 DEF FitsAs, Served, Answered
  <2> QED BY <2>1, <2>2
<1>12. Judged'
  BY <1>2, <1>4, <1>5, <1>6, <1>7, <1>11 DEF Judged
<1>13. AtLine'
  BY <1>4, <1>12 DEF AtLine
<1> QED BY <1>1, <1>3, <1>5, <1>7, <1>13, FromCall

\* The loop ends with a request that has been judged.
LEMMA LoopEndsWhole ==
  ASSUME Loops, LoopEnds
  PROVE  WholeInv'
<1> USE DEF REQ_LINE, HEADER, CONTENT, COMPLETE, ERROR
<1>1. InCall /\ AtLine /\ WholeInv /\ ~is_pipe /\ Inside /\ Len(answers) < Len(script)
  BY LoopFacts DEF Loops
<1>2. Judged \/ Refused
  BY <1>1 DEF LoopEnds, AtLine, AtFirstLine, AtHeader, AtBody
<1>3. /\ UNCHANGED <<clientVars, connVars, rdbufsize, histVars>>
      /\ UNCHANGED <<reqVars, line_ptr>>
  BY DEF LoopEnds
<1>4. UNCHANGED <<linetype, stucode, mtdcode, header_list, lineptr, body, line_ptr>>
  BY <1>3 DEF reqVars
<1>5. /\ InHand' = InHand /\ To' = To /\ From' = From /\ got' = got /\ InCall'
      /\ rdbufsize' = rdbufsize /\ (Len(answers) < Len(script))'
  BY <1>1, <1>3, <1>4, SameCall
<1>6. line_ptr' <= BUF_SIZE
  BY <1>1, <1>4 DEF Inside
<1>7. CASE Judged
  <2>1. pc' = "finish"
    BY <1>7 DEF Judged, LoopEnds
  <2>2. Judged'
    BY <1>4, <1>5, <1>7 DEF Judged, FitsAs, Served, Answered
  <2> QED BY <1>1, <1>3, <1>4, <1>5, <1>6, <2>1, <2>2, FromCall DEF AtFinish
<1>8. CASE Refused
  <2>1. pc' = "process"
    BY <1>8 DEF Refused, LoopEnds
  <2>2. AtProcess'
    BY <1>4, <1>5, <1>8 DEF Refused, AtProcess, Settled, FitsAs, Served, Answered
  <2> QED BY <1>1, <1>3, <1>4, <1>6, <2>1, <2>2, FromCall
<1> QED BY <1>2, <1>7, <1>8

\* At the end of a call, what is behind the request is moved to the front: the
\* bytes that are left, for there are no more of them than the request has.
LEMMA FinishesWhole ==
  ASSUME TypeOK, WholeInv, ~is_pipe, FinishesParse
  PROVE  WholeInv'
<1> USE DEF REQ_LINE, HEADER, CONTENT, COMPLETE, ERROR
<1>1. /\ pc = "finish" /\ pc' = "process" /\ lineptr' = line_ptr /\ line_ptr' = line_ptr
      /\ read_size' = Unread(line_ptr)
      /\ buf' = IF line_ptr < rdbufsize THEN Moved(line_ptr) ELSE buf
      /\ UNCHANGED <<linetype, stucode, mtdcode, header_list, body, state, is_pipe>>
      /\ UNCHANGED <<clientVars, rdbufsize, histVars>>
  BY DEF FinishesParse
<1>2. AtFinish /\ Delivered /\ AllFramed /\ AnswersRight /\ Inside /\ state # "PARSED"
  BY <1>1 DEF WholeInv, ParsingHeld
<1>3. /\ InCall /\ Judged /\ Buffered /\ Len(answers) < Len(script)
      /\ rdbufsize = read_size /\ read_size = got - From /\ read_size < BUF_SIZE
  BY <1>2 DEF AtFinish, InCall, Buffered
<1>4. /\ line_ptr \in Nat /\ got \in Nat /\ From \in Nat /\ To \in Nat /\ Len(answers) \in Nat
      /\ Len(script) \in Nat /\ BUF_SIZE \in Nat
  BY <1>3, Extent, Constants DEF TypeOK
<1>5. To <= got /\ line_ptr <= rdbufsize /\ (stucode = "OK" => line_ptr = To - From)
  BY <1>3 DEF Judged
<1>6. /\ InHand' = InHand /\ To' = To /\ From' = From /\ got' = got /\ script' = script
      /\ answers' = answers /\ Stream' = Stream
  BY <1>1 DEF clientVars, histVars, InHand, To, From, Start, Stream
<1>7. read_size' = rdbufsize - line_ptr
  BY <1>1, <1>3, <1>4, <1>5, UnreadInside
<1>8. Settled'
  BY <1>1, <1>3, <1>6 DEF Judged, Settled, FitsAs, Served, Answered
<1>9. ASSUME stucode = "OK" PROVE read_size' = got - To /\ read_size' < BUF_SIZE /\ InPlace(To)'
  <2>1. line_ptr = To - From
    BY <1>5, <1>9
  <2>2. read_size' = got - To /\ read_size' < BUF_SIZE
    BY <1>3, <1>4, <1>7, <2>1
  <2>3. got - To <= To - From
    <3>1. PICK j \in Nat : j = Len(answers) + 1
      BY <1>4
    <3>2. j \in Len(answers)+1..Len(script) /\ j - 1 = Len(answers)
      BY <1>3, <1>4, <3>1
    <3>3. got - Start(j) <= Start(j) - Start(j - 1)
      BY <1>2, <3>2 DEF Delivered
    <3> QED BY <3>1, <3>2, <3>3 DEF To, From
  <2>4. ASSUME NEW i \in 0..got - To - 1 PROVE buf'[i] = Stream[To + i + 1]
    <3>1. /\ i < line_ptr /\ line_ptr < rdbufsize /\ line_ptr + i < BUF_SIZE
          /\ i \in 0..BUF_SIZE - 1
      BY <1>3, <1>4, <2>1, <2>3
    <3>2. buf' = Moved(line_ptr)
      BY <1>1, <3>1
    <3>3. i \in DOMAIN buf
      BY <3>1 DEF TypeOK
    <3>4. buf'[i] = buf[line_ptr + i]
      <4>1. ~(i >= line_ptr)
        BY <1>4, <3>1
      <4> QED BY <3>1, <3>2, <3>3, <4>1 DEF Moved
    <3>5. line_ptr + i \in 0..got - From - 1 /\ From + (line_ptr + i) + 1 = To + i + 1
      BY <1>3, <1>4, <2>1
    <3>6. buf[line_ptr + i] = Stream[From + (line_ptr + i) + 1]
      BY <1>3, <3>5 DEF Buffered, InPlace
    <3> QED BY <3>4, <3>5, <3>6
  <2>5. InPlace(To)'
    BY <1>6, <2>4 DEF InPlace
  <2> QED BY <2>2, <2>5
<1>10. AtProcess'
  <2>1. stucode = "OK" => (linetype = COMPLETE)'
    BY <1>1, <1>3 DEF Judged
  <2>2. stucode' = "OK" =>
          (linetype = COMPLETE)' /\ (read_size = got - To)' /\ (read_size < BUF_SIZE)' /\ InPlace(To)'
    BY <1>1, <1>6, <1>9, <2>1
  <2> QED BY <1>8, <2>2 DEF AtProcess
<1>11. AllFramed' /\ AnswersRight'
  BY <1>2, <1>6 DEF AllFramed, AnswersRight
<1>12. Inside'
  BY <1>1, <1>2 DEF Inside
<1>13. ChildHeld' /\ ParsingHeld'
  <2>1. Delivered'
    BY <1>2, <1>6 DEF Delivered, Start
  <2> QED BY <1>1, <1>2, <1>10, <2>1 DEF ChildHeld, ParsingHeld
<1> QED BY <1>11, <1>12, <1>13 DEF WholeInv

-----------------------------------------------------------------------------
(* process_connection, and the steps between two calls *)

\* A call that leaves the request open has left the buffer as it was.
LEMMA StaysParsingWhole ==
  ASSUME WholeInv, StaysParsing
  PROVE  WholeInv'
<1> USE DEF REQ_LINE, HEADER, CONTENT, COMPLETE, ERROR
<1>1. /\ pc = "process" /\ pc' = "select" /\ linetype < COMPLETE
      /\ UNCHANGED <<clientVars, connVars, reqVars, line_ptr, rdbufsize, histVars>>
  BY DEF StaysParsing
<1> USE DEF clientVars, connVars, reqVars, histVars
<1>2. ~is_pipe
  BY <1>1 DEF WholeInv, ChildHeld, Settled
<1>3. AtSelect /\ From < got
  BY <1>1, <1>2 DEF WholeInv, ParsingHeld, AtProcess, Settled
<1>4. From' = From /\ Stream' = Stream
  BY <1>1 DEF From, Start, Stream
<1>5. AtSelect'
  BY <1>1, <1>3, <1>4 DEF AtSelect, Buffered, InPlace, Untouched
<1>6. AllFramed' /\ AnswersRight' /\ Inside'
  BY <1>1 DEF WholeInv, AllFramed, AnswersRight, Inside
<1>7. ChildHeld' /\ ParsingHeld'
  <2>1. Delivered /\ state # "PARSED"
    BY <1>2 DEF WholeInv, ParsingHeld
  <2>2. Delivered'
    BY <1>1, <1>4, <2>1 DEF Delivered, Start
  <2> QED BY <1>1, <1>2, <1>5, <2>1, <2>2 DEF ChildHeld, ParsingHeld
<1> QED BY <1>6, <1>7 DEF WholeInv

\* A request that is done is settled.
LEMMA DoneSettled ==
  ASSUME WholeInv, Done
  PROVE  Settled
BY DEF WholeInv, Done, ChildHeld, ParsingHeld, AtProcess, AtSelect, Untouched,
       REQ_LINE, COMPLETE, ERROR

\* The child takes over with the request settled.
LEMMA AwaitsWhole ==
  ASSUME WholeInv, AwaitsCGI
  PROVE  WholeInv'
<1>1. /\ is_pipe' = TRUE /\ pc' = "select" /\ Done
      /\ UNCHANGED <<clientVars, buf, read_size, reqVars, line_ptr, rdbufsize, histVars>>
  BY DEF AwaitsCGI
<1>2. Settled
  BY <1>1, DoneSettled
<1> USE DEF clientVars, reqVars, histVars
<1>3. AllFramed' /\ AnswersRight' /\ Inside'
  BY <1>1 DEF WholeInv, AllFramed, AnswersRight, Inside
<1>4. Settled'
  BY <1>1, <1>2 DEF Settled, FitsAs, Served, Answered, InHand
<1> QED BY <1>1, <1>3, <1>4 DEF WholeInv, ChildHeld, ParsingHeld

\* One answer more.
LEMMA AnswerFollows ==
  ASSUME TypeOK, AnswersRight, Settled, answers' = Append(answers, Answered),
         UNCHANGED clientVars
  PROVE  /\ Len(answers') = Len(answers) + 1
         /\ AnswersRight' /\ (Delivered => Delivered') /\ From' = To
<1> USE DEF clientVars
<1>1. answers \in Seq(Answers) /\ Answered \in Answers /\ Len(answers) \in Nat
  BY AnsweredTypes, LenProperties DEF TypeOK
<1>2. PICK k \in Nat : k = Len(answers)
  BY <1>1
<1>3. /\ Len(answers') = k + 1 /\ answers' \in Seq(Answers)
      /\ \A i \in 1..k : answers'[i] = answers[i]
      /\ answers'[k + 1] = Answered
  BY <1>1, <1>2, AppendProperties
<1>4. Len(script) \in Nat /\ k < Len(script) /\ FitsAs(Answered, script[k + 1])
  <2>1. Len(script) \in Nat
    BY Starts DEF TypeOK
  <2> QED BY <1>2, <2>1 DEF Settled, InHand
<1>5. AnswersRight'
  <2>1. Len(answers') <= Len(script')
    BY <1>3, <1>4
  <2>2. DOMAIN answers' = 1..k + 1
    BY <1>3, LenProperties
  <2>3. \A i \in 1..k : FitsAs(answers[i], script[i])
    BY <1>1, <1>2, LenProperties DEF AnswersRight
  <2>4. ASSUME NEW i \in 1..k + 1 PROVE FitsAs(answers'[i], script[i])
    <3>1. CASE i \in 1..k
      BY <1>3, <2>3, <3>1
    <3>2. CASE i \notin 1..k
      <4>1. i = k + 1
        BY <3>2
      <4> QED BY <1>3, <1>4, <4>1
    <3> QED BY <3>1, <3>2
  <2>5. script' = script
    OBVIOUS
  <2>6. \A i \in DOMAIN answers' : FitsAs(answers'[i], script'[i])
    BY <2>2, <2>4, <2>5
  <2>7. Len(answers') <= Len(script') /\ \A i \in DOMAIN answers' : FitsAs(answers'[i], script'[i])
    BY <2>1, <2>6
  <2> QED BY <2>7 DEF AnswersRight, FitsAs, Served, PassesAsWellFormed, Complete
<1>6. Delivered => Delivered'
  <2>1. \A j \in Len(answers')+1..Len(script) : j \in Len(answers)+1..Len(script)
    BY <1>2, <1>3, <1>4
  <2> QED BY <2>1 DEF Delivered, Start, Stream
<1>7. From' = To
  BY <1>2, <1>3 DEF From, To, Start
<1> QED BY <1>2, <1>3, <1>5, <1>6, <1>7

\* The last answer of a connection.
LEMMA ClosesWhole ==
  ASSUME TypeOK, WholeInv, AnswersAndCloses
  PROVE  WholeInv'
<1>1. /\ answers' = Append(answers, Answered) /\ pc' = "closed" /\ Done /\ ~is_pipe
      /\ pc = "process"
      /\ UNCHANGED <<clientVars, connVars, reqVars, line_ptr>>
  BY DEF AnswersAndCloses, Done
<1>2. AnswersRight' /\ (Delivered => Delivered')
  BY <1>1, DoneSettled, AnswerFollows DEF WholeInv
<1> USE DEF clientVars, connVars, reqVars
<1>3. AllFramed' /\ Inside'
  BY <1>1 DEF WholeInv, AllFramed, Inside
<1> QED BY <1>1, <1>2, <1>3 DEF WholeInv, ChildHeld, ParsingHeld

\* An answer after which the connection waits for the next request, with what
\* came of it at the front of the buffer.
LEMMA KeepsWhole ==
  ASSUME TypeOK, WholeInv, AnswersAndKeeps
  PROVE  WholeInv'
<1> USE DEF REQ_LINE, HEADER, CONTENT, COMPLETE, ERROR
<1>1. /\ answers' = Append(answers, Answered) /\ pc' = "select" /\ Done /\ ~is_pipe
      /\ pc = "process" /\ stucode = "OK" /\ state' = "VACANT" /\ FreshRequest
      /\ UNCHANGED <<clientVars, is_pipe, buf, read_size, line_ptr>>
  BY DEF AnswersAndKeeps, Done
<1>2. AnswersRight' /\ (Delivered => Delivered') /\ From' = To /\ Settled
  BY <1>1, DoneSettled, AnswerFollows DEF WholeInv
<1>3. read_size = got - To /\ read_size < BUF_SIZE /\ InPlace(To) /\ Delivered
  BY <1>1 DEF WholeInv, ParsingHeld, AtProcess, AtSelect, Untouched, Done
<1> USE DEF clientVars
<1>4. Untouched'
  BY <1>1 DEF FreshRequest, Untouched
<1>5. Buffered'
  BY <1>1, <1>2, <1>3 DEF Buffered, InPlace, Stream
<1>6. AtSelect'
  BY <1>1, <1>4, <1>5 DEF AtSelect
<1>7. AllFramed' /\ Inside'
  BY <1>1 DEF WholeInv, AllFramed, Inside, FreshRequest
<1> QED BY <1>1, <1>2, <1>3, <1>6, <1>7 DEF WholeInv, ChildHeld, ParsingHeld

\* The child's answer.
LEMMA ChildEndsWhole ==
  ASSUME TypeOK, WholeInv, CGIEnds
  PROVE  WholeInv'
<1>1. /\ answers' = Append(answers, Answered) /\ pc' = "closed" /\ pc = "select"
      /\ state = "PARSED"
      /\ UNCHANGED <<clientVars, connVars, reqVars, line_ptr>>
  BY DEF CGIEnds
<1>2. is_pipe /\ Settled
  BY <1>1 DEF WholeInv, ParsingHeld, ChildHeld
<1>3. AnswersRight'
  BY <1>1, <1>2, AnswerFollows DEF WholeInv
<1> USE DEF clientVars, connVars, reqVars
<1>4. AllFramed' /\ Inside'
  BY <1>1 DEF WholeInv, AllFramed, Inside
<1> QED BY <1>1, <1>2, <1>3, <1>4 DEF WholeInv, ChildHeld, ParsingHeld

\* A call of parse_request for what lies in the buffer.
LEMMA CallStarts ==
  ASSUME CallsParser, Untouched, UNCHANGED reqVars,
         Buffered', (From < got)', (Len(answers) < Len(script))'
  PROVE  pc' = "line" /\ AtLine' /\ state' = "PARSING" /\ line_ptr' = 0
<1>1. /\ pc' = "line" /\ state' = "PARSING" /\ line_ptr' = 0 /\ rdbufsize' = read_size'
  BY DEF CallsParser, Untouched
<1>2. Untouched' /\ linetype' = REQ_LINE /\ lineptr' = NULL
  BY DEF Untouched, reqVars
<1>3. InCall'
  <2>1. entry' = <<linetype, read_size'>> /\ linetype = REQ_LINE
    BY DEF CallsParser, Untouched
  <2>2. entry'[1] # CONTENT
    BY <2>1 DEF REQ_LINE, CONTENT
  <2> QED BY <1>1, <1>2, <2>2 DEF InCall
<1>4. AtFirstLine'
  BY <1>1, <1>2 DEF AtFirstLine
<1> QED BY <1>1, <1>3, <1>4 DEF AtLine

\* What has come and is not answered belongs to a request.
LEMMA MoreToAnswer ==
  ASSUME TypeOK, AnswersRight, Delivered, From < got
  PROVE  Len(answers) < Len(script)
<1>1. /\ script \in Scripts /\ Len(answers) \in Nat /\ got \in Nat
      /\ Stream \in Seq(Symbols) /\ Len(Stream) \in Nat
  BY StreamTypes, LenProperties DEF TypeOK
<1>2. Len(script) \in Nat /\ Start(Len(script)) = Len(Stream)
  BY <1>1, Starts
<1>3. Len(answers) <= Len(script) /\ got <= Len(Stream)
  BY DEF AnswersRight, Delivered
<1>4. Len(answers) = Len(script) => From = Len(Stream)
  BY <1>2 DEF From
<1> QED BY <1>1, <1>2, <1>3, <1>4

\* Where parse_request goes on is inside the buffer.
LEMMA CallInside ==
  ASSUME Inside, CallsParser, UNCHANGED reqVars, BUF_SIZE \in Nat
  PROVE  Inside'
<1>1. pc' = "line" /\ lineptr' = lineptr
  BY DEF CallsParser, reqVars
<1>2. line_ptr' <= BUF_SIZE
  BY DEF CallsParser, Inside
<1> QED BY <1>1, <1>2 DEF Inside

\* A segment for a client that is served whole fits.
LEMMA SegmentFits ==
  ASSUME TypeOK, delivery = "whole", NEW n \in 1..Len(Stream), Arrives(n)
  PROVE  /\ n \in Nat /\ n > 0 /\ read_size \in Nat /\ BUF_SIZE \in Nat
         /\ read_size + n < BUF_SIZE /\ SizeAfter(n) = read_size + n
         /\ ~is_pipe /\ Len(answers) < Len(script)
<1>1. n \in Nat /\ n > 0
  <2>1. Stream \in Seq(Symbols)
    BY StreamTypes DEF TypeOK
  <2> QED BY <2>1, LenProperties
<1>2. read_size + n < BUF_SIZE /\ ~is_pipe /\ Len(answers) < Len(script)
  BY DEF Arrives, Delivers
<1>3. read_size \in Nat /\ BUF_SIZE \in Nat /\ SizeT \in Nat \ {0} /\ SizeT > BUF_SIZE
  BY Constants DEF TypeOK, Sizes
<1>4. read_size + n \in 0..SizeT - 1
  BY <1>1, <1>2, <1>3
<1>5. SizeAfter(n) = read_size + n
  BY <1>3, <1>4, ModSmall DEF SizeAfter
<1> QED BY <1>1, <1>2, <1>3, <1>5

\* It follows what is in the buffer.
LEMMA ReceivesWhole ==
  ASSUME TypeOK, WholeInv, delivery = "whole", NEW n \in 1..Len(Stream), Receives(n)
  PROVE  WholeInv'
<1>1. /\ n \in Nat /\ n > 0 /\ read_size \in Nat /\ BUF_SIZE \in Nat
      /\ read_size + n < BUF_SIZE /\ SizeAfter(n) = read_size + n
      /\ ~is_pipe /\ Len(answers) < Len(script)
  BY SegmentFits DEF Receives
<1>2. /\ pc = "select" /\ got + n <= Len(Stream) /\ Delivers(n)
      /\ got' = got + n /\ buf' = Filled(n) /\ read_size' = read_size + n
      /\ UNCHANGED <<script, delivery, left, is_pipe, reqVars, answers>>
      /\ CallsParser
  BY <1>1 DEF Receives, Arrives
<1>3. /\ AllFramed /\ AnswersRight /\ Inside /\ Buffered /\ Untouched
  BY <1>1, <1>2 DEF WholeInv, ParsingHeld, AtSelect
<1>4. got \in Nat /\ From \in Nat /\ read_size = got - From
  BY <1>1, <1>3, Extent DEF TypeOK, Buffered
<1>5. From' = From /\ Stream' = Stream /\ script' = script /\ answers' = answers
  BY <1>2 DEF From, Start, Stream
<1>6. InPlace(From)'
  <2>a. ASSUME \A i \in 0..got + n - From - 1 : Filled(n)[i] = Stream[From + i + 1]
        PROVE  InPlace(From)'
    <3>a. got' = got + n /\ buf' = Filled(n) /\ From' = From /\ Stream' = Stream
      BY <1>2, <1>5
    <3>1. ASSUME NEW i \in 0..got' - From' - 1 PROVE buf'[i] = Stream'[From' + i + 1]
      <4>1. i \in 0..got + n - From - 1
        <5>1. got' - From' - 1 = got + n - From - 1
          BY <1>1, <1>4, <3>a
        <5> QED BY <5>1
      <4>2. Filled(n)[i] = Stream[From + i + 1]
        BY <2>a, <4>1
      <4> QED BY <3>a, <4>2
    <3> QED BY <3>1 DEF InPlace
  <2> SUFFICES ASSUME NEW i \in 0..got + n - From - 1
               PROVE  Filled(n)[i] = Stream[From + i + 1]
    BY <2>a
  <2>1. i \in 0..BUF_SIZE - 1 /\ i \in DOMAIN buf
    BY <1>1, <1>4 DEF TypeOK
  <2>2. ReadOffset = read_size
    BY <1>1 DEF ReadOffset
  <2>3. Filled(n)[i] = IF i - read_size \in 0..n - 1
                       THEN Stream[got + 1 + i - read_size] ELSE buf[i]
    BY <2>1, <2>2 DEF Filled
  <2>4. CASE i < read_size
    <3>1. i - read_size \notin 0..n - 1 /\ i \in 0..got - From - 1
      BY <1>1, <1>4, <2>1, <2>4
    <3>2. buf[i] = Stream[From + i + 1]
      BY <1>3, <3>1 DEF Buffered, InPlace
    <3> QED BY <2>3, <3>1, <3>2
  <2>5. CASE ~(i < read_size)
    <3>1. i - read_size \in 0..n - 1 /\ got + 1 + i - read_size = From + i + 1
      BY <1>1, <1>4, <2>1, <2>5
    <3> QED BY <2>3, <3>1
  <2> QED BY <2>4, <2>5
<1>7. Buffered'
  <2>1. read_size' = got' - From' /\ read_size' < BUF_SIZE
    BY <1>1, <1>2, <1>4, <1>5
  <2> QED BY <1>6, <2>1 DEF Buffered
<1>8. Delivered'
  <2>1. /\ \E i \in 0..Len(script) : got + n \in {Start(i), Start(i) + 1}
        /\ \A j \in Len(answers)+1..Len(script) : got + n - Start(j) <= Start(j) - Start(j - 1)
    BY <1>2 DEF Delivers
  <2>2. \A i : Start(i)' = Start(i)
    BY <1>5 DEF Start
  <2>3. /\ got' <= Len(Stream')
        /\ \E i \in 0..Len(script') : got' \in {Start(i)', Start(i)' + 1}
        /\ \A j \in Len(answers')+1..Len(script') :
             got' - Start(j)' <= Start(j)' - Start(j - 1)'
    <3>1. got' = got + n /\ got + n <= Len(Stream) /\ Stream' = Stream /\ script' = script
            /\ answers' = answers
      BY <1>2, <1>5
    <3>2. got' <= Len(Stream')
      BY <3>1, Zenon
    <3>3. \E i \in 0..Len(script') : got' \in {Start(i)', Start(i)' + 1}
      BY <2>1, <2>2, <3>1, Zenon
    <3>4. ASSUME NEW j \in Len(answers')+1..Len(script')
          PROVE  got' - Start(j)' <= Start(j)' - Start(j - 1)'
      <4>1. j \in Len(answers)+1..Len(script)
        BY <3>1
      <4>2. got + n - Start(j) <= Start(j) - Start(j - 1)
        BY <2>1, <4>1
      <4>3. Start(j) \in Nat
        <5>1. script \in Scripts /\ Len(answers) \in Nat /\ j \in 0..Len(script)
          BY <4>1, Starts, LenProperties DEF TypeOK
        <5> QED BY <5>1, Starts
      <4>4. got' - Start(j) = got + n - Start(j)
        BY <1>1, <1>4, <3>1, <4>3
      <4> QED BY <2>2, <4>2, <4>4
    <3> QED BY <3>2, <3>3, <3>4
  <2> QED BY <2>3 DEF Delivered
<1>9. (From < got)' /\ (Len(answers) < Len(script))'
  BY <1>1, <1>2, <1>4, <1>5
<1>10. pc' = "line" /\ AtLine' /\ state' = "PARSING" /\ line_ptr' = 0
  BY <1>2, <1>3, <1>7, <1>9, CallStarts
<1>11. Inside'
  BY <1>1, <1>2, <1>3, CallInside
<1>12. AllFramed' /\ AnswersRight'
  BY <1>3, <1>5 DEF AllFramed, AnswersRight
<1> QED BY <1>1, <1>2, <1>8, <1>10, <1>11, <1>12 DEF WholeInv, ChildHeld, ParsingHeld

\* A call without new input.
LEMMA PassWhole ==
  ASSUME TypeOK, WholeInv, pc = "select", CallsParser, read_size' = read_size,
         read_size # 0 \/ state = "PARSING",
         UNCHANGED <<clientVars, is_pipe, buf, reqVars, answers>>
  PROVE  WholeInv'
<1> USE DEF clientVars
<1>1. AllFramed /\ AnswersRight /\ Inside
  BY DEF WholeInv
<1>2. Inside' /\ pc' = "line"
  BY <1>1, Constants, CallInside DEF CallsParser
<1>3. AllFramed' /\ AnswersRight'
  BY <1>1 DEF AllFramed, AnswersRight
<1>4. CASE is_pipe
  <2>1. Settled'
    BY <1>4 DEF WholeInv, ChildHeld, Settled, FitsAs, Served, Answered, InHand, reqVars
  <2> QED BY <1>2, <1>3, <1>4, <2>1 DEF WholeInv, ChildHeld, ParsingHeld
<1>5. CASE ~is_pipe
  <2>1. Delivered /\ AtSelect /\ Buffered /\ Untouched
    BY <1>5 DEF WholeInv, ParsingHeld, AtSelect
  <2>2. From < got
    <3>1. CASE state = "PARSING"
      BY <2>1, <3>1 DEF AtSelect
    <3>2. CASE read_size # 0
      <4>1. read_size \in Nat /\ read_size = got - From /\ got \in Nat
        BY <2>1 DEF TypeOK, Sizes, Buffered
      <4>2. From \in Nat
        <5>1. script \in Scripts /\ Len(answers) \in Nat
          BY LenProperties DEF TypeOK
        <5>2. Len(answers) \in 0..Len(script)
          BY <1>1, <5>1, Starts DEF AnswersRight
        <5> QED BY <5>1, <5>2, Starts DEF From
      <4> QED BY <3>2, <4>1, <4>2
    <3> QED BY <3>1, <3>2
  <2>3. Len(answers) < Len(script)
    BY <1>1, <2>1, <2>2, MoreToAnswer
  <2>4. From' = From /\ Stream' = Stream
    BY DEF From, Start, Stream
  <2>5. Buffered' /\ (From < got)' /\ (Len(answers) < Len(script))' /\ Delivered'
    BY <2>1, <2>2, <2>3, <2>4 DEF Buffered, InPlace, Delivered, Start
  <2>6. AtLine' /\ state' = "PARSING"
    BY <2>1, <2>5, CallStarts
  <2> QED BY <1>2, <1>3, <1>5, <2>5, <2>6 DEF WholeInv, ChildHeld, ParsingHeld
<1> QED BY <1>4, <1>5

\* The connection is closed after a read that failed; the request stays as it is.
LEMMA EndOfFileWhole ==
  ASSUME TypeOK, WholeInv, EndOfFile
  PROVE  WholeInv'
<1>1. /\ pc = "select" /\ read_size' = read_size
      /\ UNCHANGED <<clientVars, is_pipe, buf, reqVars, answers>>
  BY DEF EndOfFile, ReadFailed
<1>2. CASE read_size = 0
  <2>1. pc' = "closed" /\ UNCHANGED <<state, line_ptr>>
    BY <1>2 DEF EndOfFile, ReadFailed
  <2> USE DEF clientVars, reqVars
  <2>2. AllFramed' /\ AnswersRight' /\ Inside'
    BY <1>1, <2>1 DEF WholeInv, AllFramed, AnswersRight, Inside
  <2>3. Delivered => Delivered'
    BY <1>1 DEF Delivered, Start, Stream
  <2> QED BY <1>1, <2>1, <2>2, <2>3 DEF WholeInv, ChildHeld, ParsingHeld
<1>3. CASE read_size # 0
  <2>1. CallsParser
    BY <1>3 DEF EndOfFile, ReadFailed
  <2> QED BY <1>1, <1>3, <2>1, PassWhole
<1> QED BY <1>2, <1>3

\* A step that the request does not see.
LEMMA LeavesWhole ==
  ASSUME WholeInv, Leaves \/ UNCHANGED vars
  PROVE  WholeInv'
<1> USE DEF connVars, reqVars, histVars, localVars
<1>1. UNCHANGED <<script, delivery, got, connVars, reqVars, localVars, histVars>>
  BY DEF Leaves, vars, clientVars
<1>2. /\ From' = From /\ To' = To /\ InHand' = InHand /\ Stream' = Stream
      /\ Answered' = Answered
  BY <1>1 DEF From, To, InHand, Start, Stream, Answered
<1>3. AllFramed' /\ AnswersRight' /\ Inside'
  BY <1>1 DEF WholeInv, AllFramed, AnswersRight, Inside
<1>4. /\ Delivered => Delivered'
      /\ Settled => Settled'
      /\ Untouched => Untouched'
      /\ Buffered => Buffered'
      /\ LineTaken => LineTaken'
      /\ \A j \in Nat : HeadersTaken(j) => HeadersTaken(j)'
  BY <1>1, <1>2 DEF Delivered, Start, Settled, FitsAs, Served, Untouched, Buffered, InPlace, LineTaken,
                    HeadersTaken, Answered, LineKnown
<1>5. AtSelect => AtSelect'
  BY <1>1, <1>2, <1>4 DEF AtSelect
<1>6. InCall => InCall'
  BY <1>1, <1>2, <1>4 DEF InCall
<1>7. Judged => Judged'
  BY <1>1, <1>2 DEF Judged, FitsAs, Served
<1>8. AtLine => AtLine'
  <2>1. AtFirstLine => AtFirstLine'
    BY <1>1, <1>4 DEF AtFirstLine
  <2>2. \A j \in Nat : AtHeader(j) => AtHeader(j)'
    BY <1>1, <1>2, <1>4 DEF AtHeader
  <2>3. AtBody => AtBody'
    BY <1>1, <1>2 DEF AtBody, LineTaken, HeadersTaken, LineKnown, PassesAsWellFormed, Complete
  <2>4. Refused => Refused'
    BY <1>1, <1>2 DEF Refused, PassesAsWellFormed, Complete
  <2> QED BY <1>6, <1>7, <2>1, <2>2, <2>3, <2>4 DEF AtLine
<1>9. AtProcess => AtProcess'
  BY <1>1, <1>2, <1>4, <1>5 DEF AtProcess, InPlace
<1> QED BY <1>1, <1>3, <1>4, <1>5, <1>6, <1>7, <1>8, <1>9
        DEF WholeInv, ChildHeld, ParsingHeld, AtFinish

-----------------------------------------------------------------------------
(* Every step, and what follows *)

\* parse_request does nothing to a request whose child runs.
LEMMA ChildLoop ==
  ASSUME TypeOK, WholeInv, is_pipe, ParseRequest
  PROVE  WholeInv'
<1> USE DEF REQ_LINE, HEADER, CONTENT, COMPLETE, ERROR
<1>1. AllFramed /\ AnswersRight /\ Inside
  BY DEF WholeInv
<1>2. pc \in {"line", "finish"}
  BY DEF ParseRequest, NoLine, RunsOff, LoopEnds, FinishesParse, EmptyLine, RequestLine,
         WritesLiteral, HeaderLine, TakesLine, PartOfBody, RestOfBody, CopiesTooFar,
         OverrunsBody, TakenLength, InBody
<1>3. Settled /\ linetype \in {COMPLETE, ERROR}
  BY <1>2 DEF WholeInv, ChildHeld, Settled
<1>4. ~CopiesTooFar /\ ~OverrunsBody
  <2>1. ~InBody /\ \A v : ~TakenLength(v)
    BY <1>3 DEF InBody, TakenLength
  <2>2. line_ptr \in Nat /\ BUF_SIZE \in Nat /\ ~(line_ptr > BUF_SIZE)
    BY <1>1, Constants DEF Inside, TypeOK
  <2> QED BY <2>1, <2>2 DEF CopiesTooFar, OverrunsBody
<1>5. LoopEnds \/ FinishesParse
  BY <1>3, <1>4 DEF ParseRequest, NoLine, RunsOff, EmptyLine, RequestLine,
                    WritesLiteral, HeaderLine, TakesLine, PartOfBody, RestOfBody,
                    TakenLength, InBody
<1>6. /\ UNCHANGED <<script, answers, linetype, stucode, mtdcode, header_list, body>>
      /\ line_ptr' = line_ptr /\ is_pipe' = is_pipe /\ lineptr' \in {lineptr, line_ptr}
      /\ pc' \in {"process", "finish"}
  BY <1>5 DEF LoopEnds, FinishesParse, clientVars, connVars, reqVars, histVars
<1>7. Settled'
  BY <1>3, <1>6 DEF Settled, FitsAs, Served, Answered, InHand
<1>8. AllFramed' /\ AnswersRight'
  BY <1>1, <1>6 DEF AllFramed, AnswersRight
<1>9. Inside'
  BY <1>1, <1>6 DEF Inside
<1> QED BY <1>6, <1>7, <1>8, <1>9 DEF WholeInv, ChildHeld, ParsingHeld

\* parse_request, for a client that is served whole.
LEMMA ParseWhole ==
  ASSUME TypeOK, BodyHeld, WholeInv, ParseRequest
  PROVE  WholeInv'
<1>1. CASE is_pipe
  BY <1>1, ChildLoop
<1>2. CASE ~is_pipe /\ pc = "finish"
  <2>1. ~CopiesTooFar /\ ~OverrunsBody
    <3>1. InCall /\ Judged
      BY <1>2 DEF WholeInv, ParsingHeld, AtFinish
    <3>2. line_ptr <= rdbufsize
      BY <3>1 DEF Judged
    <3>3. rdbufsize < BUF_SIZE /\ rdbufsize \in Nat /\ line_ptr \in Nat /\ BUF_SIZE \in Nat
      BY <3>1, Constants DEF InCall, Buffered, TypeOK, Sizes
    <3> QED BY <1>2, <3>2, <3>3 DEF CopiesTooFar, OverrunsBody, TakenLength, InBody
  <2>2. FinishesParse
    BY <1>2, <2>1 DEF ParseRequest, NoLine, RunsOff, LoopEnds, EmptyLine, RequestLine,
         WritesLiteral, HeaderLine, TakesLine, PartOfBody, RestOfBody,
                    TakenLength, InBody
  <2> QED BY <1>2, <2>2, FinishesWhole
<1>3. CASE ~is_pipe /\ pc # "finish"
  <2>1. pc = "line"
    BY <1>3 DEF ParseRequest, NoLine, RunsOff, LoopEnds, FinishesParse, EmptyLine, RequestLine,
         WritesLiteral, HeaderLine, TakesLine, PartOfBody, RestOfBody, CopiesTooFar,
         OverrunsBody, TakenLength, InBody
  <2>2. Loops
    BY <1>3, <2>1 DEF Loops
  <2>3. /\ ~RunsOff /\ ~CopiesTooFar /\ ~OverrunsBody /\ ~FinishesParse
        /\ \A v : ~PartOfBody(v)
    BY <1>3, <2>2, NeverRunsOff, BodyThere DEF FinishesParse
  <2>4. ASSUME NEW to \in LineEnds,
               \/ EmptyLine(to)
               \/ \E text \in Texts :
                    RequestLine(to, text) \/ WritesLiteral(to, text) \/ HeaderLine(to, text)
        PROVE  WholeInv'
    BY <2>2, <2>4, EmptyLineWhole, RequestLineWhole, WritesLiteralWhole, HeaderLineWhole
  <2> QED BY <2>2, <2>3, <2>4, NoLineWhole, LoopEndsWhole, RestOfBodyWhole DEF ParseRequest
<1> QED BY <1>1, <1>2, <1>3

\* What comes from the network, or from the child, for such a client.
LEMMA InputWhole ==
  ASSUME TypeOK, WholeInv, delivery = "whole", Input
  PROVE  WholeInv'
<1>1. ASSUME NEW n \in 1..Len(Stream), Receives(n) PROVE WholeInv'
  BY <1>1, ReceivesWhole
<1>2. ASSUME NEW n \in 1..Len(Stream), ReceivesTooMuch(n) PROVE FALSE
  <2>1. SizeAfter(n) >= BUF_SIZE /\ Arrives(n)
    BY <1>2 DEF ReceivesTooMuch
  <2>2. /\ n \in Nat /\ read_size \in Nat /\ BUF_SIZE \in Nat
        /\ read_size + n < BUF_SIZE /\ SizeAfter(n) = read_size + n
    BY <2>1, SegmentFits
  <2> QED BY <2>1, <2>2
<1>3. ~DamagesHeap
  <2> SUFFICES ASSUME DamagesHeap PROVE FALSE
    OBVIOUS
  <2>1. ~is_pipe /\ pc = "select" /\ read_size >= BUF_SIZE
    BY DEF DamagesHeap
  <2>2. read_size < BUF_SIZE
    BY <2>1 DEF WholeInv, ParsingHeld, AtSelect, Buffered
  <2> QED BY <2>1, <2>2, Constants DEF TypeOK, Sizes
<1>4. CASE OtherPass
  BY <1>4, PassWhole DEF OtherPass
<1> QED BY <1>1, <1>2, <1>3, <1>4, EndOfFileWhole, LeavesWhole, ChildEndsWhole DEF Input

\* process_connection, for such a client.
LEMMA ProcessWhole ==
  ASSUME TypeOK, WholeInv, Process
  PROVE  WholeInv'
BY StaysParsingWhole, AwaitsWhole, ClosesWhole, KeepsWhole DEF Process

\* How a client is served is settled when it connects.
LEMMA SameDelivery ==
  ASSUME [Next]_vars
  PROVE  delivery' = delivery
<1> USE DEF clientVars
<1>1. CASE Input
  BY <1>1 DEF Input, Receives, ReceivesTooMuch, Arrives, EndOfFile, DamagesHeap, OtherPass,
              Leaves, CGIEnds
<1>2. CASE ParseRequest
  BY <1>2 DEF ParseRequest, NoLine, RunsOff, LoopEnds, FinishesParse, EmptyLine, RequestLine,
              WritesLiteral, HeaderLine, PartOfBody, RestOfBody, CopiesTooFar,
              OverrunsBody, TakesBody
<1>3. CASE Process
  BY <1>3 DEF Process, StaysParsing, AwaitsCGI, AnswersAndCloses, AnswersAndKeeps
<1>4. CASE Terminating \/ UNCHANGED vars
  BY <1>4 DEF Terminating, vars
<1> QED BY <1>1, <1>2, <1>3, <1>4 DEF Next

\* Nothing has come of the first request.
LEMMA ServedInit == Init => ServedWhole
<1> SUFFICES ASSUME Init, delivery = "whole" PROVE WholeInv
  BY DEF ServedWhole
<1> USE DEF Init
<1>1. /\ script \in Scripts /\ Start(0) = 0 /\ Len(script) \in Nat
      /\ \A i \in 0..Len(script) : Start(i) \in Nat
      /\ \A i \in 0..Len(script) : \A j \in i..Len(script) : Start(i) <= Start(j)
  BY Starts
<1>2. Len(answers) = 0 /\ DOMAIN answers = {}
  BY EmptySeq
<1>3. AllFramed /\ AnswersRight
  BY <1>1, <1>2 DEF AllFramed, AnswersRight
<1>4. Inside
  BY Constants DEF Inside, NULL
<1>5. Delivered
  <2>1. Len(Stream) \in Nat
    BY <1>1, StreamTypes, LenProperties
  <2>2. \E i \in 0..Len(script) : got \in {Start(i), Start(i) + 1}
    BY <1>1
  <2>3. ASSUME NEW j \in 1..Len(script) PROVE got - Start(j) <= Start(j) - Start(j - 1)
    <3>1. /\ j - 1 \in 0..Len(script) /\ j \in 0..Len(script) /\ j \in j - 1..Len(script)
      BY <1>1
    <3>2. Start(j - 1) <= Start(j) /\ Start(j) \in Nat /\ Start(j - 1) \in Nat
      BY <1>1, <3>1
    <3> QED BY <3>2
  <2> QED BY <1>1, <1>2, <2>1, <2>2, <2>3 DEF Delivered
<1>6. AtSelect
  <2>1. From = 0
    BY <1>1, <1>2 DEF From
  <2>2. Buffered
    BY <2>1, Constants DEF Buffered, InPlace
  <2> QED BY <2>2 DEF AtSelect, Untouched
<1> QED BY <1>3, <1>4, <1>5, <1>6 DEF WholeInv, ChildHeld, ParsingHeld

\* Every step serves such a client as it should.
LEMMA ServedNext == ParserInv /\ ServedWhole /\ [Next]_vars => ServedWhole'
<1> SUFFICES ASSUME ParserInv, ServedWhole, [Next]_vars, delivery' = "whole" PROVE WholeInv'
  BY DEF ServedWhole
<1>1. TypeOK /\ BodyHeld /\ delivery = "whole" /\ WholeInv
  BY SameDelivery DEF ParserInv, ServedWhole
<1>2. CASE Terminating \/ UNCHANGED vars
  BY <1>1, <1>2, LeavesWhole DEF Terminating
<1> QED BY <1>1, <1>2, InputWhole, ParseWhole, ProcessWhole DEF Next

\* A client whose requests come whole has them taken in place and in order.
THEOREM ServedInvariant == Spec => []ServedWhole
BY ServedInit, ServedNext, ParserInvariant, PTL DEF Spec

\* Each of its requests, however many come in a row, is answered in its turn: a
\* well-formed one as what it is, with its own headers and body, a malformed one
\* with an error unless it passes as well-formed.
THEOREM AnswersAlwaysFit == Spec => []AnswersFit
<1>1. \A a, q : FitsAs(a, q) => Fits(a, q)
  BY DEF FitsAs, Fits, WellFormed, PassesAsWellFormed, Complete
<1>2. ServedWhole => AnswersFit
  BY <1>1 DEF ServedWhole, WholeInv, AnswersRight, AnswersFit
<1> QED BY <1>2, ServedInvariant, PTL

\* Between two calls the buffer starts with what is not answered yet.
THEOREM BufferAlwaysIsStream == Spec => []BufferIsStream
<1>1. TypeOK /\ ServedWhole => BufferIsStream
  <2> SUFFICES ASSUME ServedWhole, TypeOK, delivery = "whole", pc = "select", ~is_pipe
               PROVE  /\ read_size = got - From
                      /\ \A i \in 0..read_size-1 : buf[i] = Stream[From + i + 1]
    BY DEF BufferIsStream, From
  <2>1. read_size = got - From /\ InPlace(From)
    BY DEF ServedWhole, WholeInv, ParsingHeld, AtSelect, Buffered
  <2> QED BY <2>1 DEF InPlace
<1> QED BY <1>1, ServedInvariant, TypeCorrect, PTL

\* find_token and the copies stay in the buffer, and the process dies of a uri
\* without "/" only.
THEOREM WholeAlwaysInside == Spec => []WholeStaysInside
<1>1. ServedWhole => WholeStaysInside
  BY DEF ServedWhole, WholeInv, Inside, WholeStaysInside
<1> QED BY <1>1, ServedInvariant, PTL

=============================================================================
