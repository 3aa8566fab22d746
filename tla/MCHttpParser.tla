----------------------------- MODULE MCHttpParser -----------------------------
(* Small instances of HttpParser for TLC. *)
EXTENDS HttpParser

Host == Header("Host", 0)
Hosx == Header("Hosx", 0)
Close == Header("Connection", 1)
Length(n) == Header("Content-Length", n)

Request(first, fields, rest) == [line |-> first, headers |-> fields, body |-> rest]

Get == Request(Line("GET", FileUri), <<Host>>, <<>>)
GetBare == Request(Line("GET", FileUri), <<>>, <<>>)
GetHosx == Request(Line("HEAD", FileUri), <<Hosx>>, <<>>)
GetClose == Request(Line("GET", FileUri), <<Host, Close>>, <<>>)
GetCgi == Request(Line("GET", CgiUri), <<Host>>, <<>>)
GetRelative == Request(Line("GET", RelativeUri), <<Host>>, <<>>)
Put == Request(Line("PUT", FileUri), <<Host>>, <<>>)
Post(n, v) == Request(Line("POST", FileUri), <<Length(n), Host>>, [i \in 1..n |-> Byte(v + i)])
PostTwice == Request(Line("POST", CgiUri), <<Length(1), Host, Length(2)>>, <<Byte(1), Byte(2)>>)
PostBare == Request(Line("POST", FileUri), <<Host>>, <<>>)
NoRequest == Request(Host, <<Host>>, <<>>)
GetJunk == Request(Line("GET", FileUri), <<Host, Junk>>, <<>>)
\* Lengths for which malloc gives a byte, and nothing.
PostMinus(n) == Request(Line("POST", FileUri), <<Length(-n), Host>>, <<Byte(1), Byte(2)>>)
PostShort == Request(Line("POST", FileUri), <<Length(3), Host>>, <<Byte(1)>>)

SmallScripts ==
  { <<Get, Get>>, <<Get, GetHosx, GetClose>>, <<GetClose>>, <<Post(2, 0), Get>>,
    <<Post(2, 0), Post(2, 2)>>, <<Post(3, 0), Get, Post(1, 3)>>, <<Get, Post(0, 0)>>,
    <<Post(1, 0), GetCgi>>, <<PostTwice, Get>>, <<GetBare>>, <<GetRelative>>,
    <<Get, Put>>, <<PostBare>>, <<NoRequest>>,
    <<Get, GetJunk>>, <<PostShort, Get>>, <<PostMinus(1), Get>>, <<PostMinus(3)>>, <<Post(4, 0), Get, Get, GetHosx>> }

=============================================================================
