---------------------------- MODULE ConnLifecycle ----------------------------
(***************************************************************************)
(* What the server promises about one client's connection, whatever the    *)
(* other connections, the descriptors and the select loop do: requests are *)
(* answered one at a time, an answer follows a request, and a connection   *)
(* that has been handed to a CGI child is only ever given back by closing. *)
(***************************************************************************)
CONSTANT Conn

VARIABLE phase

Phases == {"none", "idle", "receiving", "answering", "cgi", "cgi_answer",
           "closing"}

Edges == {<<"none", "idle">>,           \* create_connection
          <<"idle", "receiving">>,      \* the first bytes of a request
          <<"receiving", "answering">>, \* a static or an error response
          <<"answering", "idle">>,      \* sent, and kept alive
          <<"answering", "receiving">>, \* TLS sent nothing and more bytes came
          <<"receiving", "cgi">>,       \* the request starts a CGI child
          <<"cgi", "cgi_answer">>,      \* its output has been read
          <<"cgi_answer", "cgi">>}      \* it was empty and more bytes came

Closable == {"idle", "receiving", "answering", "cgi", "cgi_answer"}

Init == phase = [c \in Conn |-> "none"]

Step(c) ==
  \E p \in Phases :
    /\ \/ <<phase[c], p>> \in Edges
       \/ phase[c] \in Closable /\ p = "closing"
       \/ phase[c] = "closing" /\ p = "none"
    /\ phase' = [phase EXCEPT ![c] = p]

Next == \E c \in Conn : Step(c)

Spec == Init /\ [][Next]_phase

=============================================================================
