------------------------------ MODULE MCCgiPipes ------------------------------
(* Small instances of CgiPipes for TLC. *)
EXTENDS CgiPipes

Ask(method, lengths, error) == [method |-> method, lengths |-> lengths, error |-> error]
Script(before, reads, after) == [before |-> before, reads |-> reads, after |-> after]

\* Bodies smaller and larger than a pipe of 2, a second Content-Length header,
\* a body that is announced and not sent.
SmallRequests ==
  { Ask("POST", <<3>>, FALSE), Ask("POST", <<1, 2>>, FALSE), Ask("POST", <<1>>, TRUE) }

\* cgi_dumper.py and cgi_script.py print before they read.
SmallScripts ==
  { Script(3, "all", 0), Script(1, "length", 2), Script(0, "none", 1) }

=============================================================================
