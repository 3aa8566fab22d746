------------------------------ MODULE ParseResult ------------------------------
(***************************************************************************)
(* What one call of parse_request may do to a request, in the terms of     *)
(* run_liso: LisoServer uses it in place of the parser, HttpParser is the  *)
(* parser and shows that it does nothing else.                             *)
(***************************************************************************)

\* enum line_type, with the three values below COMPLETE taken together.
LineTypes == {"OPEN", "COMPLETE", "ERROR"}

\* What parse_request may leave in linetype and read_size, the size as 0 or
\* "not 0".  A request that is already complete is not parsed again, but
\* read_size is still reduced by what the first parse consumed, modulo the
\* width of size_t; an ERROR leaves read_size alone; an incomplete request
\* keeps its bytes, or gives them all to the message body.
ParseOutcome(lt, rs) ==
  IF lt = "OPEN"
  THEN {<<"OPEN", rs>>, <<"OPEN", 0>>, <<"COMPLETE", 0>>, <<"COMPLETE", 1>>,
        <<"ERROR", rs>>}
  ELSE IF lt = "COMPLETE" THEN {<<"COMPLETE", 0>>, <<"COMPLETE", 1>>}
  ELSE {<<"ERROR", rs>>}

\* What a read that succeeds may leave in read_size: a size that has wrapped
\* around may come back to 0.
ReadOutcome(rs) == IF rs = 0 THEN {1} ELSE {0, 1}

=============================================================================
