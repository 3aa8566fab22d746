----------------------------- MODULE MCLisoServer -----------------------------
(* Small instances of LisoServer for TLC. *)
EXTENDS LisoServer

\* What malloc may leave in pipe_fd: no bit in an fd_set, /dev/null, a
\* closed number.
AnyInt == {-1, 0, 12, 99}

\* A move of a client, a CGI child or a signal changes what the server's next
\* step reads.
BearsOnServer ==
  \/ pc = "select" \/ pc \in Stopped
  \/ pc = "loop" /\ liso_state' # liso_state
  \/ /\ pc = "visit" /\ iter # <<>>
     /\ LET c == Head(iter)
        IN conn_fd[c] \in readfds /\ (link'[c] # link[c] \/ inbox'[c] # inbox[c])
  \/ pc = "ssl_read" /\ (link'[cobjp] # link[cobjp] \/ inbox'[cobjp] # inbox[cobjp])
  \/ /\ pc = "cgi_read"
     /\ LET f == pipe_fd[cobjp]
        IN \/ Kind(f) = "pipe" /\ (child'[f] # child[f] \/ out'[f] # out[f])
           \/ /\ Kind(f) = "conn"
              /\ \E d \in {owner[f]} : link'[d] # link[d] \/ inbox'[d] # inbox[d]
  \/ pc = "write" /\ link'[cobjp] # link[cobjp]

\* Of the orders in which the server's steps and independent moves can come,
\* one is enough for the invariants: a move waits for the next select() or
\* for the step that reads it.
MoveWhenRead == (pc' = pc /\ iter' = iter) => BearsOnServer

=============================================================================
