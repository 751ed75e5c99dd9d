------------------------------- MODULE Thread -------------------------------
(***************************************************************************)
(* What a conversation promises its owner: exchanges.  A request adds its  *)
(* user turn once, while the server it reached answers no other request of *)
(* the conversation, and its reply right after that turn, or none at all.  *)
(* With one server, exchanges follow one another.                          *)
(***************************************************************************)
EXTENDS Sequences, Naturals

CONSTANTS
  Conv, Req,
  Server   \* the runtimes that may serve a conversation

VARIABLES
  thread,  \* the turns of each conversation, as <<request, kind>>
  asking   \* <<server, conversation>> -> the requests being answered

Init ==
  /\ thread = [c \in Conv |-> <<>>]
  /\ asking = [k \in Server \X Conv |-> {}]

Asked(c) == {thread[c][i][1] : i \in DOMAIN thread[c]}

Ask(r, s, c) ==
  /\ asking[<<s, c>>] = {}
  /\ r \notin Asked(c)
  /\ thread' = [thread EXCEPT ![c] = Append(@, <<r, "user">>)]
  /\ asking' = [asking EXCEPT ![<<s, c>>] = {r}]

Answer(r, s, c) ==
  /\ r \in asking[<<s, c>>]
  /\ Len(thread[c]) \in DOMAIN thread[c]
  /\ thread[c][Len(thread[c])] = <<r, "user">>
  /\ thread' = [thread EXCEPT ![c] = Append(@, <<r, "reply">>)]
  /\ asking' = [asking EXCEPT ![<<s, c>>] = {}]

GiveUp(r, s, c) ==
  /\ r \in asking[<<s, c>>]
  /\ asking' = [asking EXCEPT ![<<s, c>>] = {}]
  /\ UNCHANGED thread

Next ==
  \E r \in Req, s \in Server, c \in Conv :
    Ask(r, s, c) \/ Answer(r, s, c) \/ GiveUp(r, s, c)

Spec == Init /\ [][Next]_<<thread, asking>>
=============================================================================
