------------------------ MODULE MCConciergeSession ------------------------
(* One session and two messages of people; one of them is owed an answer. *)
EXTENDS ConciergeSession

CONSTANTS a, b
MCMessages == {a, b}
MCPriority == {a, b}
MCDirect == {a}

=============================================================================
