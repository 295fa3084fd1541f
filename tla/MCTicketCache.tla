--------------------------- MODULE MCTicketCache ---------------------------
(* Small instances of TicketCache: tickets issued early, later and in the  *)
(* future, and one without an envelope.                                    *)
EXTENDS TicketCache

CONSTANTS k1, early, late, future, opaque

MCIssueOf == [s \in Tickets |-> CASE s = early -> 1
                                  [] s = late -> 2
                                  [] s = future -> 4
                                  [] OTHER -> 0]
=============================================================================
