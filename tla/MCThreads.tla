------------------------------ MODULE MCThreads ------------------------------
(* Three threads, two channels of one and of two messages.  The threads only  *)
(* send and receive, only call ports, use a protected value and join, or do   *)
(* some of each.                                                             *)
EXTENDS Threads, TLC

CONSTANTS t1, t2, t3, c1, c2

MCSize == c1 :> 1 @@ c2 :> 2

MCRoles ==
  {t1 :> {"send"} @@ t2 :> {"send"} @@ t3 :> {"recv"},
   t1 :> {"port"} @@ t2 :> {"port", "use"} @@ t3 :> {"use", "join"},
   t1 :> {"port", "send"} @@ t2 :> {"use", "recv"} @@ t3 :> {}}

==============================================================================
