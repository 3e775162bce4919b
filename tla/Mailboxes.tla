------------------------------ MODULE Mailboxes ------------------------------
(***************************************************************************)
(* What thread channels promise: each holds up to its capacity of messages,  *)
(* and a receiver gets the oldest message of one of the channels it names.  *)
(***************************************************************************)
EXTENDS Integers, Sequences

CONSTANTS Channels, Capacity, Receivers, Values, Nothing

VARIABLES
  content,   \* of each channel, oldest message first
  got        \* the last message each receiver was given

vars == <<content, got>>

Init ==
  /\ content = [c \in Channels |-> <<>>]
  /\ got = [t \in Receivers |-> Nothing]

Put(c, m) ==
  /\ Len(content[c]) < Capacity[c]
  /\ content' = [content EXCEPT ![c] = Append(@, m)]
  /\ UNCHANGED got

Get(t, c) ==
  /\ content[c] # <<>>
  /\ content' = [content EXCEPT ![c] = Tail(@)]
  /\ got' = [got EXCEPT ![t] = Head(content[c])]

Next ==
  \E c \in Channels : (\E m \in Values : Put(c, m)) \/ (\E t \in Receivers : Get(t, c))

Spec == Init /\ [][Next]_vars
==============================================================================
