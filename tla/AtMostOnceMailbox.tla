-------------------------- MODULE AtMostOnceMailbox --------------------------
(***************************************************************************)
(* What the relay of dns-messenger promises of the mailbox of a user, with *)
(* no chunk, no clock and no bound in sight:                               *)
(*                                                                         *)
(*   - a message enters a mailbox only if the relay does not remember      *)
(*     having taken it before, and enters at the end;                      *)
(*   - what a poll hands out is the oldest message that is still there;    *)
(*   - the relay may lose messages, but only the oldest of a mailbox, or   *)
(*     everything at once when it restarts;                                *)
(*   - it may forget that it took a message, but never with a poll.        *)
(*                                                                         *)
(* RelayMailbox implements this specification.                             *)
(***************************************************************************)
EXTENDS Integers, Sequences

CONSTANTS Users,      \* names, each with a mailbox
          Keys        \* what identifies a message: its sender and its id

VARIABLES box,        \* box[u]: the keys of the messages waiting for u
          settled,    \* the keys the relay remembers to have taken
          handed      \* the keys that a poll has handed out

vars == <<box, settled, handed>>

\* s is what is left of t after some of its oldest elements have gone.
Suffix(s, t) ==
  /\ Len(s) <= Len(t)
  /\ s = SubSeq(t, Len(t) - Len(s) + 1, Len(t))

\* The boxes of all users but u have at most lost their oldest messages.
OthersAge(u) == \A v \in Users \ {u} : Suffix(box'[v], box[v])

Init ==
  /\ box = [u \in Users |-> <<>>]
  /\ settled = {}
  /\ handed = {}

\* Message k is taken for u. The box may lose old messages, never k itself.
Take(u, k) ==
  /\ k \notin settled
  /\ box'[u] # <<>>
  /\ Suffix(box'[u], Append(box[u], k))
  /\ OthersAge(u)
  /\ settled' \subseteq settled \cup {k}
  /\ UNCHANGED handed

\* A poll hands out message k of u: the message before those that remain.
Hand(u, k) ==
  /\ Suffix(<<k>> \o box'[u], box[u])
  /\ OthersAge(u)
  /\ settled' = settled
  /\ handed' = handed \cup {k}

\* Old messages are dropped, or old memories.
Age ==
  /\ \A u \in Users : Suffix(box'[u], box[u])
  /\ settled' \subseteq settled
  /\ UNCHANGED handed

\* The relay restarts: it keeps everything in memory, so it loses everything.
Crash ==
  /\ box' = [u \in Users |-> <<>>]
  /\ settled' = {}
  /\ UNCHANGED handed

Next ==
  \/ \E u \in Users, k \in Keys : Take(u, k) \/ Hand(u, k)
  \/ Age
  \/ Crash

Spec == Init /\ [][Next]_vars
==============================================================================
