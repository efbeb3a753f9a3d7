------------------------------ MODULE EventFeed ------------------------------
(***************************************************************************)
(* What an outbox feed promises: published events are appended, once each,  *)
(* to one growing sequence, and a consumer's position only moves forward    *)
(* over events it has been given.                                           *)
(***************************************************************************)
EXTENDS Sequences, Integers

CONSTANTS Events, Readers

VARIABLES
    published,  \* events committed by their transaction
    feed,       \* the numbered events, in order
    position,   \* position[r]: events of the feed behind the reader's cursor
    given       \* given[r]: events handed to the reader

fvars == <<published, feed, position, given>>

Init ==
    /\ published = {}
    /\ feed = <<>>
    /\ position = [r \in Readers |-> 0]
    /\ given = [r \in Readers |-> {}]

Publish(x) ==
    /\ x \notin published
    /\ published' = published \cup {x}
    /\ UNCHANGED <<feed, position, given>>

\* A batch of published events, each new to the feed, goes to its end.
Extend ==
    /\ feed' # feed
    /\ Len(feed') >= Len(feed)
    /\ \A n \in 1 .. Len(feed) : feed'[n] = feed[n]
    /\ \A n \in 1 .. Len(feed') : feed'[n] \in published
    /\ \A m, n \in 1 .. Len(feed') : feed'[m] = feed'[n] => m = n
    /\ UNCHANGED <<published, position, given>>

\* The reader moves to n and has been given everything up to it.
Deliver(r, n) ==
    /\ n > position[r]
    /\ position' = [position EXCEPT ![r] = n]
    /\ given' = [given EXCEPT ![r] = @ \cup {feed[i] : i \in position[r] + 1 .. n}]
    /\ UNCHANGED <<published, feed>>

Next ==
    \/ \E x \in Events : Publish(x)
    \/ Extend
    \/ \E r \in Readers : \E n \in 1 .. Len(feed) : Deliver(r, n)

Spec == Init /\ [][Next]_fvars
=============================================================================
