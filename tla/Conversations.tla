--------------------------- MODULE Conversations ----------------------------
(***************************************************************************)
(* What the session store promises of the conversations a user can list    *)
(* and open: each is opened once, under an id never used before, by the    *)
(* user it belongs to; it grows message by message, by its owner only; and *)
(* it disappears as a whole and for good.  Module Sessions implements it.  *)
(***************************************************************************)
EXTENDS Integers

CONSTANT Users

VARIABLES
  known,   \* ids handed out so far
  owner,   \* owner[s], for every id handed out
  talks    \* talks[s] is the set of messages of s, for every s that exists

Init ==
  /\ known \subseteq Nat
  /\ owner \in [known -> Users]
  /\ DOMAIN talks \subseteq known

\* A new id, for a conversation that is then there, or could not be stored.
Open(s, u) ==
  /\ s \notin known
  /\ known' = known \cup {s}
  /\ owner' = [i \in known \cup {s} |-> IF i = s THEN u ELSE owner[i]]
  /\ \/ talks' = [i \in DOMAIN talks \cup {s} |-> IF i = s THEN {} ELSE talks[i]]
     \/ UNCHANGED talks

\* A message says which request stored it, for which user.
Post(s, m) ==
  /\ s \in DOMAIN talks
  /\ m.by = owner[s]
  /\ talks' = [talks EXCEPT ![s] = @ \cup {m}]
  /\ UNCHANGED <<known, owner>>

\* One conversation is deleted, or several are purged.
Remove(S) ==
  /\ S \subseteq DOMAIN talks
  /\ talks' = [i \in DOMAIN talks \ S |-> talks[i]]
  /\ UNCHANGED <<known, owner>>

Next ==
  \/ \E s \in known' \ known : Open(s, owner'[s])
  \/ \E s \in DOMAIN talks' : \E m \in talks'[s] : Post(s, m)
  \/ Remove(DOMAIN talks \ DOMAIN talks')

Spec == Init /\ [][Next]_<<known, owner, talks>>
=============================================================================
