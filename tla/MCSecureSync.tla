----------------------------- MODULE MCSecureSync -----------------------------
(* Instances of SecureSync for TLC: the messages Overlook may publish.     *)
EXTENDS SecureSync, TLC

Symmetry == Permutations(Calls)

\* Overlook's copy of a record: its revision and what it changed since the base.
Copy(revision, changed) ==
  [value |-> [f \in Fields |-> IF f \in DOMAIN changed THEN changed[f]
                               ELSE CASE f = "original" -> "unavailable"
                                      [] f = "deleted" -> Live
                                      [] OTHER -> "base"],
   revision |-> revision,
   fieldRevisions |-> [f \in Fields \ {"deleted"} |-> revision]]

Seen == [imageTrail |-> 1, overlook |-> 1]

Message(id, seq, r, readable, record) ==
  [id |-> id, seq |-> seq, r |-> r, readable |-> readable, record |-> record]

Same == Copy(INITIAL_REVISION, [f \in {} |-> "base"])

\* A later title, a deletion, a copy that equals the first review of a record
\* without an original (and reuses the first one's sequence), and an object that
\* does not open.
Renamed == Message(1, 1, 1, TRUE, Copy(Seen, [title |-> "other"]))
Removed == Message(2, 2, 1, TRUE, Copy(Seen, [deleted |-> "gone"]))
Unchanged == Message(3, 1, 1, TRUE, Same)
Foreign == Message(4, 2, 1, FALSE, Same)

CallMessages == {Unchanged}
InboxMessages == {Renamed, Removed, Unchanged}
LiveMessages == {Unchanged, Foreign}
===============================================================================
