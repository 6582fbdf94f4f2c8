----------------------------- MODULE MoveCustody ------------------------------
(***************************************************************************)
(* What a Move promises about each bookmark, whatever its journal, its     *)
(* transport and its acknowledgements do: the bookmark leaves this library *)
(* on the Move's account only after Overlook keeps it for good.            *)
(*                                                                         *)
(* The promise is deliberately silent on time and on the journal: the user *)
(* may delete a bookmark at any moment, and a later put may bring it back. *)
(***************************************************************************)
CONSTANT Records

VARIABLES
  home,  \* where a bookmark is: present, deleted by the user, or moved
  kept   \* the bookmarks Overlook keeps for good

Init ==
  /\ home = [r \in Records |-> "present"]
  /\ kept = {}

\* Overlook makes a bookmark durable, and never gives that up.
Keep(r) ==
  /\ kept' = kept \cup {r}
  /\ UNCHANGED home

\* The Move removes a bookmark that Overlook keeps.
Release(r) ==
  /\ home[r] = "present"
  /\ r \in kept
  /\ home' = [home EXCEPT ![r] = "moved"]
  /\ UNCHANGED kept

Discard(r) ==
  /\ home[r] = "present"
  /\ home' = [home EXCEPT ![r] = "deleted"]
  /\ UNCHANGED kept

PutBack(r) ==
  /\ home[r] # "present"
  /\ home' = [home EXCEPT ![r] = "present"]
  /\ UNCHANGED kept

Next == \E r \in Records : Keep(r) \/ Release(r) \/ Discard(r) \/ PutBack(r)

Spec == Init /\ [][Next]_<<home, kept>>

=============================================================================
