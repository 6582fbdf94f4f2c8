------------------------------ MODULE WholeObjects ------------------------------
(***************************************************************************)
(* What Move and Sync take the encrypted transport for: one object for     *)
(* each path, written and read whole.  A reader gets an object that was    *)
(* there while it read, or nothing.                                        *)
(***************************************************************************)
CONSTANTS Paths, Contents, Readers, PathRead

VARIABLES
  object,  \* object[p]: the object at path p
  reading  \* reading[r]: what a reader has found, or returned

NoObject == <<>>
NotRead == [state |-> "none", content |-> NoObject]

WoInit ==
  /\ object = [p \in Paths |-> NoObject]
  /\ reading = [r \in Readers |-> NotRead]

Write(p) ==
  /\ \E c \in Contents : object' = [object EXCEPT ![p] = c]
  /\ UNCHANGED reading

Find(r) ==
  /\ reading[r].state = "none" /\ object[PathRead[r]] # NoObject
  /\ reading' = [reading EXCEPT ![r] = [state |-> "found", content |-> object[PathRead[r]]]]
  /\ UNCHANGED object

Deliver(r) ==
  /\ reading[r].state = "found"
  /\ reading' = [reading EXCEPT ![r].state = "returned"]
  /\ UNCHANGED object

GiveUp(r) ==
  /\ reading' = [reading EXCEPT ![r] = NotRead]
  /\ UNCHANGED object

WoNext == (\E p \in Paths : Write(p)) \/ (\E r \in Readers : Find(r) \/ Deliver(r) \/ GiveUp(r))

WoVars == <<object, reading>>
WoSpec == WoInit /\ [][WoNext]_WoVars
===============================================================================
