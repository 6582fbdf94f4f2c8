-------------------------------- MODULE MCWorker --------------------------------
(***************************************************************************)
(* Instances for TLC of the parts that overlapping calls of one worker or  *)
(* one panel bear upon: the runtime's preferences, the key session, the    *)
(* recents, the image requests and the buffered navigation.  They share no *)
(* variable, so a behaviour exercises one part and the others stay at one  *)
(* initial state: their states add up and do not multiply.                 *)
(***************************************************************************)
EXTENDS InteropRuntime, KeySession, RecentHistory, ImageRequests, BufferedNavigation, TLC

CONSTANTS Parts, Calls

VARIABLE part

vars == <<part, rtVars, ksVars, rhVars, imVars, bnVars>>

\* The selections of one part and the items of another are the same model values.
Symmetry == Permutations(Calls) \cup Permutations(Items)

RestingRuntime == RtInit /\ used = 0 /\ prefs.provider = LocalProvider
RestingHistory == RhInit /\ settings = CHOOSE policy \in Policies : TRUE
RestingNavigation ==
  /\ BnInit /\ trail = CHOOSE t \in Trails : TRUE
  /\ shown = CHOOSE url \in Urls : TRUE
  /\ radius = CHOOSE n \in Radii : TRUE

Init ==
  /\ part \in Parts
  /\ IF part = "runtime" THEN RtInit ELSE RestingRuntime
  /\ IF part = "history" THEN RhInit ELSE RestingHistory
  /\ IF part = "navigation" THEN BnInit ELSE RestingNavigation
  /\ KsInit /\ ImInit

Next ==
  /\ UNCHANGED part
  /\ \/ part = "runtime" /\ RtNext /\ UNCHANGED <<ksVars, rhVars, imVars, bnVars>>
     \/ part = "keys" /\ KsNext /\ UNCHANGED <<rtVars, rhVars, imVars, bnVars>>
     \/ part = "history" /\ RhNext /\ UNCHANGED <<rtVars, ksVars, imVars, bnVars>>
     \/ part = "images" /\ ImNext /\ UNCHANGED <<rtVars, ksVars, rhVars, bnVars>>
     \/ part = "navigation" /\ BnNext /\ UNCHANGED <<rtVars, ksVars, rhVars, imVars>>

Spec == Init /\ [][Next]_vars

\* The part that a behaviour exercises keeps the types of its state: the preferences
\* and dispatches, the session with its storage operations, the recents and their
\* writes, the caches and fetches of images, the window and the requests for it.
TypeOK ==
  /\ part = "runtime" => RtTypeOK
  /\ part = "keys" => KsTypeOK
  /\ part = "history" => RhTypeOK
  /\ part = "images" => ImTypeOK
  /\ part = "navigation" => BnTypeOK

-------------------------------------------------------------------------------
\* Two pages of two sites; a pin replaces the oldest of two, or the oldest of two
\* is dropped.
SiteOfPage == "page1" :> "site1" @@ "page2" :> "site2"
TwoPolicies == {[overflow |-> "auto-pin", limit |-> 1, retained |-> 1],
                [overflow |-> "drop-oldest", limit |-> 2, retained |-> 2]}
\* Images: one url in both budgets, with and without a referrer.
HalfAndWhole == "thumbnail" :> 1 @@ "display" :> 2
Key(budget, referrer) == [url |-> "url", budget |-> budget, referrer |-> referrer]
OneUrl == {Key("thumbnail", "none"), Key("display", "none"), Key("display", "page")}

\* Two trails: neighbours that failed before behind, and ahead one that loads after
\* its probe, one that is known but does not decode, one that is absent; or the
\* nearest ahead failed before and those behind are absent.
TwoTrails ==
  {[failed |-> {-3, -2, -1}, known |-> {2}, absent |-> {3}, broken |-> {2}],
   [failed |-> {1}, known |-> {}, absent |-> {-3, -2, -1}, broken |-> {}]}
===============================================================================
