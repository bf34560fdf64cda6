------------------------ MODULE ExclusiveProcessing ------------------------
(***************************************************************************)
(* What the locks of the asynchronous rule runner are for: records that    *)
(* touch a common user are never processed at the same time, except while  *)
(* the lease of that user has lapsed.  A record may be processed again     *)
(* after a run that was cut short, or even after a run that ended, as the  *)
(* queue delivers it at least once.                                        *)
(***************************************************************************)
CONSTANTS
  Worker,   \* who processes records
  Record,   \* the records to process
  User,
  Touches   \* the set of users that a record touches

VARIABLES
  running,  \* who is processing which record
  ran,      \* the records processed to the end at least once
  lapsed    \* the users that are not protected for the moment

vars == <<running, ran, lapsed>>

Common(p, q) == Touches[p[2]] \cap Touches[q[2]]

Excludes == \A p, q \in running : p # q => Common(p, q) \subseteq lapsed

Init == running = {} /\ ran = {} /\ lapsed = {}

Start(w, r) ==
  /\ \A p \in running : p[1] # w /\ Common(p, <<w, r>>) \subseteq lapsed
  /\ running' = running \cup {<<w, r>>}
  /\ UNCHANGED <<ran, lapsed>>

Finish(w, r) ==
  /\ <<w, r>> \in running
  /\ running' = running \ {<<w, r>>}
  /\ ran' = ran \cup {r}
  /\ UNCHANGED lapsed

Lapse(u) ==
  /\ lapsed' = lapsed \cup {u}
  /\ UNCHANGED <<running, ran>>

(* Users are protected again as soon as no two records share them.         *)
Recover == lapsed' \subseteq lapsed /\ Excludes'

Abort(w, r) ==
  /\ <<w, r>> \in running
  /\ running' = running \ {<<w, r>>}
  /\ UNCHANGED ran
  /\ Recover

Release == Recover /\ UNCHANGED <<running, ran>>

Next ==
  \/ \E w \in Worker, r \in Record : Start(w, r) \/ Finish(w, r) \/ Abort(w, r)
  \/ \E u \in User : Lapse(u)
  \/ Release

Spec == Init /\ [][Next]_vars
=============================================================================
