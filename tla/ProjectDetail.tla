--------------------------- MODULE ProjectDetail ---------------------------
(***************************************************************************)
(* What the page of one project knows of it (useProjectDetail and the      *)
(* panels that change members or the name): the reader's role, as the last *)
(* answer to arrive gave it.  Every change is followed by a refresh, and a *)
(* refresh takes the page away until an answer arrives: any answer, for    *)
(* nothing orders the answers of refreshes that overlap.                   *)
(***************************************************************************)
EXTENDS Naturals, FiniteSets

CONSTANTS
  MaxRefreshes,   \* GETs of the project, over all visits
  MaxRoleChanges  \* of the reader, made by others

Role == {"OWNER", "EDITOR", "VIEWER"}

ASSUME ProjectDetailAssumption == {MaxRefreshes, MaxRoleChanges} \subseteq Nat \ {0}

VARIABLES
  here,        \* whether ProjectPage is mounted
  loading,
  role,        \* as loaded, or "none": no project, an error
  gets,        \* GETs under way: [n, answer], unread until the server reads
  asked,       \* how many there were
  changes,     \* changes of members or of the name under way
  myRole,      \* the reader's role at the server
  reassigned,  \* how often others have changed it
  crossing     \* history: the page came back while another GET was under way

detailVars == <<here, loading, role, gets, asked, changes, myRole, reassigned, crossing>>

canEdit == role \in {"OWNER", "EDITOR"}
Shown == here /\ ~loading /\ role # "none"

DetailInit ==
  /\ here = TRUE /\ loading = TRUE /\ role = "none"
  /\ gets = {[n |-> 1, answer |-> "unread"]} /\ asked = 1 /\ changes = 0
  /\ myRole \in Role /\ reassigned = 0 /\ crossing = FALSE

Asks ==
  /\ asked < MaxRefreshes /\ asked' = asked + 1
  /\ gets' = gets \cup {[n |-> asked', answer |-> "unread"]}
  /\ crossing' = (gets # {})

RefreshUnderThePage == Asks /\ UNCHANGED loading

Refresh == Asks /\ loading' = TRUE

(* Invite, change a role, remove a member, rename: only an owner is offered  *)
(* these, one per member at a time.                                          *)
Change ==
  /\ Shown /\ role = "OWNER" /\ asked + changes < MaxRefreshes
  /\ changes' = changes + 1
  /\ UNCHANGED <<here, loading, role, gets, asked, myRole, reassigned, crossing>>

Changed ==
  /\ changes > 0 /\ changes' = changes - 1
  /\ Refresh
  /\ UNCHANGED <<here, role, myRole, reassigned>>

ChangeRefused ==
  /\ changes > 0 /\ changes' = changes - 1
  /\ UNCHANGED <<here, loading, role, gets, asked, myRole, reassigned, crossing>>

ReadDetail ==
  /\ \E g \in gets : g.answer = "unread" /\ gets' = (gets \ {g}) \cup {[g EXCEPT !.answer = myRole]}
  /\ UNCHANGED <<here, loading, role, asked, changes, myRole, reassigned, crossing>>

(* An answer; a 404, a failed request and a failed server all say none.     *)
Answered ==
  /\ \E g \in gets :
       /\ role' \in IF g.answer = "unread" THEN {"none"} ELSE {g.answer, "none"}
       /\ gets' = gets \ {g}
  /\ loading' = FALSE
  /\ UNCHANGED <<here, asked, changes, myRole, reassigned, crossing>>

Reassigned ==
  /\ reassigned < MaxRoleChanges /\ reassigned' = reassigned + 1
  /\ myRole' \in (Role \cup {"none"}) \ {myRole}
  /\ UNCHANGED <<here, loading, role, gets, asked, changes, crossing>>

(* Leaving for the list of projects; answers that arrive later reach nobody. *)
Leave ==
  /\ here /\ here' = FALSE
  /\ loading' = TRUE /\ role' = "none" /\ gets' = {} /\ changes' = 0 /\ crossing' = FALSE
  /\ UNCHANGED <<asked, myRole, reassigned>>

Return ==
  /\ ~here /\ here' = TRUE
  /\ Refresh
  /\ UNCHANGED <<role, changes, myRole, reassigned>>
=============================================================================
