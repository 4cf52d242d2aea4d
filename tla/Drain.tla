-------------------------------- MODULE Drain -------------------------------
(***************************************************************************)
(* What the gateway promises whoever waits for a drain, without routes,    *)
(* versions or counters.  A resource is an alias or a deployment.  New     *)
(* requests may start to use a resource only while it is open; a resource  *)
(* reported idle is used by nobody, and stays so until whoever was told    *)
(* lets it go.                                                             *)
(***************************************************************************)
EXTENDS FiniteSets

CONSTANTS Requests, Resources

VARIABLES
  open,   \* resources that routes may still hand out
  users,  \* requests that use each resource
  idle    \* resources reported idle and not let go yet

vars == <<open, users, idle>>

TypeOK ==
  /\ open \subseteq Resources /\ idle \subseteq Resources
  /\ users \in [Resources -> SUBSET Requests]

Init ==
  /\ open \in SUBSET Resources
  /\ users = [x \in Resources |-> {}]
  /\ idle = {}

\* Routes change, or the gateway forgets some it knew: nothing idle is opened.
Reroute ==
  /\ open' \in SUBSET (Resources \ idle)
  /\ UNCHANGED <<users, idle>>

\* A request starts to use some of the open resources.
Start(r) ==
  /\ \A x \in Resources : r \notin users[x]
  /\ \E X \in SUBSET open :
       users' = [x \in Resources |-> IF x \in X THEN users[x] \cup {r} ELSE users[x]]
  /\ UNCHANGED <<open, idle>>

\* Some requests end: one alone, or all of them with the process, which then has no routes.
End(R) ==
  /\ users' = [x \in Resources |-> users[x] \ R]
  /\ open' \in SUBSET open
  /\ UNCHANGED idle

\* The report, and its end.
Report(x) ==
  /\ x \notin open /\ users[x] = {}
  /\ idle' = idle \cup {x}
  /\ UNCHANGED <<open, users>>

LetGo == idle' \in SUBSET idle /\ UNCHANGED <<open, users>>

Next ==
  \/ LetGo \/ Reroute
  \/ \E r \in Requests : Start(r)
  \/ \E R \in SUBSET Requests : End(R)
  \/ \E x \in Resources : Report(x)

Spec == Init /\ [][Next]_vars

-----------------------------------------------------------------------------
\* What the observer relies on: a resource it was told is idle has no user, and no
\* route can give it one.
IdleMeansUnused == \A x \in idle : users[x] = {} /\ x \notin open
=============================================================================
