----------------------------- MODULE DrainProofs ----------------------------
(***************************************************************************)
(* What the observer of a drain relies on follows from Drain alone, for    *)
(* any requests and resources.                                             *)
(***************************************************************************)
EXTENDS Drain, TLAPS

\* Inductive with its types: nothing idle is opened, and only the open are used anew.
DrainInv == TypeOK /\ IdleMeansUnused

\* It holds at the start.
LEMMA DrainInit == Init => DrainInv
BY DEF Init, DrainInv, TypeOK, IdleMeansUnused

\* Every step preserves it.
LEMMA DrainStep == DrainInv /\ [Next]_vars => DrainInv'
<1> SUFFICES ASSUME DrainInv, [Next]_vars PROVE DrainInv'
  OBVIOUS
<1> USE DEF DrainInv, TypeOK, IdleMeansUnused
<1>1. CASE Reroute
  BY <1>1 DEF Reroute
<1>2. ASSUME NEW r \in Requests, Start(r) PROVE DrainInv'
  <2>1. PICK X \in SUBSET open :
          users' = [x \in Resources |-> IF x \in X THEN users[x] \cup {r} ELSE users[x]]
    BY <1>2 DEF Start
  <2>2. open' = open /\ idle' = idle
    BY <1>2 DEF Start
  <2> QED BY <2>1, <2>2
<1>3. ASSUME NEW R \in SUBSET Requests, End(R) PROVE DrainInv'
  BY <1>3 DEF End
<1>4. ASSUME NEW x \in Resources, Report(x) PROVE DrainInv'
  BY <1>4 DEF Report
<1>5. CASE LetGo
  BY <1>5 DEF LetGo
<1>6. CASE UNCHANGED vars
  BY <1>6 DEF vars
<1> QED BY <1>1, <1>2, <1>3, <1>4, <1>5, <1>6 DEF Next

\* A resource reported idle has no user and no route until it is let go: what the worker
\* stops a model on, proven for every number of requests, aliases and deployments.
THEOREM IdleIsUnused == Spec => []IdleMeansUnused
<1>1. DrainInv => IdleMeansUnused
  BY DEF DrainInv
<1> QED BY <1>1, DrainInit, DrainStep, PTL DEF Spec
=============================================================================
