------------------------ MODULE LeaderElectionProofs ------------------------
(***************************************************************************)
(* Proofs about LeaderElection, for any set of pods and any naming: its    *)
(* type invariant, and that the lock is never contended.                   *)
(***************************************************************************)
EXTENDS LeaderElection, TLAPS

(* Kubernetes has no two living pods of one name. *)
NamesUnique ==
    \A p, q \in Pods : Alive(p) /\ Alive(q) /\ NameOf[p] = NameOf[q] => p = q

(* A lock is owned by a pod of the lock's own name. *)
OwnNames ==
    \A n \in Names : lock[n] # NoOwner => lock[n] \in Pods /\ NameOf[lock[n]] = n

LockInv == TypeOK /\ NamesUnique /\ OwnNames /\ NeverContended

(* A pod that was alive already, or goes, leaves the names unique. *)
LEMMA NamesStayUnique ==
    ASSUME LockInv, NEW p \in Pods, NEW ph \in Phases,
           phase' = [phase EXCEPT ![p] = ph],
           \/ ph \in {"absent", "gone"}
           \/ Alive(p)
           \/ \A q \in Pods : Alive(q) => NameOf[q] # NameOf[p]
    PROVE  NamesUnique'
<1>1. \A q \in Pods : q # p => phase'[q] = phase[q]
  BY DEF LockInv, TypeOK
<1>2. phase'[p] = ph
  BY DEF LockInv, TypeOK
<1> QED
  BY <1>1, <1>2 DEF LockInv, NamesUnique, Alive

(* Init establishes the invariant. *)
LEMMA LockInvInit == Init => LockInv
BY DEF Init, LockInv, TypeOK, NamesUnique, OwnNames, NeverContended, Alive, Phases

(* Every step keeps the invariant. *)
LEMMA LockInvStep ==
    ASSUME LockInv, [Next]_vars
    PROVE  LockInv'
<1> USE PodsAssumption
<1>n. \A p \in Pods : NameOf[p] \in Names
  BY DEF Names
<1>1. ASSUME NEW p \in Pods, StartPod(p) PROVE LockInv'
  <2>1. TypeOK'
    BY <1>1 DEF StartPod, LockInv, TypeOK, Phases
  <2>2. NamesUnique'
    BY <1>1, NamesStayUnique DEF StartPod, Phases
  <2>3. OwnNames' /\ NeverContended'
    BY <1>1 DEF StartPod, LockInv, TypeOK, OwnNames, NeverContended
  <2> QED
    BY <2>1, <2>2, <2>3 DEF LockInv
<1>2. ASSUME NEW p \in Pods, RestartContainer(p) PROVE LockInv'
  <2>1. TypeOK'
    BY <1>2 DEF RestartContainer, LockInv, TypeOK, Phases
  <2>2. NamesUnique'
    BY <1>2, NamesStayUnique DEF RestartContainer, Phases
  <2>3. OwnNames' /\ NeverContended'
    BY <1>2 DEF RestartContainer, LockInv, TypeOK, OwnNames, NeverContended
  <2> QED
    BY <2>1, <2>2, <2>3 DEF LockInv
<1>3. ASSUME NEW p \in Pods, DeletePod(p) PROVE LockInv'
  <2>1. TypeOK'
    BY <1>3 DEF DeletePod, LockInv, TypeOK, Phases
  <2>2. NamesUnique'
    BY <1>3, NamesStayUnique DEF DeletePod, Phases
  <2>3. OwnNames' /\ NeverContended'
    BY <1>3 DEF DeletePod, LockInv, TypeOK, OwnNames, NeverContended
  <2> QED
    BY <2>1, <2>2, <2>3 DEF LockInv
<1>4. ASSUME NEW n \in Names, GarbageCollect(n) PROVE LockInv'
  <2>1. TypeOK' /\ NamesUnique'
    BY <1>4 DEF GarbageCollect, LockInv, TypeOK, NamesUnique, Alive
  <2>2. OwnNames' /\ NeverContended'
    BY <1>4, <1>n DEF GarbageCollect, LockInv, TypeOK, OwnNames, NeverContended
  <2> QED
    BY <2>1, <2>2 DEF LockInv
<1>5. ASSUME NEW p \in Pods, FindOwner(p) PROVE LockInv'
  <2>1. TypeOK'
    BY <1>5 DEF FindOwner, LockInv, TypeOK, Phases
  <2>2. NamesUnique'
    BY <1>5, NamesStayUnique DEF FindOwner, Phases, Alive
  <2>3. OwnNames' /\ NeverContended'
    BY <1>5 DEF FindOwner, LockInv, TypeOK, OwnNames, NeverContended
  <2> QED
    BY <2>1, <2>2, <2>3 DEF LockInv
<1>6. ASSUME NEW p \in Pods, CheckLock(p) PROVE LockInv'
  <2>1. PICK ph \in {"running", "creating"} :
          /\ phase' = [phase EXCEPT ![p] = ph]
          /\ ph = "creating" => lock[NameOf[p]] = NoOwner
    BY <1>6, <1>n DEF CheckLock, Returns, LockInv, OwnNames
  <2>2. TypeOK'
    BY <1>6, <2>1 DEF CheckLock, Returns, LockInv, TypeOK, Phases
  <2>3. NamesUnique'
    BY <1>6, <2>1, NamesStayUnique DEF CheckLock, Phases, Alive
  <2>4. OwnNames' /\ NeverContended'
    BY <1>6, <2>1 DEF CheckLock, LockInv, TypeOK, OwnNames, NeverContended
  <2> QED
    BY <2>2, <2>3, <2>4 DEF LockInv
<1>7. ASSUME NEW p \in Pods, CreateLock(p) PROVE LockInv'
  <2>1. TypeOK'
    BY <1>7, <1>n DEF CreateLock, Returns, LockInv, TypeOK, Phases
  <2>2. NamesUnique'
    BY <1>7, NamesStayUnique DEF CreateLock, Returns, Phases, Alive
  <2>3. OwnNames'
    BY <1>7, <1>n DEF CreateLock, LockInv, TypeOK, OwnNames
  <2>4. NeverContended'
    <3> SUFFICES ASSUME NEW q \in Pods, phase'[q] = "creating"
                 PROVE  lock'[NameOf[q]] = NoOwner
      BY DEF NeverContended
    <3>1. q # p /\ phase[q] = "creating"
      BY <1>7 DEF CreateLock, Returns, LockInv, TypeOK
    <3>2. NameOf[q] # NameOf[p]
      BY <1>7, <3>1 DEF CreateLock, LockInv, NamesUnique, Alive
    <3> QED
      BY <1>7, <1>n, <3>1, <3>2
      DEF CreateLock, LockInv, TypeOK, NeverContended
  <2> QED
    BY <2>1, <2>2, <2>3, <2>4 DEF LockInv
<1>8. ASSUME NEW p \in Pods, BecomeFails(p) PROVE LockInv'
  <2>1. TypeOK'
    BY <1>8 DEF BecomeFails, Returns, LockInv, TypeOK, Phases
  <2>2. NamesUnique'
    BY <1>8, NamesStayUnique DEF BecomeFails, Returns, Phases, Alive
  <2>3. OwnNames' /\ NeverContended'
    BY <1>8 DEF BecomeFails, Returns, LockInv, TypeOK, OwnNames, NeverContended
  <2> QED
    BY <2>1, <2>2, <2>3 DEF LockInv
<1>9. CASE UNCHANGED vars
  BY <1>9
  DEF vars, LockInv, TypeOK, NamesUnique, OwnNames, NeverContended, Alive
<1> QED
  BY <1>1, <1>2, <1>3, <1>4, <1>5, <1>6, <1>7, <1>8, <1>9 DEF Next, Become

(* The phases of the pods, the owners of the locks and the way each pod came to
   lead are what Become (leader.go:52-140) can leave behind, for every set of
   pods and every naming. *)
THEOREM TypeCorrect == Spec => []TypeOK
<1>1. LockInv /\ [Next]_vars => LockInv'
  BY LockInvStep
<1>2. LockInv => TypeOK
  BY DEF LockInv
<1> QED
  BY <1>1, <1>2, LockInvInit, PTL DEF Spec

(* A pod that gets as far as creating its ConfigMap never finds one there
   (leader.go:107-128): the lock that Become takes excludes no other pod,
   however many pods there are and however they are named. *)
THEOREM LockIsNeverContended == Spec => []NeverContended
<1>1. LockInv /\ [Next]_vars => LockInv'
  BY LockInvStep
<1>2. LockInv => NeverContended
  BY DEF LockInv
<1> QED
  BY <1>1, <1>2, LockInvInit, PTL DEF Spec
=============================================================================
