-------------------------- MODULE SessionStoreProofs --------------------------
(***************************************************************************)
(* Theorems about SessionStore, for any number of sessions and requests,   *)
(* any session lifetime and any length of run.                             *)
(***************************************************************************)
EXTENDS SessionStore, TLAPS

\* Only issued ids have entries, and a revoked id has none.
EntriesInv ==
  /\ \A id \in Ids : Present(id) => id \in issued
  /\ revoked \subseteq issued
  /\ \A id \in revoked : ~Present(id)

\* A goroutine past the lookup found its entry after it arrived, so the id was
\* not revoked at its arrival.
RevocationInv ==
  /\ \A r \in Requests : arrival[r] \subseteq revoked
  /\ \A r \in Requests :
       pc[r] \in {"check", "evict", "recheck", "serve"} => sid[r] \notin arrival[r]

\* What a goroutine's copy says about the map, however old the copy is: the entry
\* is gone or it is the one copied; and a goroutine about to delete has seen it
\* expired.
CopyInv ==
  \A r \in Requests :
    /\ pc[r] \in {"check", "evict", "recheck"} =>
         (Present(sid[r]) => data[sid[r]] = exp[r])
    /\ pc[r] = "evict" => Expired(exp[r], clock)
    /\ pc[r] \in {"get", "check", "evict", "recheck"} => sid[r] \in issued
    /\ pc[r] = "create" => exp[r] \in 1 .. MaxClock + Lifetime

\* The clock stays within its bound and the sweeper's reading is not ahead of it.
ClockInv ==
  /\ clock \in 1 .. MaxClock
  /\ sweepPc = "sweep" => sweepNow <= clock

IInv == TypeOK /\ EntriesInv /\ RevocationInv /\ CopyInv /\ ClockInv

-------------------------------------------------------------------------------

\* In the initial state nothing is stored and no request is under way.
LEMMA InitIInv == Init => IInv
<1> SUFFICES ASSUME Init PROVE IInv
  OBVIOUS
<1> USE SessionAssumption DEF Init
<1>1. TypeOK
  BY DEF TypeOK, PCs
<1>2. EntriesInv /\ RevocationInv /\ CopyInv /\ ClockInv
  BY DEF EntriesInv, RevocationInv, CopyInv, ClockInv, Present
<1>3. QED
  BY <1>1, <1>2 DEF IInv

\* Every step of every handler, of the sweeper and of the environment preserves
\* the types.
LEMMA StepTypeOK == TypeOK /\ [Next]_vars => TypeOK'
<1> SUFFICES ASSUME TypeOK, [Next]_vars PROVE TypeOK'
  OBVIOUS
<1> USE SessionAssumption DEF TypeOK, PCs
<1>1. ASSUME NEW r \in Requests, Step(r) PROVE TypeOK'
  BY <1>1 DEF Step, Login, Create, Read, Check, Evict, Recheck, Finish, goto, Present
<1>2. ASSUME NEW r \in Requests, NEW id \in issued, Arrive(r, id) PROVE TypeOK'
  BY <1>2 DEF Arrive, goto
<1>3. ASSUME NEW id \in issued, Logout(id) PROVE TypeOK'
  BY <1>3 DEF Logout
<1>4. CASE SweepTick
  BY <1>4 DEF SweepTick
<1>5. CASE Sweep
  BY <1>5 DEF Sweep
<1>6. CASE Tick
  BY <1>6 DEF Tick
<1>7. CASE Restart
  BY <1>7 DEF Restart
<1>8. CASE UNCHANGED vars
  BY <1>8 DEF vars
<1>9. QED
  BY <1>1, <1>2, <1>3, <1>4, <1>5, <1>6, <1>7, <1>8 DEF Next

\* The invariant is inductive.
LEMMA StepIInv == IInv /\ [Next]_vars => IInv'
<1> SUFFICES ASSUME IInv, [Next]_vars PROVE IInv'
  OBVIOUS
<1>0. TypeOK'
  BY StepTypeOK DEF IInv
<1> DEFINE Rest == EntriesInv /\ RevocationInv /\ CopyInv /\ ClockInv
<1> USE SessionAssumption
    DEF IInv, TypeOK, PCs, EntriesInv, RevocationInv, CopyInv, ClockInv, Present, Expired
<1>1. ASSUME NEW r \in Requests, Login(r) PROVE Rest'
  BY <1>1 DEF Login, goto
<1>2. ASSUME NEW r \in Requests, Create(r) PROVE Rest'
  BY <1>2 DEF Create, goto
<1>3. ASSUME NEW r \in Requests, Read(r) PROVE Rest'
  BY <1>3 DEF Read, goto
<1>4. ASSUME NEW r \in Requests, Check(r) PROVE Rest'
  BY <1>4 DEF Check, goto
<1>5. ASSUME NEW r \in Requests, Evict(r) PROVE Rest'
  BY <1>5 DEF Evict, goto
<1>6. ASSUME NEW r \in Requests, Recheck(r) PROVE Rest'
  BY <1>6 DEF Recheck, goto
<1>7. ASSUME NEW r \in Requests, Finish(r) PROVE Rest'
  BY <1>7 DEF Finish, goto
<1>8. ASSUME NEW r \in Requests, NEW id \in issued, Arrive(r, id) PROVE Rest'
  BY <1>8 DEF Arrive, goto
<1>9. ASSUME NEW id \in issued, Logout(id) PROVE Rest'
  BY <1>9 DEF Logout
<1>10. CASE SweepTick
  BY <1>10 DEF SweepTick
<1>11. CASE Sweep
  BY <1>11 DEF Sweep
<1>12. CASE Tick
  BY <1>12 DEF Tick
<1>13. CASE Restart
  BY <1>13 DEF Restart
<1>14. CASE UNCHANGED vars
  BY <1>14 DEF vars
<1>15. QED
  BY <1>0, <1>1, <1>2, <1>3, <1>4, <1>5, <1>6, <1>7, <1>8, <1>9, <1>10, <1>11,
     <1>12, <1>13, <1>14 DEF Next, Step


\* Every reachable state satisfies the invariant.
THEOREM Invariance == Spec => []IInv
  BY InitIInv, StepIInv, PTL DEF Spec

\* The variables keep their types.
THEOREM TypeCorrect == Spec => []TypeOK
<1>1. IInv => TypeOK
  BY DEF IInv
<1>2. QED
  BY <1>1, Invariance, PTL

\* No request that arrives after a logout is served with the revoked session.
THEOREM RevocationHolds == Spec => []RevokedNeverServed
<1>1. IInv => RevokedNeverServed
  BY DEF IInv, RevocationInv, RevokedNeverServed
<1>2. QED
  BY <1>1, Invariance, PTL

\* No goroutine, however old its copy, brings a removed session back.
THEOREM NothingResurrected == Spec => NoResurrection
<1> DEFINE A == \A id \in issued : ~Present(id) => data'[id] = Absent
<1>1. IInv /\ [Next]_vars => [A]_vars
  <2> SUFFICES ASSUME IInv, Next PROVE A
    BY DEF vars
  <2> USE DEF IInv, TypeOK, Present
  <2>1. ASSUME NEW r \in Requests, Step(r) PROVE A
    BY <2>1 DEF Step, Login, Create, Read, Check, Evict, Recheck, Finish
  <2>2. ASSUME NEW r \in Requests, NEW id \in issued, Arrive(r, id) PROVE A
    BY <2>2 DEF Arrive
  <2>3. ASSUME NEW id \in issued, Logout(id) PROVE A
    BY <2>3 DEF Logout
  <2>4. CASE SweepTick \/ Sweep \/ Tick \/ Restart
    BY <2>4 DEF SweepTick, Sweep, Tick, Restart
  <2>5. QED
    BY <2>1, <2>2, <2>3, <2>4 DEF Next
<1>2. QED
  BY <1>1, Invariance, PTL DEF Spec, NoResurrection

-------------------------------------------------------------------------------
(* The store implements SessionService.                                       *)

\* The empty store is the service with no session.
LEMMA InitImplements == Init => Service!Init
<1> SUFFICES ASSUME Init PROVE Service!Init
  OBVIOUS
<1>1. \A id \in Ids : ForceOf(id) = Absent
  BY DEF Init, ForceOf, Present
<1>2. \A r \in Requests : AnswerOf(r) = "none" /\ UntilOf(r) = 0
  BY DEF Init, AnswerOf, UntilOf, Copied
<1>3. QED
  BY <1>1, <1>2 DEF Init, Service!Init

\* Every step of the store is a step of the service or leaves it unchanged: the
\* sweep, the lazy deletion, the clock readings and the start of a sign-in are
\* invisible; Tick passes time, Read looks, Recheck confirms.
LEMMA StepImplements == IInv /\ [Next]_vars => [Service!Next]_(Service!vars)
<1> SUFFICES ASSUME IInv, [Next]_vars PROVE [Service!Next]_(Service!vars)
  OBVIOUS
<1> DEFINE F == [id \in Ids |-> ForceOf(id)]
           A == [r \in Requests |-> AnswerOf(r)]
           U == [r \in Requests |-> UntilOf(r)]
<1> USE SessionAssumption DEF IInv, TypeOK, PCs, goto
<1>1. ASSUME NEW r \in Requests, Login(r) PROVE UNCHANGED Service!vars
  <2>1. F' = F /\ A' = A /\ U' = U
    BY <1>1 DEF Login, ForceOf, Present, Expired, AnswerOf, UntilOf, Copied
  <2>2. QED
    BY <1>1, <2>1 DEF Login, Service!vars
<1>2. ASSUME NEW r \in Requests, Create(r) PROVE Service!Next
  <2>1. PICK id \in Ids \ issued : /\ data' = [data EXCEPT ![id] = exp[r]]
                                   /\ issued' = issued \cup {id}
    BY <1>2 DEF Create
  <2>2. exp[r] \in 0 .. MaxClock + Lifetime
    BY <1>2 DEF Create, CopyInv
  <2>3. F' = [F EXCEPT ![id] = Service!Worth(exp[r], clock)]
    BY <1>2, <2>1, <2>2
       DEF Create, ForceOf, Present, Expired, Service!Worth, Service!RunOut
  <2>4. A' = A /\ U' = U
    BY <1>2 DEF Create, AnswerOf, UntilOf, Copied
  <2>5. Service!Open(id, exp[r])
    BY <1>2, <2>1, <2>3, <2>4 DEF Create, Service!Open
  <2>6. QED
    BY <2>2, <2>5 DEF Service!Next
<1>3. ASSUME NEW r \in Requests, Read(r) PROVE Service!Next
  <2>1. F' = F
    BY <1>3 DEF Read, ForceOf, Present, Expired
  <2>2. A[r] = "asked" /\ UntilOf(r) = 0
    BY <1>3 DEF Read, AnswerOf, UntilOf, Copied
  <2>3. CASE F[sid[r]] # Absent
    <3>1. Present(sid[r]) /\ ~Expired(data[sid[r]], clock) /\ F[sid[r]] = data[sid[r]]
      BY <2>3 DEF ForceOf
    <3>2. A' = [A EXCEPT ![r] = "tentative"]
      BY <1>3, <3>1 DEF Read, AnswerOf, Copied, Present, Expired
    <3>3. U' = [U EXCEPT ![r] = F[sid[r]]]
      BY <1>3, <3>1 DEF Read, UntilOf, Copied, Present, Expired
    <3>4. Service!LookYes(r)
      BY <1>3, <2>1, <2>2, <2>3, <3>2, <3>3 DEF Read, Service!LookYes
    <3>5. QED
      BY <3>4 DEF Service!Next
  <2>4. CASE F[sid[r]] = Absent
    <3>1. Present(sid[r]) => Expired(data[sid[r]], clock)
      BY <2>4 DEF ForceOf, Present
    <3>2. A' = [A EXCEPT ![r] = "refused"]
      BY <1>3, <3>1 DEF Read, AnswerOf, Copied, Present, Expired
    <3>3. U' = U
      BY <1>3, <3>1 DEF Read, UntilOf, Copied, Present, Expired
    <3>4. Service!LookNo(r)
      BY <1>3, <2>1, <2>2, <2>4, <3>2, <3>3 DEF Read, Service!LookNo
    <3>5. QED
      BY <3>4 DEF Service!Next
  <2>5. QED
    BY <2>3, <2>4
<1>4. ASSUME NEW r \in Requests, Check(r) PROVE UNCHANGED Service!vars
  <2>1. F' = F /\ A' = A /\ U' = U
    BY <1>4 DEF Check, ForceOf, Present, Expired, AnswerOf, UntilOf, Copied
  <2>2. QED
    BY <1>4, <2>1 DEF Check, Service!vars
<1>5. ASSUME NEW r \in Requests, Evict(r) PROVE UNCHANGED Service!vars
  \* The entry about to go is absent or the expired one that was copied.
  <2>1. Present(sid[r]) => Expired(data[sid[r]], clock)
    BY <1>5 DEF Evict, CopyInv, Present
  <2>2. F' = F
    BY <1>5, <2>1 DEF Evict, ForceOf, Present, Expired
  <2>3. A' = A /\ U' = U
    BY <1>5 DEF Evict, AnswerOf, UntilOf, Copied
  <2>4. QED
    BY <1>5, <2>2, <2>3 DEF Evict, Service!vars
<1>6. ASSUME NEW r \in Requests, Recheck(r) PROVE [Service!Next]_(Service!vars)
  <2>1. F' = F
    BY <1>6 DEF Recheck, ForceOf, Present, Expired
  <2>2. CASE Expired(exp[r], clock)
    <3>1. A' = A /\ U' = U
      BY <1>6, <2>2 DEF Recheck, AnswerOf, UntilOf, Copied, Expired
    <3>2. QED
      BY <1>6, <2>1, <3>1 DEF Recheck, Service!vars
  <2>3. CASE ~Expired(exp[r], clock)
    <3>1. A[r] = "tentative"
      BY <1>6, <2>3 DEF Recheck, AnswerOf, Copied
    <3>2. A' = [A EXCEPT ![r] = "admitted"] /\ U' = [U EXCEPT ![r] = 0]
      BY <1>6, <2>3 DEF Recheck, AnswerOf, UntilOf, Copied, Expired
    <3>3. Service!Confirm(r)
      BY <1>6, <2>1, <3>1, <3>2 DEF Recheck, Service!Confirm
    <3>4. QED
      BY <3>3 DEF Service!Next
  <2>4. QED
    BY <2>2, <2>3
<1>7. ASSUME NEW r \in Requests, Finish(r) PROVE Service!Next
  <2>1. F' = F
    BY <1>7 DEF Finish, ForceOf, Present, Expired
  <2>2. A[r] \in {"admitted", "refused"}
    BY <1>7 DEF Finish, AnswerOf, Copied
  <2>3. A' = [A EXCEPT ![r] = "none"] /\ U' = U
    BY <1>7 DEF Finish, AnswerOf, UntilOf, Copied, Expired
  <2>4. Service!Finish(r)
    BY <1>7, <2>1, <2>2, <2>3 DEF Finish, Service!Finish
  <2>5. QED
    BY <2>4 DEF Service!Next
<1>8. ASSUME NEW r \in Requests, NEW id \in issued, Arrive(r, id) PROVE Service!Next
  <2>1. F' = F /\ U' = U
    BY <1>8 DEF Arrive, ForceOf, Present, Expired, UntilOf, Copied
  <2>2. A[r] = "none" /\ A' = [A EXCEPT ![r] = "asked"]
    BY <1>8 DEF Arrive, AnswerOf, Copied, Expired
  <2>3. Service!Ask(r, id)
    BY <1>8, <2>1, <2>2 DEF Arrive, Service!Ask
  <2>4. QED
    BY <2>3 DEF Service!Next
<1>9. ASSUME NEW id \in issued, Logout(id) PROVE Service!Next
  <2>1. F' = [F EXCEPT ![id] = Absent]
    BY <1>9 DEF Logout, ForceOf, Present, Expired
  <2>2. A' = A /\ U' = U
    BY <1>9 DEF Logout, AnswerOf, UntilOf, Copied
  <2>3. Service!Close(id)
    BY <1>9, <2>1, <2>2 DEF Logout, Service!Close
  <2>4. QED
    BY <2>3 DEF Service!Next
<1>10. CASE SweepTick
  <2>1. F' = F /\ A' = A /\ U' = U
    BY <1>10 DEF SweepTick, ForceOf, Present, Expired, AnswerOf, UntilOf, Copied
  <2>2. QED
    BY <1>10, <2>1 DEF SweepTick, Service!vars
<1>11. CASE Sweep
  \* What has expired by the sweeper's clock has expired by the current one.
  <2>1. \A id \in Ids : Present(id) /\ Expired(data[id], sweepNow)
                          => Expired(data[id], clock)
    BY <1>11 DEF Sweep, ClockInv, Present, Expired
  <2>2. F' = F
    BY <1>11, <2>1 DEF Sweep, ForceOf, Present, Expired
  <2>3. A' = A /\ U' = U
    BY <1>11 DEF Sweep, AnswerOf, UntilOf, Copied
  <2>4. QED
    BY <1>11, <2>2, <2>3 DEF Sweep, Service!vars
<1>12. CASE Tick
  <2>1. F' = [id \in Ids |-> IF F[id] = Absent THEN Absent
                             ELSE Service!Worth(F[id], clock + 1)]
    BY <1>12 DEF Tick, ForceOf, Present, Expired, Service!Worth, Service!RunOut
  <2>2. A' = [r \in Requests |->
                IF A[r] = "tentative" /\ Service!RunOut(U[r], clock + 1)
                THEN "refused" ELSE A[r]]
    BY <1>12 DEF Tick, AnswerOf, UntilOf, Copied, Expired, Service!RunOut
  <2>3. U' = [r \in Requests |->
                IF Service!RunOut(U[r], clock + 1) THEN 0 ELSE U[r]]
    BY <1>12 DEF Tick, UntilOf, Copied, Expired, Service!RunOut
  <2>4. Service!Pass
    BY <1>12, <2>1, <2>2, <2>3 DEF Tick, Service!Pass
  <2>5. QED
    BY <2>4 DEF Service!Next
<1>13. CASE Restart
  <2>1. F' = [id \in Ids |-> Absent]
    BY <1>13 DEF Restart, ForceOf, Present
  <2>2. A' = [r \in Requests |-> "none"] /\ U' = [r \in Requests |-> 0]
    BY <1>13 DEF Restart, AnswerOf, UntilOf, Copied
  <2>3. Service!Restart
    BY <1>13, <2>1, <2>2 DEF Restart, Service!Restart
  <2>4. QED
    BY <2>3 DEF Service!Next
<1>14. CASE UNCHANGED vars
  <2>1. F' = F /\ A' = A /\ U' = U
    BY <1>14 DEF vars, ForceOf, Present, Expired, AnswerOf, UntilOf, Copied
  <2>2. QED
    BY <1>14, <2>1 DEF vars, Service!vars
<1>15. QED
  BY <1>1, <1>2, <1>3, <1>4, <1>5, <1>6, <1>7, <1>8, <1>9, <1>10, <1>11, <1>12,
     <1>13, <1>14 DEF Next, Step

\* The store, with its two-step Get, its sweeper and its races, implements the
\* atomic session service.
THEOREM StoreImplementsService == Spec => ServiceSpec
<1>1. Service!Spec <=> Service!Init /\ [][Service!Next]_(Service!vars)
  BY DEF Service!Spec
<1>2. QED
  BY InitImplements, StepImplements, Invariance, <1>1, PTL DEF Spec, ServiceSpec
===============================================================================
