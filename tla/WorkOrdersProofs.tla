--------------------------- MODULE WorkOrdersProofs ----------------------------
(***************************************************************************)
(* WorkOrders for every set of orders, assignee lists and requests: the    *)
(* types, the generator's numbers, the absence of wait cycles, the         *)
(* assignees' work orders and the refinement of WorkOrderTable.            *)
(***************************************************************************)
EXTENDS WorkOrders, TLAPS

Creating(r) == pc[r] \in {"bump", "insert", "exhausted", "arrays"}
Locking(r) == pc[r] \in {"unassign", "assign", "commit"}

\* A request at rest knows nothing, any other has a work order.
OrderInv ==
  \A r \in Requests :
    /\ pc[r] = "idle" => loc[r] = NoLocals
    /\ pc[r] # "idle" => loc[r].order \in Orders

\* The uuid of a creation is its own until it commits.
CreateInv ==
  \A r \in Requests : Creating(r) =>
    /\ rows[loc[r].order] = None /\ assigned[loc[r].order] = {}
    /\ loc[r].list \in Lists
    /\ pc[r] # "bump" => loc[r].custom # 0
    /\ \A q \in Requests \ {r} : loc[q].order # loc[r].order

\* Whoever has a number holds the counter and is past what has been issued.
CounterInv ==
  /\ \A r \in Requests : Generating(r) =>
       counter = r /\ Creating(r) /\ loc[r].seq >= nextSeq
  /\ counter # None => Creating(counter)
  /\ \A n \in issued : n < nextSeq

\* The unique index: an inserted custom id is nobody else's.
CustomInv ==
  \A r \in Requests :
    /\ loc[r].inserted <=> pc[r] = "arrays"
    /\ pc[r] = "arrays" =>
         /\ ~Taken(loc[r].custom)
         /\ \A q \in Requests \ {r} : pc[q] = "arrays" => loc[q].custom # loc[r].custom

\* What an update carries from one statement to the next.
UpdateInv ==
  \A r \in Requests :
    /\ loc[r].has_assigned_to => loc[r].list \in Lists
    /\ pc[r] \in {"update", "commit"} /\ ~loc[r].has_assigned_to => loc[r].list = {}
    /\ pc[r] \in {"unassign", "assign"} => loc[r].has_assigned_to
    /\ pc[r] = "commit" /\ loc[r].list # {} => rows[loc[r].order] # None

\* A row that an update has written stays, and its assignees with it.
LockInv ==
  /\ \A w \in Orders : lock[w] # None => Locking(lock[w]) /\ loc[lock[w]].order = w
  /\ \A r \in Requests :
       Locking(r) /\ rows[loc[r].order] # None =>
         /\ lock[loc[r].order] = r
         /\ pc[r] # "unassign" /\ loc[r].has_assigned_to =>
              loc[r].gone = assigned[loc[r].order]

IInv == /\ TypeOK /\ OrderInv /\ CreateInv /\ CounterInv /\ CustomInv /\ UpdateInv
        /\ LockInv /\ AssigneesHaveOrder

-------------------------------------------------------------------------------
(* Operators.                                                                  *)

LEMMA QuotientPositive ==
  ASSUME NEW a \in Nat, NEW b \in Nat \ {0}, a >= b
  PROVE  a \div b \in Nat \ {0}
  BY SMT

\* No custom id is generated from zero digits, which stand for none.
LEMMA lpadPositive ==
  ASSUME NEW n \in Nat \ {0}
  PROVE  lpad(n) \in Nat \ {0}
<1>1. CASE n < Cap
  BY <1>1 DEF lpad
<1>2. CASE n >= Cap
  <2>1. n \in Nat /\ Base \in Nat \ {0} /\ n >= Base
    BY <1>2, WorkOrderAssumption
  <2> QED BY <1>2, <2>1, QuotientPositive, WorkOrderAssumption DEF lpad
<1> QED BY <1>1, <1>2, WorkOrderAssumption

LEMMA NoLocalsType == NoLocals \in Locals
  BY DEF NoLocals, Locals

LEMMA NumberedType ==
  ASSUME NEW l \in Locals, NEW i \in Nat, NEW c \in Nat
  PROVE  [l EXCEPT !.seq = i, !.custom = c, !.tries = @ + 1] \in Locals
<1>1. \A t \in Nat : [l EXCEPT !.seq = i, !.custom = c, !.tries = t] \in Locals
  BY DEF Locals
<1>2. l.tries + 1 \in Nat
  BY DEF Locals
<1> QED BY <1>1, <1>2

\* A step of a request moves nobody else.
LEMMA StepType ==
  ASSUME TypeOK, NEW r \in Requests, NEW l \in PCs, NEW v \in Locals, step(r, l, v)
  PROVE  /\ pc' \in [Requests -> PCs] /\ loc' \in [Requests -> Locals]
         /\ pc'[r] = l /\ loc'[r] = v
         /\ \A q \in Requests \ {r} : pc'[q] = pc[q] /\ loc'[q] = loc[q]
  BY DEF TypeOK, step

LEMMA EndType ==
  ASSUME TypeOK, NEW r \in Requests, end(r)
  PROVE  /\ pc' \in [Requests -> PCs] /\ loc' \in [Requests -> Locals]
         /\ pc'[r] = "idle" /\ loc'[r] = NoLocals
         /\ \A q \in Requests \ {r} : pc'[q] = pc[q] /\ loc'[q] = loc[q]
         /\ counter' \in Requests \cup {None}
         /\ lock' \in [Orders -> Requests \cup {None}]
<1>1. step(r, "idle", NoLocals) /\ "idle" \in PCs
  BY DEF end, PCs
<1>2. counter' \in Requests \cup {None} /\ lock' \in [Orders -> Requests \cup {None}]
  BY DEF TypeOK, end
<1> QED BY <1>1, <1>2, NoLocalsType, StepType

-------------------------------------------------------------------------------
(* The steps.                                                                  *)

LEMMA RollbackStep ==
  ASSUME IInv, NEW r \in Requests, Rollback(r)
  PROVE  IInv'
<1>1. TypeOK'
  BY DEF IInv, TypeOK, PCs, Locals, NoLocals, step, tables, Rollback, end
<1>2. OrderInv'
  BY DEF IInv, TypeOK, OrderInv, step, Rollback, end
<1>3. CreateInv'
  BY WorkOrderAssumption DEF IInv, TypeOK, CreateInv, Creating, NoLocals, OrderInv,
    step, tables, Rollback, end
<1>4. CounterInv'
  BY DEF IInv, TypeOK, CounterInv, Creating, Generating, NoLocals, step, tables,
    Rollback, end
<1>5. CustomInv'
  BY DEF IInv, TypeOK, CustomInv, Taken, NoLocals, step, tables, Rollback, end
<1>6. UpdateInv'
  BY DEF IInv, TypeOK, UpdateInv, NoLocals, step, tables, Rollback, end
<1>7. LockInv'
  BY DEF IInv, TypeOK, LockInv, Locking, OrderInv, step, tables, Rollback, end
<1>8. AssigneesHaveOrder'
  BY DEF IInv, AssigneesHaveOrder, tables, Rollback
<1> QED BY <1>1, <1>2, <1>3, <1>4, <1>5, <1>6, <1>7, <1>8 DEF IInv

LEMMA CreateOwnStep ==
  ASSUME IInv, NEW r \in Requests, NEW c \in ClientIds, NEW A \in Lists, CreateOwn(r, c, A)
  PROVE  IInv'
<1>1. TypeOK'
  <2>1. PICK w \in Orders :
          step(r, "insert", [NoLocals EXCEPT !.order = w, !.list = A, !.custom = c])
    BY DEF CreateOwn, Fresh, begin
  <2>2. [NoLocals EXCEPT !.order = w, !.list = A, !.custom = c] \in Locals
    BY WorkOrderAssumption DEF Locals, NoLocals, Users
  <2>3. pc' \in [Requests -> PCs] /\ loc' \in [Requests -> Locals]
    BY <2>1, <2>2, StepType DEF IInv, PCs
  <2> QED BY <2>3 DEF IInv, CreateOwn, TypeOK, Rows, Statuses, tables, locks
<1>2. OrderInv'
  BY DEF IInv, TypeOK, OrderInv, step, CreateOwn, begin, Fresh
<1>3. CreateInv'
  BY WorkOrderAssumption DEF IInv, TypeOK, OrderInv, CreateInv, AssigneesHaveOrder,
    Creating, step, tables, CreateOwn, begin, Fresh
<1>4. CounterInv'
  BY DEF IInv, CounterInv, Creating, Generating, NoLocals, step, tables, locks,
    CreateOwn, begin
<1>5. CustomInv'
  BY DEF IInv, CustomInv, Taken, NoLocals, step, tables, CreateOwn, begin
<1>6. UpdateInv'
  BY DEF IInv, UpdateInv, step, tables, CreateOwn, begin
<1>7. LockInv'
  BY DEF IInv, LockInv, Locking, step, tables, locks, CreateOwn, begin
<1>8. AssigneesHaveOrder'
  BY DEF IInv, AssigneesHaveOrder, tables, CreateOwn
<1> QED BY <1>1, <1>2, <1>3, <1>4, <1>5, <1>6, <1>7, <1>8 DEF IInv

LEMMA CreateAutoStep ==
  ASSUME IInv, NEW r \in Requests, NEW A \in Lists, CreateAuto(r, A)
  PROVE  IInv'
<1>1. TypeOK'
  <2>1. PICK w \in Orders : step(r, "bump", [NoLocals EXCEPT !.order = w, !.list = A])
    BY DEF CreateAuto, Fresh, begin
  <2>2. [NoLocals EXCEPT !.order = w, !.list = A] \in Locals
    BY DEF Locals, NoLocals, Users
  <2>3. pc' \in [Requests -> PCs] /\ loc' \in [Requests -> Locals]
    BY <2>1, <2>2, StepType DEF IInv, PCs
  <2> QED BY <2>3 DEF IInv, CreateAuto, TypeOK, Rows, Statuses, tables, locks
<1>2. OrderInv'
  BY DEF IInv, TypeOK, OrderInv, step, CreateAuto, begin, Fresh
<1>3. CreateInv'
  BY DEF IInv, TypeOK, OrderInv, CreateInv, AssigneesHaveOrder, Creating, step,
    tables, CreateAuto, begin, Fresh
<1>4. CounterInv'
  BY DEF IInv, CounterInv, Creating, Generating, NoLocals, step, tables, locks,
    CreateAuto, begin
<1>5. CustomInv'
  BY DEF IInv, CustomInv, Taken, NoLocals, step, tables, CreateAuto, begin
<1>6. UpdateInv'
  BY DEF IInv, UpdateInv, step, tables, CreateAuto, begin
<1>7. LockInv'
  BY DEF IInv, LockInv, Locking, step, tables, locks, CreateAuto, begin
<1>8. AssigneesHaveOrder'
  BY DEF IInv, AssigneesHaveOrder, tables, CreateAuto
<1> QED BY <1>1, <1>2, <1>3, <1>4, <1>5, <1>6, <1>7, <1>8 DEF IInv

LEMMA BumpStep ==
  ASSUME IInv, NEW r \in Requests, Bump(r)
  PROVE  IInv'
<1>1. TypeOK'
  <2> DEFINE n == IF Generating(r) THEN loc[r].seq + 1 ELSE nextSeq
             v == [loc[r] EXCEPT !.seq = n, !.custom = lpad(n), !.tries = @ + 1]
  <2>1. n \in Nat \ {0}
    BY DEF IInv, TypeOK, Locals, Generating
  <2>2. lpad(n) \in Nat \ {0}
    BY <2>1, lpadPositive
  <2>3. loc[r] \in Locals
    BY DEF IInv, TypeOK
  <2>4. v \in Locals
    BY <2>1, <2>2, <2>3, NumberedType
  <2>5. step(r, "insert", v)
    BY DEF Bump
  <2>6. pc' \in [Requests -> PCs] /\ loc' \in [Requests -> Locals]
    BY <2>4, <2>5, StepType DEF IInv, PCs
  <2> QED BY <2>6 DEF IInv, Bump, TypeOK, Rows, Statuses, tables
<1>2. OrderInv'
  BY DEF IInv, OrderInv, step, Bump
<1>3. CreateInv'
  <2> DEFINE n == IF Generating(r) THEN loc[r].seq + 1 ELSE nextSeq
             v == [loc[r] EXCEPT !.seq = n, !.custom = lpad(n), !.tries = @ + 1]
  <2>1. n \in Nat \ {0}
    BY DEF IInv, TypeOK, Locals, Generating
  <2>2. lpad(n) \in Nat \ {0}
    BY <2>1, lpadPositive
  <2>3. step(r, "insert", v)
    BY DEF Bump
  <2>4. pc'[r] = "insert" /\ loc'[r].custom # 0
    BY <2>2, <2>3 DEF IInv, TypeOK, Locals, step
  <2>5. /\ loc'[r].order = loc[r].order /\ loc'[r].list = loc[r].list
        /\ \A q \in Requests \ {r} : pc'[q] = pc[q] /\ loc'[q] = loc[q]
    BY <2>3 DEF IInv, TypeOK, Locals, step
  <2>6. pc[r] = "bump" /\ UNCHANGED <<rows, assigned>>
    BY DEF Bump, tables
  <2> QED BY <2>4, <2>5, <2>6 DEF IInv, CreateInv, Creating
<1>4. CounterInv'
  BY WorkOrderAssumption DEF IInv, TypeOK, CounterInv, Creating, Generating, Locals,
    step, tables, Bump
<1>5. CustomInv'
  BY DEF IInv, CustomInv, Taken, step, tables, Bump
<1>6. UpdateInv'
  BY DEF IInv, UpdateInv, step, tables, Bump
<1>7. LockInv'
  BY DEF IInv, LockInv, Locking, step, tables, Bump
<1>8. AssigneesHaveOrder'
  BY DEF IInv, AssigneesHaveOrder, tables, Bump
<1> QED BY <1>1, <1>2, <1>3, <1>4, <1>5, <1>6, <1>7, <1>8 DEF IInv

LEMMA InsertStep ==
  ASSUME IInv, NEW r \in Requests, Insert(r)
  PROVE  IInv'
<1>1. TypeOK'
  <2>1. loc[r] \in Locals /\ [loc[r] EXCEPT !.inserted = TRUE] \in Locals
    BY DEF IInv, TypeOK, Locals
  <2>2. /\ pc' \in [Requests -> PCs] /\ loc' \in [Requests -> Locals]
        /\ counter' \in Requests \cup {None} /\ lock' \in [Orders -> Requests \cup {None}]
    <3>1. CASE step(r, "arrays", [loc[r] EXCEPT !.inserted = TRUE]) /\ UNCHANGED locks
      BY <2>1, <3>1, StepType DEF IInv, TypeOK, PCs, locks
    <3>2. CASE (step(r, "bump", loc[r]) \/ step(r, "exhausted", loc[r])) /\ UNCHANGED locks
      BY <2>1, <3>2, StepType DEF IInv, TypeOK, PCs, locks
    <3>3. CASE end(r)
      BY <3>3, EndType DEF IInv
    <3> QED BY <3>1, <3>2, <3>3 DEF Insert
  <2> QED BY <2>2 DEF IInv, Insert, TypeOK, tables
<1>2. OrderInv'
  <2>1. CASE step(r, "arrays", [loc[r] EXCEPT !.inserted = TRUE])
    BY <2>1 DEF IInv, TypeOK, OrderInv, Insert, step, Locals
  <2>2. CASE step(r, "bump", loc[r]) \/ step(r, "exhausted", loc[r])
    BY <2>2 DEF IInv, TypeOK, OrderInv, Insert, step
  <2>3. CASE end(r)
    BY <2>3, EndType DEF IInv, OrderInv
  <2> QED BY <2>1, <2>2, <2>3 DEF Insert
<1>3. CreateInv'
  <2>1. UNCHANGED <<rows, assigned>> /\ pc[r] = "insert" /\ loc[r] \in Locals
    BY DEF IInv, TypeOK, Insert, tables
  <2>2. CASE step(r, "arrays", [loc[r] EXCEPT !.inserted = TRUE])
    <3>1. /\ pc'[r] = "arrays" /\ loc'[r].order = loc[r].order
          /\ loc'[r].list = loc[r].list /\ loc'[r].custom = loc[r].custom
          /\ \A q \in Requests \ {r} : pc'[q] = pc[q] /\ loc'[q] = loc[q]
      BY <2>1, <2>2 DEF IInv, TypeOK, step, Locals
    <3> QED BY <2>1, <3>1 DEF IInv, CreateInv, Creating
  <2>3. CASE step(r, "bump", loc[r]) \/ step(r, "exhausted", loc[r])
    <3>1. /\ pc'[r] \in {"bump", "exhausted"}
          /\ \A q \in Requests : loc'[q] = loc[q] /\ (q # r => pc'[q] = pc[q])
      BY <2>1, <2>3 DEF IInv, TypeOK, step
    <3> QED BY <2>1, <3>1 DEF IInv, CreateInv, Creating
  <2>4. CASE end(r)
    <3>1. /\ pc'[r] = "idle" /\ loc'[r].order = None
          /\ \A q \in Requests \ {r} : pc'[q] = pc[q] /\ loc'[q] = loc[q]
      BY <2>4, EndType DEF IInv, NoLocals
    <3> QED BY <2>1, <3>1, WorkOrderAssumption DEF IInv, OrderInv, CreateInv, Creating
  <2> QED BY <2>2, <2>3, <2>4 DEF Insert
<1>4. CounterInv'
  BY DEF IInv, TypeOK, CounterInv, Creating, Generating, Locals, NoLocals, step,
    tables, locks, Insert, end
<1>5. CustomInv'
  BY DEF IInv, TypeOK, CreateInv, CustomInv, Locals, NoLocals, Statuses, Taken,
    Contended, step, tables, Insert, end
<1>6. UpdateInv'
  BY DEF IInv, TypeOK, UpdateInv, Locals, NoLocals, step, tables, Insert, end
<1>7. LockInv'
  BY DEF IInv, TypeOK, LockInv, Locking, step, tables, locks, Insert, end
<1>8. AssigneesHaveOrder'
  BY DEF IInv, AssigneesHaveOrder, tables, Insert
<1> QED BY <1>1, <1>2, <1>3, <1>4, <1>5, <1>6, <1>7, <1>8 DEF IInv

LEMMA ExhaustedStep ==
  ASSUME IInv, NEW r \in Requests, Exhausted(r)
  PROVE  IInv'
<1>1. TypeOK'
  BY DEF IInv, TypeOK, PCs, Locals, NoLocals, step, tables, Exhausted, end
<1>2. OrderInv'
  BY DEF IInv, TypeOK, OrderInv, step, Exhausted, end
<1>3. CreateInv'
  BY WorkOrderAssumption DEF IInv, TypeOK, CreateInv, Creating, NoLocals, OrderInv,
    step, tables, Exhausted, end
<1>4. CounterInv'
  BY DEF IInv, TypeOK, CounterInv, Creating, Generating, NoLocals, step, tables,
    Exhausted, end
<1>5. CustomInv'
  BY DEF IInv, CustomInv, Taken, NoLocals, step, tables, Exhausted, end
<1>6. UpdateInv'
  BY DEF IInv, UpdateInv, NoLocals, step, tables, Exhausted, end
<1>7. LockInv'
  BY DEF IInv, TypeOK, LockInv, Locking, step, tables, Exhausted, end
<1>8. AssigneesHaveOrder'
  BY DEF IInv, AssigneesHaveOrder, tables, Exhausted
<1> QED BY <1>1, <1>2, <1>3, <1>4, <1>5, <1>6, <1>7, <1>8 DEF IInv

LEMMA CreateCommitStep ==
  ASSUME IInv, NEW r \in Requests, CreateCommit(r)
  PROVE  IInv'
<1>1. TypeOK'
  <2>1. loc[r].order \in Orders /\ loc[r].custom \in Nat \ {0} /\ loc[r].list \in SUBSET Users
    BY DEF IInv, TypeOK, OrderInv, CreateInv, Creating, CreateCommit, Locals
  <2>2. [custom |-> loc[r].custom, status |-> "OPEN"] \in Rows
    BY <2>1 DEF Rows, Statuses
  <2>3. rows' \in [Orders -> Rows \cup {None}] /\ assigned' \in [Orders -> SUBSET Users]
    BY <2>1, <2>2 DEF IInv, TypeOK, CreateCommit
  <2>4. nextSeq' \in Nat \ {0} /\ issued' \subseteq Nat
    <3>1. loc[r] \in Locals /\ nextSeq \in Nat \ {0} /\ issued \subseteq Nat
      BY DEF IInv, TypeOK
    <3>2. loc[r].seq \in Nat
      BY <3>1 DEF Locals
    <3>3. \/ nextSeq' = loc[r].seq + 1 /\ issued' = issued \cup {loc[r].seq}
          \/ nextSeq' = nextSeq /\ issued' = issued
      BY DEF CreateCommit
    <3>4. nextSeq' \in Nat \ {0}
      BY <3>1, <3>2, <3>3
    <3>5. issued' \subseteq Nat
      BY <3>1, <3>2, <3>3
    <3> QED BY <3>4, <3>5
  <2>5. /\ pc' \in [Requests -> PCs] /\ loc' \in [Requests -> Locals]
        /\ counter' \in Requests \cup {None} /\ lock' \in [Orders -> Requests \cup {None}]
    BY EndType DEF IInv, CreateCommit
  <2> QED BY <2>3, <2>4, <2>5 DEF TypeOK
<1>2. OrderInv'
  BY DEF IInv, TypeOK, OrderInv, step, CreateCommit, end
<1>3. CreateInv'
  BY WorkOrderAssumption DEF IInv, TypeOK, CreateInv, Creating, NoLocals, OrderInv,
    step, CreateCommit, end
<1>4. CounterInv'
  <2>1. /\ pc[r] = "arrays" /\ loc'[r] = NoLocals
        /\ \A q \in Requests \ {r} : pc'[q] = pc[q] /\ loc'[q] = loc[q]
    BY EndType DEF IInv, CreateCommit
  <2>2. counter' = IF counter = r THEN None ELSE counter
    BY DEF CreateCommit, end
  <2>3. \A q \in Requests : loc[q].seq \in Nat
    BY DEF IInv, TypeOK, Locals
  <2>4. CASE Generating(r)
    <3>1. \A q \in Requests : ~Generating(q)'
      BY <2>1, <2>4 DEF IInv, CounterInv, Generating, NoLocals
    <3>2. counter' = None
      BY <2>2, <2>4 DEF IInv, CounterInv
    <3>3. nextSeq' = loc[r].seq + 1 /\ issued' = issued \cup {loc[r].seq}
      BY <2>4 DEF CreateCommit
    <3>4. \A n \in issued' : n < nextSeq'
      BY <2>3, <2>4, <3>3 DEF IInv, TypeOK, CounterInv
    <3> QED BY <3>1, <3>2, <3>4 DEF CounterInv
  <2>5. CASE ~Generating(r)
    <3>1. UNCHANGED <<nextSeq, issued>>
      BY <2>5 DEF CreateCommit
    <3>2. \A q \in Requests : Generating(q)' => q # r /\ Generating(q)
      BY <2>1 DEF Generating, NoLocals
    <3> QED BY <2>1, <2>2, <3>1, <3>2 DEF IInv, TypeOK, CounterInv, Creating
  <2> QED BY <2>4, <2>5
<1>5. CustomInv'
  BY DEF IInv, TypeOK, CustomInv, Taken, NoLocals, step, CreateCommit, end
<1>6. UpdateInv'
  BY DEF IInv, UpdateInv, NoLocals, CreateInv, Creating, step, CreateCommit, end
<1>7. LockInv'
  BY DEF IInv, TypeOK, LockInv, Locking, CreateInv, Creating, step, CreateCommit,
    end
<1>8. AssigneesHaveOrder'
  BY WorkOrderAssumption DEF IInv, TypeOK, CreateInv, AssigneesHaveOrder, Locals,
    Rows, Statuses, Creating, CreateCommit
<1> QED BY <1>1, <1>2, <1>3, <1>4, <1>5, <1>6, <1>7, <1>8 DEF IInv

LEMMA UpdateCheckStep ==
  ASSUME IInv, NEW r \in Requests, NEW w \in Orders,
         NEW A \in SUBSET Users, NEW has \in BOOLEAN,
         has => A \in Lists, ~has => A = {}, UpdateCheck(r, w, A, has)
  PROVE  IInv'
<1>1. TypeOK'
  <2>1. [NoLocals EXCEPT !.order = w, !.list = A, !.has_assigned_to = has] \in Locals
    BY DEF Locals, NoLocals
  <2>2. pc' \in [Requests -> PCs] /\ loc' \in [Requests -> Locals]
    BY <2>1, StepType DEF IInv, UpdateCheck, begin, PCs
  <2> QED BY <2>2 DEF IInv, UpdateCheck, TypeOK, Rows, Statuses, tables, locks
<1>2. OrderInv'
  BY DEF IInv, TypeOK, OrderInv, step, UpdateCheck, begin
<1>3. CreateInv'
  BY WorkOrderAssumption DEF IInv, TypeOK, CreateInv, Creating, Locals, NoLocals,
    step, tables, locks, UpdateCheck, begin
<1>4. CounterInv'
  BY DEF IInv, CounterInv, Creating, Generating, NoLocals, step, tables, locks,
    UpdateCheck, begin
<1>5. CustomInv'
  BY DEF IInv, CustomInv, Taken, NoLocals, step, tables, UpdateCheck, begin
<1>6. UpdateInv'
  BY DEF IInv, TypeOK, UpdateInv, step, tables, UpdateCheck, begin
<1>7. LockInv'
  BY DEF IInv, LockInv, Locking, step, tables, locks, UpdateCheck, begin
<1>8. AssigneesHaveOrder'
  BY DEF IInv, AssigneesHaveOrder, tables, UpdateCheck
<1> QED BY <1>1, <1>2, <1>3, <1>4, <1>5, <1>6, <1>7, <1>8 DEF IInv

LEMMA UpdateRowStep ==
  ASSUME IInv, NEW r \in Requests, UpdateRow(r)
  PROVE  IInv'
<1>1. TypeOK'
  BY WorkOrderAssumption DEF IInv, TypeOK, Rows, Statuses, PCs, Locals, NoLocals,
    step, tables, locks, UpdateRow, AfterUpdate
<1>2. OrderInv'
  BY DEF IInv, OrderInv, step, UpdateRow, AfterUpdate
<1>3. CreateInv'
  BY WorkOrderAssumption DEF IInv, CreateInv, Creating, step, tables, UpdateRow,
    AfterUpdate
<1>4. CounterInv'
  BY DEF IInv, CounterInv, Creating, Generating, step, tables, UpdateRow
<1>5. CustomInv'
  BY DEF IInv, CustomInv, Taken, step, tables, UpdateRow, AfterUpdate
<1>6. UpdateInv'
  BY DEF IInv, UpdateInv, step, tables, UpdateRow, AfterUpdate
<1>7. LockInv'
  BY WorkOrderAssumption DEF IInv, TypeOK, LockInv, Locking, OrderInv, step, tables,
    UpdateRow, AfterUpdate
<1>8. AssigneesHaveOrder'
  BY DEF IInv, AssigneesHaveOrder, tables, UpdateRow
<1> QED BY <1>1, <1>2, <1>3, <1>4, <1>5, <1>6, <1>7, <1>8 DEF IInv

LEMMA UnassignStep ==
  ASSUME IInv, NEW r \in Requests, Unassign(r)
  PROVE  IInv'
<1>1. TypeOK'
  BY DEF IInv, TypeOK, Statuses, PCs, Locals, OrderInv, step, tables, locks,
    Unassign
<1>2. OrderInv'
  BY DEF IInv, OrderInv, step, Unassign
<1>3. CreateInv'
  BY DEF IInv, CreateInv, Creating, step, tables, Unassign
<1>4. CounterInv'
  BY DEF IInv, CounterInv, Creating, Generating, step, tables, locks, Unassign
<1>5. CustomInv'
  BY DEF IInv, CustomInv, Taken, step, tables, Unassign
<1>6. UpdateInv'
  BY DEF IInv, UpdateInv, step, tables, Unassign
<1>7. LockInv'
  BY DEF IInv, TypeOK, LockInv, Locking, step, tables, locks, Unassign
<1>8. AssigneesHaveOrder'
  BY DEF IInv, AssigneesHaveOrder, tables, Unassign
<1> QED BY <1>1, <1>2, <1>3, <1>4, <1>5, <1>6, <1>7, <1>8 DEF IInv

LEMMA AssignStep ==
  ASSUME IInv, NEW r \in Requests, Assign(r)
  PROVE  IInv'
<1>1. TypeOK'
  <2>1. loc[r] \in Locals
    BY DEF IInv, TypeOK
  <2>2. CASE end(r)
    BY <2>2, EndType DEF IInv, TypeOK, Assign, tables
  <2>3. CASE step(r, "commit", loc[r]) /\ UNCHANGED locks
    BY <2>1, <2>3, StepType DEF IInv, TypeOK, Assign, tables, locks, PCs
  <2> QED BY <2>2, <2>3 DEF Assign
<1>2. OrderInv'
  <2>1. CASE end(r)
    BY <2>1, EndType DEF IInv, OrderInv
  <2>2. CASE step(r, "commit", loc[r])
    BY <2>2 DEF IInv, TypeOK, OrderInv, Assign, step
  <2> QED BY <2>1, <2>2 DEF Assign
<1>3. CreateInv'
  BY WorkOrderAssumption DEF IInv, TypeOK, CreateInv, Creating, NoLocals, OrderInv,
    LockInv, step, tables, Assign, end
<1>4. CounterInv'
  BY DEF IInv, TypeOK, CounterInv, Creating, Generating, NoLocals, step, tables,
    locks, Assign, end
<1>5. CustomInv'
  BY DEF IInv, TypeOK, CustomInv, Taken, NoLocals, step, tables, Assign, end
<1>6. UpdateInv'
  BY DEF IInv, TypeOK, UpdateInv, NoLocals, step, tables, Assign, end
<1>7. LockInv'
  BY DEF IInv, TypeOK, LockInv, Locking, OrderInv, UpdateInv, step, tables, locks,
    Assign, end
<1>8. AssigneesHaveOrder'
  BY DEF IInv, AssigneesHaveOrder, tables, Assign
<1> QED BY <1>1, <1>2, <1>3, <1>4, <1>5, <1>6, <1>7, <1>8 DEF IInv

LEMMA UpdateCommitStep ==
  ASSUME IInv, NEW r \in Requests, UpdateCommit(r)
  PROVE  IInv'
<1>1. TypeOK'
  BY WorkOrderAssumption DEF IInv, TypeOK, Rows, Statuses, PCs, Locals, NoLocals,
    step, tables, locks, UpdateCommit, end
<1>2. OrderInv'
  BY DEF IInv, TypeOK, OrderInv, step, UpdateCommit, end
<1>3. CreateInv'
  BY WorkOrderAssumption DEF IInv, CreateInv, Creating, NoLocals, OrderInv, step,
    UpdateCommit, end
<1>4. CounterInv'
  BY DEF IInv, CounterInv, Creating, Generating, NoLocals, step, UpdateCommit, end
<1>5. CustomInv'
  BY DEF IInv, CustomInv, Taken, NoLocals, step, UpdateCommit, end
<1>6. UpdateInv'
  BY DEF IInv, UpdateInv, NoLocals, step, UpdateCommit, end
<1>7. LockInv'
  BY DEF IInv, TypeOK, LockInv, Locking, OrderInv, step, UpdateCommit, end
<1>8. AssigneesHaveOrder'
  BY DEF IInv, AssigneesHaveOrder, UpdateInv, UpdateCommit
<1> QED BY <1>1, <1>2, <1>3, <1>4, <1>5, <1>6, <1>7, <1>8 DEF IInv

LEMMA ChangeWorkOrderStatusStep ==
  ASSUME IInv, NEW w \in Orders, NEW s \in Statuses, ChangeWorkOrderStatus(w, s)
  PROVE  IInv'
<1>1. TypeOK'
  BY DEF IInv, TypeOK, Rows, locks, ChangeWorkOrderStatus
<1>2. OrderInv'
  BY DEF IInv, OrderInv, ChangeWorkOrderStatus
<1>3. CreateInv'
  BY DEF IInv, CreateInv, Creating, ChangeWorkOrderStatus
<1>4. CounterInv'
  BY DEF IInv, CounterInv, Creating, Generating, locks, ChangeWorkOrderStatus
<1>5. CustomInv'
  BY DEF IInv, CustomInv, Taken, ChangeWorkOrderStatus
<1>6. UpdateInv'
  BY WorkOrderAssumption DEF IInv, UpdateInv, LockInv, Locking,
    ChangeWorkOrderStatus
<1>7. LockInv'
  BY DEF IInv, LockInv, Locking, locks, ChangeWorkOrderStatus
<1>8. AssigneesHaveOrder'
  BY WorkOrderAssumption DEF IInv, TypeOK, AssigneesHaveOrder, Rows,
    ChangeWorkOrderStatus
<1> QED BY <1>1, <1>2, <1>3, <1>4, <1>5, <1>6, <1>7, <1>8 DEF IInv

LEMMA DeleteWorkOrderByIDStep ==
  ASSUME IInv, NEW w \in Orders, DeleteWorkOrderByID(w)
  PROVE  IInv'
<1>1. TypeOK'
  BY DEF IInv, TypeOK, locks, DeleteWorkOrderByID
<1>2. OrderInv'
  BY DEF IInv, OrderInv, DeleteWorkOrderByID
<1>3. CreateInv'
  BY DEF IInv, CreateInv, Creating, DeleteWorkOrderByID
<1>4. CounterInv'
  BY DEF IInv, CounterInv, Creating, Generating, locks, DeleteWorkOrderByID
<1>5. CustomInv'
  BY DEF IInv, CustomInv, Taken, DeleteWorkOrderByID
<1>6. UpdateInv'
  BY WorkOrderAssumption DEF IInv, UpdateInv, LockInv, Locking, DeleteWorkOrderByID
<1>7. LockInv'
  BY WorkOrderAssumption DEF IInv, LockInv, Locking, locks, DeleteWorkOrderByID
<1>8. AssigneesHaveOrder'
  BY DEF IInv, TypeOK, AssigneesHaveOrder, DeleteWorkOrderByID
<1> QED BY <1>1, <1>2, <1>3, <1>4, <1>5, <1>6, <1>7, <1>8 DEF IInv

-------------------------------------------------------------------------------
(* The inductive invariant.                                                    *)

LEMMA InitIInv == Init => IInv
<1> SUFFICES ASSUME Init PROVE IInv
  OBVIOUS
<1>1. TypeOK
  BY WorkOrderAssumption, NoLocalsType DEF Init, TypeOK, PCs
<1>2. OrderInv /\ CreateInv /\ UpdateInv
  BY WorkOrderAssumption DEF Init, OrderInv, CreateInv, Creating, UpdateInv, NoLocals
<1>3. CounterInv /\ CustomInv
  BY DEF Init, CounterInv, Generating, CustomInv, NoLocals
<1>4. LockInv /\ AssigneesHaveOrder
  BY DEF Init, LockInv, Locking, AssigneesHaveOrder
<1> QED BY <1>1, <1>2, <1>3, <1>4 DEF IInv

LEMMA NextIInv == IInv /\ [Next]_vars => IInv'
<1> SUFFICES ASSUME IInv, [Next]_vars PROVE IInv'
  OBVIOUS
<1>1. ASSUME NEW r \in Requests, Arrive(r) PROVE IInv'
  <2>1. \A w \in Orders : UpdateCheck(r, w, {}, FALSE) => IInv'
    BY UpdateCheckStep
  <2>2. \A w \in Orders, A \in Lists : UpdateCheck(r, w, A, TRUE) => IInv'
    BY UpdateCheckStep DEF Users
  <2> QED BY <1>1, <2>1, <2>2, CreateOwnStep, CreateAutoStep DEF Arrive
<1>2. ASSUME NEW r \in Requests, Step(r) PROVE IInv'
  BY <1>2, BumpStep, InsertStep, ExhaustedStep, CreateCommitStep, UpdateRowStep,
     UnassignStep, AssignStep, UpdateCommitStep DEF Step
<1>3. CASE UNCHANGED vars
  BY <1>3 DEF vars, tables, locks, IInv, TypeOK, OrderInv, CreateInv, CounterInv, CustomInv,
     UpdateInv, LockInv, AssigneesHaveOrder, Creating, Locking, Generating, Taken
<1> QED
  BY <1>1, <1>2, <1>3, RollbackStep, ChangeWorkOrderStatusStep, DeleteWorkOrderByIDStep
  DEF Next

\* Every step of every transaction keeps the inductive invariant.
THEOREM Invariant == Spec => []IInv
<1> QED BY InitIInv, NextIInv, PTL DEF Spec

\* The state stays well typed: work orders, counter, locks and what requests carry.
THEOREM TypeCorrect == Spec => []TypeOK
<1>1. IInv => TypeOK
  BY DEF IInv
<1> QED BY <1>1, Invariant, PTL

\* The counter's row lock makes numbers unique for ever, whatever commits and whatever
\* rolls back (create_work_order_from_json).
THEOREM NumbersUnique == Spec => []NumberNotReissued
<1>1. IInv => NumberNotReissued
  <2> SUFFICES ASSUME IInv, NEW r \in Requests, pc[r] = "arrays", Generating(r)
               PROVE  loc[r].seq \notin issued
    BY DEF NumberNotReissued
  <2>1. loc[r].seq >= nextSeq /\ \A n \in issued : n < nextSeq
    BY DEF IInv, CounterInv
  <2>2. loc[r].seq \in Nat /\ nextSeq \in Nat
    BY DEF IInv, TypeOK, Locals
  <2> QED BY <2>1, <2>2
<1> QED BY <1>1, Invariant, PTL

\* The foreign key and the cascade: an update that outlives its work order leaves no
\* assignees behind (update_work_order_from_json).
THEOREM NoOrphans == Spec => []AssigneesHaveOrder
<1>1. IInv => AssigneesHaveOrder
  BY DEF IInv
<1> QED BY <1>1, Invariant, PTL

-------------------------------------------------------------------------------
(* No wait cycle: a row's lock is held by a request that waits for nothing, a  *)
(* custom id by one that is about to commit, and the counter by one that waits *)
(* for a custom id at most.                                                    *)

LEMMA CalmGoes ==
  ASSUME NEW r, pc[r] \in {"exhausted", "arrays", "unassign", "assign", "commit"}
  PROVE  pc[r] # "idle" /\ ~Waiting(r)
  BY DEF Waiting

LEMMA InsertGoes ==
  ASSUME IInv, NEW r \in Requests, pc[r] = "insert"
  PROVE  \E q \in Requests : pc[q] # "idle" /\ ~Waiting(q)
<1>1. CASE Contended(r, loc[r].custom)
  <2>1. PICK q \in Requests \ {r} : loc[q].inserted
    BY <1>1 DEF Contended
  <2>2. pc[q] = "arrays"
    BY <2>1 DEF IInv, CustomInv
  <2> QED BY <2>2, CalmGoes
<1>2. CASE ~Contended(r, loc[r].custom)
  BY <1>2 DEF Waiting
<1> QED BY <1>1, <1>2

LEMMA BumpGoes ==
  ASSUME IInv, NEW r \in Requests, pc[r] = "bump"
  PROVE  \E q \in Requests : pc[q] # "idle" /\ ~Waiting(q)
<1>1. CASE counter \in {None, r}
  BY <1>1 DEF Waiting
<1>2. CASE counter \notin {None, r}
  <2>1. counter \in Requests /\ Creating(counter)
    BY <1>2 DEF IInv, TypeOK, CounterInv
  <2>2. CASE pc[counter] = "bump"
    BY <2>1, <2>2 DEF Waiting
  <2>3. CASE pc[counter] = "insert"
    BY <2>1, <2>3, InsertGoes
  <2>4. CASE pc[counter] \in {"exhausted", "arrays"}
    BY <2>1, <2>4, CalmGoes
  <2> QED BY <2>1, <2>2, <2>3, <2>4 DEF Creating
<1> QED BY <1>1, <1>2

LEMMA UpdateGoes ==
  ASSUME IInv, NEW r \in Requests, pc[r] = "update"
  PROVE  \E q \in Requests : pc[q] # "idle" /\ ~Waiting(q)
<1> DEFINE w == loc[r].order
<1>1. w \in Orders
  BY DEF IInv, OrderInv
<1>2. CASE lock[w] = None
  BY <1>2 DEF Waiting
<1>3. CASE lock[w] # None
  <2>1. lock[w] \in Requests /\ Locking(lock[w])
    BY <1>1, <1>3 DEF IInv, TypeOK, LockInv
  <2> QED BY <2>1, CalmGoes DEF Locking
<1> QED BY <1>2, <1>3

\* While requests are under way, one of them can go on, whichever rows, ids and counter
\* the others hold.
THEOREM NoDeadlock == Spec => []NoWaitCycle
<1>1. IInv => NoWaitCycle
  <2> SUFFICES ASSUME IInv, NEW r \in Requests, pc[r] # "idle"
               PROVE  \E q \in Requests : pc[q] # "idle" /\ ~Waiting(q)
    BY DEF NoWaitCycle
  <2>1. pc[r] \in PCs
    BY DEF IInv, TypeOK
  <2>2. CASE pc[r] \in {"exhausted", "arrays", "unassign", "assign", "commit"}
    BY <2>2, CalmGoes
  <2> QED BY <2>1, <2>2, BumpGoes, InsertGoes, UpdateGoes DEF PCs
<1> QED BY <1>1, Invariant, PTL

-------------------------------------------------------------------------------
(* The refinement of WorkOrderTable: a creation happens when it commits, an    *)
(* update that replaces assignees when it commits and its row is still there.  *)

LEMMA CreateRefines ==
  ASSUME IInv, NEW r \in Requests, CreateCommit(r)
  PROVE  Table!TableNext
<1> DEFINE w == loc[r].order
           row == [custom |-> loc[r].custom, status |-> "OPEN"]
<1>1. w \in Orders /\ loc[r].list \in Lists /\ rows[w] = None
  BY DEF IInv, OrderInv, CreateInv, Creating, CreateCommit
<1>2. rows' = [rows EXCEPT ![w] = row] /\ assigned' = [assigned EXCEPT ![w] = loc[r].list]
  BY DEF CreateCommit
<1>3. loc[r].custom \in Nat \ {0}
  BY DEF IInv, TypeOK, CreateInv, Creating, CreateCommit, Locals
<1>4. row \in Rows
  BY <1>3 DEF Rows, Statuses
<1>5. rows'[w] = row /\ rows'[w] # None /\ rows'[w].custom = loc[r].custom
  BY <1>1, <1>2, <1>4, WorkOrderAssumption DEF IInv, TypeOK
<1>6. \A x \in Orders : rows[x] # None => rows[x].custom # loc[r].custom
  BY DEF IInv, CustomInv, CreateCommit, Taken
<1>7. Table!Create(w, loc[r].list)
  BY <1>1, <1>2, <1>5, <1>6 DEF Table!Create
<1> QED BY <1>1, <1>7 DEF Table!TableNext

LEMMA UpdateRefines ==
  ASSUME IInv, NEW r \in Requests, UpdateCommit(r)
  PROVE  Table!TableNext \/ UNCHANGED <<rows, assigned>>
<1> DEFINE w == loc[r].order
<1>1. w \in Orders /\ pc[r] = "commit" /\ rows' = rows
  BY DEF IInv, OrderInv, UpdateCommit
<1>2. CASE ~loc[r].has_assigned_to
  BY <1>1, <1>2 DEF UpdateCommit
<1>3. CASE loc[r].has_assigned_to
  <2>1. assigned' = [assigned EXCEPT ![w] = (@ \ loc[r].gone) \cup loc[r].list]
    BY <1>3 DEF UpdateCommit
  <2>2. CASE rows[w] # None
    <3>1. loc[r].gone = assigned[w] /\ loc[r].list \in Lists
      BY <1>1, <1>3, <2>2 DEF IInv, LockInv, Locking, UpdateInv
    <3>2. assigned' = [assigned EXCEPT ![w] = loc[r].list]
      BY <2>1, <3>1
    <3>3. Table!Reassign(w, loc[r].list)
      BY <1>1, <2>2, <3>2 DEF Table!Reassign
    <3> QED BY <1>1, <3>1, <3>3 DEF Table!TableNext
  <2>3. CASE rows[w] = None
    <3>1. assigned[w] = {} /\ loc[r].list = {}
      BY <1>1, <2>3 DEF IInv, AssigneesHaveOrder, UpdateInv
    <3>2. assigned' = assigned
      BY <1>1, <2>1, <3>1 DEF IInv, TypeOK
    <3> QED BY <1>1, <3>2
  <2> QED BY <2>2, <2>3
<1> QED BY <1>2, <1>3

LEMMA StatementRefines ==
  ASSUME NEW w \in Orders,
         \/ \E s \in Statuses : ChangeWorkOrderStatus(w, s)
         \/ DeleteWorkOrderByID(w)
  PROVE  Table!TableNext
<1>1. ASSUME NEW s \in Statuses, ChangeWorkOrderStatus(w, s) PROVE Table!SetStatus(w, s)
  BY <1>1 DEF ChangeWorkOrderStatus, Table!SetStatus
<1>2. ASSUME DeleteWorkOrderByID(w) PROVE Table!Delete(w)
  BY <1>2 DEF DeleteWorkOrderByID, Table!Delete
<1> QED BY <1>1, <1>2 DEF Table!TableNext, Table!Statuses, Statuses

LEMMA RequestRefines ==
  ASSUME IInv, NEW r \in Requests, Arrive(r) \/ Step(r) \/ Rollback(r)
  PROVE  Table!TableNext \/ UNCHANGED <<rows, assigned>>
<1>1. CASE Arrive(r)
  BY <1>1 DEF Arrive, CreateOwn, CreateAuto, UpdateCheck, tables
<1>2. CASE Bump(r) \/ Insert(r) \/ Exhausted(r) \/ Rollback(r)
  BY <1>2 DEF Bump, Insert, Exhausted, Rollback, tables
<1>3. CASE UpdateRow(r) \/ Unassign(r) \/ Assign(r)
  BY <1>3 DEF UpdateRow, Unassign, Assign, tables
<1> QED BY <1>1, <1>2, <1>3, CreateRefines, UpdateRefines DEF Step

\* Each of the many statements' transactions looks to clients as one step that happens
\* or does not, with one request's assignees and a custom id of the work order's own.
THEOREM ImplementsTable == Spec => TableSpec
<1>1. Init => Table!TableInit
  BY DEF Init, Table!TableInit
<1>2. IInv /\ [Next]_vars => [Table!TableNext]_<<rows, assigned>>
  <2> SUFFICES ASSUME IInv, [Next]_vars
               PROVE  Table!TableNext \/ UNCHANGED <<rows, assigned>>
    OBVIOUS
  <2>1. CASE UNCHANGED vars
    BY <2>1 DEF vars, tables
  <2>2. CASE Next
    BY <2>2, RequestRefines, StatementRefines DEF Next
  <2> QED BY <2>1, <2>2
<1> QED BY <1>1, <1>2, Invariant, PTL DEF Spec, TableSpec

-------------------------------------------------------------------------------
(* Why the generator may run out of tries.                                    *)

\* The generated numbers still fit the digits of a custom id.
NumbersFit == \A r \in Requests : loc[r].seq < Cap

\* Clients have as many custom ids in a row for themselves as the generator has tries.
ClientsTakeRun ==
  \E n \in Nat : \A k \in 0..(MaxTries - 1) : n + k \in ClientIds

\* The numbers a creation has tried without success are all clients'.
TriedOK(r) ==
  /\ Generating(r) =>
       /\ loc[r].custom = loc[r].seq
       /\ loc[r].tries \in 1..loc[r].seq
       /\ \A n \in (loc[r].seq - loc[r].tries + 1)..loc[r].seq :
            n \in ClientIds \/ (n = loc[r].seq /\ pc[r] \in {"insert", "arrays"})
  /\ ~Generating(r) =>
       /\ loc[r].tries = 0 /\ pc[r] # "exhausted"
       /\ pc[r] \in {"insert", "arrays"} => loc[r].custom \in ClientIds
  /\ pc[r] = "exhausted" => loc[r].tries >= MaxTries

\* A custom id that is taken was supplied by a client or issued.
TakenInv == \A w \in Orders : rows[w] # None => rows[w].custom \in ClientIds \cup issued

TriedInv == TakenInv /\ \A r \in Requests : TriedOK(r)

LEMMA InitTriedInv == Init => TriedInv
  BY DEF Init, TriedInv, TakenInv, TriedOK, Generating, NoLocals

\* A request at rest, or with nothing to generate, has tried nothing.
LEMMA TriedOfNothing ==
  ASSUME NEW r \in Requests, loc'[r].seq = 0, loc'[r].tries = 0,
         pc'[r] \notin {"insert", "arrays", "exhausted"}
  PROVE  TriedOK(r)'
  BY DEF TriedOK, Generating

\* A request that moves on without the generator.
LEMMA TriedKept ==
  ASSUME NEW r \in Requests, TriedOK(r), loc'[r] = loc[r],
         pc'[r] = pc[r] \/ {pc[r], pc'[r]} \cap {"insert", "arrays", "exhausted"} = {}
  PROVE  TriedOK(r)'
  BY DEF TriedOK, Generating

\* The next number is tried after those that clients had.
LEMMA BumpTried ==
  ASSUME IInv, NumbersFit', NEW r \in Requests, TriedOK(r), Bump(r)
  PROVE  TriedOK(r)'
<1> DEFINE n == IF Generating(r) THEN loc[r].seq + 1 ELSE nextSeq
           v == [loc[r] EXCEPT !.seq = n, !.custom = lpad(n), !.tries = @ + 1]
<1>1. /\ loc[r] \in Locals /\ loc[r].seq \in Nat /\ loc[r].tries \in Nat
      /\ nextSeq \in Nat \ {0} /\ n \in Nat \ {0}
  BY DEF IInv, TypeOK, Locals, Generating
<1>2. pc[r] = "bump" /\ step(r, "insert", v)
  BY DEF Bump
<1>3. pc'[r] = "insert" /\ loc'[r] = v
  BY <1>2 DEF step, IInv, TypeOK
<1>4. loc'[r].seq = n /\ loc'[r].custom = lpad(n) /\ loc'[r].tries = loc[r].tries + 1
  BY <1>1, <1>3 DEF Locals
<1>5. lpad(n) = n
  BY <1>4 DEF NumbersFit, lpad
<1> HIDE DEF v
<1>6. CASE Generating(r)
  <2>1. n = loc[r].seq + 1 /\ loc[r].tries \in 1..loc[r].seq
        /\ \A m \in (loc[r].seq - loc[r].tries + 1)..loc[r].seq : m \in ClientIds
    BY <1>1, <1>2, <1>6 DEF TriedOK
  <2> HIDE DEF n
  <2>2. QED
    BY <1>1, <1>3, <1>4, <1>5, <2>1 DEF TriedOK, Generating
<1>7. CASE ~Generating(r)
  <2>1. n = nextSeq /\ loc[r].tries = 0
    BY <1>7 DEF TriedOK
  <2> HIDE DEF n
  <2>2. QED
    BY <1>1, <1>3, <1>4, <1>5, <2>1 DEF TriedOK, Generating
<1>8. QED
  BY <1>6, <1>7

\* A generated number that is taken is a client's, as its own numbers are not issued.
LEMMA InsertTried ==
  ASSUME IInv, TakenInv, NEW r \in Requests, TriedOK(r), Insert(r)
  PROVE  TriedOK(r)'
<1>1. /\ loc[r] \in Locals /\ pc[r] = "insert"
      /\ pc \in [Requests -> PCs] /\ loc \in [Requests -> Locals]
  BY DEF IInv, TypeOK, Insert
<1>2. CASE step(r, "arrays", [loc[r] EXCEPT !.inserted = TRUE])
  <2>1. /\ pc'[r] = "arrays" /\ loc'[r].seq = loc[r].seq
        /\ loc'[r].custom = loc[r].custom /\ loc'[r].tries = loc[r].tries
    BY <1>1, <1>2 DEF step, Locals
  <2>2. QED
    BY <1>1, <2>1 DEF TriedOK, Generating
<1>3. CASE end(r)
  BY <1>1, <1>3, EndType, TriedOfNothing DEF IInv, NoLocals
<1>4. ASSUME Taken(loc[r].custom), Generating(r),
             \/ step(r, "bump", loc[r])
             \/ loc[r].tries >= MaxTries /\ step(r, "exhausted", loc[r])
      PROVE  TriedOK(r)'
  <2>1. loc[r].seq \in ClientIds
    <3>1. loc[r].custom = loc[r].seq /\ loc[r].seq \in ClientIds \cup issued
      BY <1>4 DEF TriedOK, Taken, TakenInv
    <3>2. loc[r].seq >= nextSeq /\ \A i \in issued : i < nextSeq
      BY <1>4 DEF IInv, CounterInv
    <3>3. loc[r].seq \in Nat /\ nextSeq \in Nat /\ issued \subseteq Nat
      BY <1>1 DEF IInv, TypeOK, Locals
    <3>4. QED
      BY <3>1, <3>2, <3>3
  <2>2. /\ loc'[r] = loc[r] /\ pc'[r] \in {"bump", "exhausted"}
        /\ pc'[r] = "exhausted" => loc[r].tries >= MaxTries
    BY <1>1, <1>4 DEF step
  <2>3. QED
    BY <1>1, <1>4, <2>1, <2>2 DEF TriedOK, Generating
<1>5. QED
  BY <1>2, <1>3, <1>4 DEF Insert

\* Every step keeps the record of what was tried.
LEMMA NextTriedInv == IInv /\ NumbersFit' /\ TriedInv /\ [Next]_vars => TriedInv'
<1> SUFFICES ASSUME IInv, NumbersFit', TriedInv, [Next]_vars PROVE TriedInv'
  OBVIOUS
<1> USE DEF TriedInv, tables
<1>1. /\ TypeOK /\ CounterInv
      /\ rows \in [Orders -> Rows \cup {None}]
      /\ pc \in [Requests -> PCs] /\ loc \in [Requests -> Locals]
  BY DEF IInv, TypeOK
<1>2. ASSUME NEW r \in Requests, Step(r) \/ Rollback(r) \/ Arrive(r),
             NEW q \in Requests, q # r
      PROVE  pc'[q] = pc[q] /\ loc'[q] = loc[q]
  BY <1>1, <1>2 DEF Step, Rollback, Arrive, Bump, Insert, Exhausted, CreateCommit, UpdateRow,
     Unassign, Assign, UpdateCommit, CreateOwn, CreateAuto, UpdateCheck, begin, step, end
<1>3. ASSUME NEW r \in Requests, end(r) PROVE TriedOK(r)'
  BY <1>1, <1>3, EndType, TriedOfNothing DEF NoLocals
<1>4. ASSUME NEW r \in Requests, Arrive(r) PROVE TriedOK(r)' /\ TakenInv'
  <2>1. UNCHANGED <<rows, issued>>
    BY <1>4 DEF Arrive, CreateOwn, CreateAuto, UpdateCheck
  <2>2. ASSUME NEW c \in ClientIds, NEW A \in Lists, CreateOwn(r, c, A) PROVE TriedOK(r)'
    <3>1. PICK w \in Fresh :
            step(r, "insert", [NoLocals EXCEPT !.order = w, !.list = A, !.custom = c])
      BY <2>2 DEF CreateOwn, begin
    <3>2. /\ pc'[r] = "insert" /\ loc'[r].seq = 0 /\ loc'[r].tries = 0
          /\ loc'[r].custom = c
      BY <1>1, <3>1 DEF step, NoLocals
    <3>3. QED
      BY <3>2 DEF TriedOK, Generating
  <2>3. ASSUME NEW A \in Lists, CreateAuto(r, A) PROVE TriedOK(r)'
    <3>1. pc'[r] = "bump" /\ loc'[r].seq = 0 /\ loc'[r].tries = 0
      BY <1>1, <2>3 DEF CreateAuto, begin, step, NoLocals
    <3>2. QED
      BY <3>1, TriedOfNothing
  <2>4. ASSUME NEW w \in Orders, NEW A, NEW has \in BOOLEAN, UpdateCheck(r, w, A, has)
        PROVE  TriedOK(r)'
    <3>1. pc'[r] = "update" /\ loc'[r].seq = 0 /\ loc'[r].tries = 0
      BY <1>1, <2>4 DEF UpdateCheck, begin, step, NoLocals
    <3>2. QED
      BY <3>1, TriedOfNothing
  <2>5. QED
    BY <1>4, <2>1, <2>2, <2>3, <2>4 DEF Arrive, TakenInv
<1>5. ASSUME NEW r \in Requests, Bump(r) PROVE TriedOK(r)' /\ TakenInv'
  BY <1>5, BumpTried DEF Bump, TakenInv
<1>6. ASSUME NEW r \in Requests, Insert(r) PROVE TriedOK(r)' /\ TakenInv'
  BY <1>6, InsertTried DEF Insert, TakenInv
<1>7. ASSUME NEW r \in Requests, CreateCommit(r) PROVE TriedOK(r)' /\ TakenInv'
  <2>1. loc[r].custom \in ClientIds \cup issued'
    BY <1>7 DEF CreateCommit, TriedOK
  <2>2. /\ rows' = [rows EXCEPT ![loc[r].order] =
                      [custom |-> loc[r].custom, status |-> "OPEN"]]
        /\ issued \subseteq issued'
    BY <1>7 DEF CreateCommit
  <2>3. TakenInv'
    BY <1>1, <2>1, <2>2 DEF TakenInv
  <2>4. QED
    BY <1>3, <1>7, <2>3 DEF CreateCommit
<1>8. ASSUME NEW r \in Requests, UpdateRow(r) \/ Unassign(r) \/ Assign(r) \/ UpdateCommit(r)
      PROVE  TriedOK(r)' /\ TakenInv'
  <2>1. UNCHANGED <<rows, issued>>
    BY <1>8 DEF UpdateRow, Unassign, Assign, UpdateCommit
  <2>2. pc[r] \in {"update", "unassign", "assign", "commit"} /\ loc[r].tries = 0 /\ loc[r].seq = 0
    BY <1>1, <1>8 DEF UpdateRow, Unassign, Assign, UpdateCommit, CounterInv, Creating,
       TriedOK, Generating
  <2>3. \/ end(r)
        \/ /\ pc'[r] \in {"unassign", "assign", "commit"}
           /\ loc'[r].seq = 0 /\ loc'[r].tries = 0
    BY <1>1, <1>8, <2>2 DEF UpdateRow, Unassign, Assign, UpdateCommit, AfterUpdate, step, Locals
  <2>4. QED
    BY <1>3, <2>1, <2>3, TriedOfNothing DEF TakenInv
<1>9. ASSUME NEW r \in Requests, Exhausted(r) \/ Rollback(r) PROVE TriedOK(r)' /\ TakenInv'
  BY <1>3, <1>9 DEF Exhausted, Rollback, TakenInv
<1>10. ASSUME NEW r \in Requests, Arrive(r) \/ Step(r) \/ Rollback(r) PROVE TriedInv'
  <2>1. TriedOK(r)' /\ TakenInv'
    BY <1>4, <1>5, <1>6, <1>7, <1>8, <1>9, <1>10 DEF Step
  <2>2. ASSUME NEW q \in Requests, q # r PROVE TriedOK(q)'
    BY <1>2, <1>10, <2>2, TriedKept
  <2>3. QED
    BY <2>1, <2>2
<1>11. ASSUME NEW w \in Orders,
              (\E s \in Statuses : ChangeWorkOrderStatus(w, s)) \/ DeleteWorkOrderByID(w)
       PROVE  TriedInv'
  <2>1. pc' = pc /\ loc' = loc
    BY <1>11 DEF ChangeWorkOrderStatus, DeleteWorkOrderByID
  <2>2. TakenInv'
    <3>1. \A i \in Rows, s \in Statuses : [i EXCEPT !.status = s].custom = i.custom
      BY DEF Rows
    <3>2. issued' = issued /\ \A x \in Orders : rows[x] # None => rows[x] \in Rows
      BY <1>1, <1>11 DEF ChangeWorkOrderStatus, DeleteWorkOrderByID
    <3>3. \A x \in Orders : rows'[x] # None =>
            rows[x] # None /\ rows'[x].custom = rows[x].custom
      <4>1. ASSUME NEW s \in Statuses, ChangeWorkOrderStatus(w, s), NEW x \in Orders,
                   rows'[x] # None
            PROVE  rows[x] # None /\ rows'[x].custom = rows[x].custom
        <5>1. PICK i : i = [rows[w] EXCEPT !.status = s]
          OBVIOUS
        <5>2. rows[w] # None /\ rows' = [rows EXCEPT ![w] = i]
          BY <4>1, <5>1 DEF ChangeWorkOrderStatus
        <5>3. i.custom = rows[w].custom
          BY <3>1, <3>2, <5>1, <5>2
        <5>4. QED
          BY <1>1, <4>1, <5>2, <5>3
      <4>2. ASSUME DeleteWorkOrderByID(w), NEW x \in Orders, rows'[x] # None
            PROVE  rows[x] # None /\ rows'[x].custom = rows[x].custom
        BY <1>1, <4>2 DEF DeleteWorkOrderByID
      <4>3. QED
        BY <1>11, <4>1, <4>2
    <3>4. QED
      BY <3>2, <3>3 DEF TakenInv
  <2>3. QED
    BY <2>1, <2>2, TriedKept
<1>12. CASE UNCHANGED vars
  BY <1>12, TriedKept DEF vars, TakenInv
<1>13. QED
  BY <1>10, <1>11, <1>12 DEF Next

\* While numbers fit their digits, the generator only runs out of tries where clients
\* have taken as many custom ids in a row (create_work_order_from_json).
THEOREM ExhaustedOnlyByCapOrClients ==
  ASSUME ~ClientsTakeRun
  PROVE  Spec /\ []NumbersFit => []GeneratorSucceeds
<1>1. IInv /\ TriedInv => GeneratorSucceeds
  <2> SUFFICES ASSUME IInv, TriedInv, NEW r \in Requests, pc[r] = "exhausted" PROVE FALSE
    BY DEF GeneratorSucceeds
  <2> DEFINE n == loc[r].seq - MaxTries + 1
  <2>1. /\ loc[r].seq \in Nat /\ loc[r].tries \in Nat /\ MaxTries \in Nat \ {0}
        /\ loc[r].tries >= MaxTries /\ loc[r].tries \in 1..loc[r].seq
    BY WorkOrderAssumption DEF IInv, TypeOK, Locals, TriedInv, TriedOK
  <2>2. \A m \in (loc[r].seq - loc[r].tries + 1)..loc[r].seq : m \in ClientIds
    BY <2>1 DEF TriedInv, TriedOK
  <2>3. n \in Nat /\ \A k \in 0..(MaxTries - 1) : n + k \in ClientIds
    BY <2>1, <2>2
  <2>4. QED
    BY <2>3 DEF ClientsTakeRun
<1>2. QED
  BY <1>1, InitTriedInv, NextTriedInv, Invariant, PTL DEF Spec
===============================================================================
