---------------------------- MODULE SessionService ----------------------------
(***************************************************************************)
(* What the rest of the program relies on the session store for, with no   *)
(* map, lock, lazy deletion or sweeper: a set of sessions that are in      *)
(* force.  A session is in force from the moment it is opened until it is  *)
(* closed (logout), its expiry has passed or the process restarts, and     *)
(* then it is never in force again.  A request asks about one session; it  *)
(* is admitted only if the session was in force when it looked and had not *)
(* run out when it was let through.                                        *)
(***************************************************************************)
EXTENDS Naturals

CONSTANTS Ids,       \* session ids the program may hand out
          Requests,  \* concurrent requests
          Expiries,  \* the expiry times a session may be opened with
          Absent     \* no session in force under an id

VARIABLES force,     \* the expiry of each session in force, or Absent
          opened,    \* ids handed out so far
          now,       \* the wall clock
          answer,    \* what each request has been told
          about,     \* the session each request asks about
          until      \* when a tentative yes runs out

vars == <<force, opened, now, answer, about, until>>

\* A request asks, then looks; a tentative yes is confirmed or runs out.
Answers == {"none", "asked", "tentative", "admitted", "refused"}

\* An expiry of 0 never runs out; otherwise the last good instant is e itself.
RunOut(e, t) == e # 0 /\ e < t

\* What an entry with expiry e is worth at time t.
Worth(e, t) == IF RunOut(e, t) THEN Absent ELSE e

Init ==
  /\ force = [id \in Ids |-> Absent]
  /\ opened = {}
  /\ now = 1
  /\ answer = [r \in Requests |-> "none"]
  /\ about = [r \in Requests |-> CHOOSE id \in Ids : TRUE]
  /\ until = [r \in Requests |-> 0]

Open(id, e) ==
  /\ id \notin opened
  /\ opened' = opened \cup {id}
  /\ force' = [force EXCEPT ![id] = Worth(e, now)]
  /\ UNCHANGED <<now, answer, about, until>>

Close(id) ==
  /\ force' = [force EXCEPT ![id] = Absent]
  /\ UNCHANGED <<opened, now, answer, about, until>>

Ask(r, id) ==
  /\ answer[r] = "none"
  /\ id \in opened
  /\ answer' = [answer EXCEPT ![r] = "asked"]
  /\ about' = [about EXCEPT ![r] = id]
  /\ UNCHANGED <<force, opened, now, until>>

LookYes(r) ==
  /\ answer[r] = "asked"
  /\ force[about[r]] # Absent
  /\ answer' = [answer EXCEPT ![r] = "tentative"]
  /\ until' = [until EXCEPT ![r] = force[about[r]]]
  /\ UNCHANGED <<force, opened, now, about>>

LookNo(r) ==
  /\ answer[r] = "asked"
  /\ force[about[r]] = Absent
  /\ answer' = [answer EXCEPT ![r] = "refused"]
  /\ UNCHANGED <<force, opened, now, about, until>>

Confirm(r) ==
  /\ answer[r] = "tentative"
  /\ answer' = [answer EXCEPT ![r] = "admitted"]
  /\ until' = [until EXCEPT ![r] = 0]
  /\ UNCHANGED <<force, opened, now, about>>

Finish(r) ==
  /\ answer[r] \in {"admitted", "refused"}
  /\ answer' = [answer EXCEPT ![r] = "none"]
  /\ UNCHANGED <<force, opened, now, about, until>>

\* Time passes: sessions run out, and with them the tentative answers.
Pass ==
  /\ now' = now + 1
  /\ force' = [id \in Ids |-> IF force[id] = Absent THEN Absent
                              ELSE Worth(force[id], now + 1)]
  /\ answer' = [r \in Requests |->
                  IF answer[r] = "tentative" /\ RunOut(until[r], now + 1)
                  THEN "refused" ELSE answer[r]]
  /\ until' = [r \in Requests |-> IF RunOut(until[r], now + 1) THEN 0 ELSE until[r]]
  /\ UNCHANGED <<opened, about>>

\* The process restarts: no session survives, nor any request in flight.
Restart ==
  /\ force' = [id \in Ids |-> Absent]
  /\ answer' = [r \in Requests |-> "none"]
  /\ until' = [r \in Requests |-> 0]
  /\ UNCHANGED <<opened, now, about>>

Next ==
  \/ \E id \in Ids, e \in Expiries : Open(id, e)
  \/ \E id \in Ids : Close(id)
  \/ \E r \in Requests, id \in Ids : Ask(r, id)
  \/ \E r \in Requests : LookYes(r) \/ LookNo(r) \/ Confirm(r) \/ Finish(r)
  \/ Pass
  \/ Restart

Spec == Init /\ [][Next]_vars
===============================================================================
