-------------------------- MODULE RequestLifecycle --------------------------
(***************************************************************************)
(* What the dispatcher promises an OpenSIPS caller (spec sections 3 and   *)
(* 7): a request is issued once, is then either answered on the spot or   *)
(* waits, and a waiting request is eventually answered exactly once, with  *)
(* the relay's reply or with `error'.                                     *)
(***************************************************************************)
CONSTANTS Reqs

VARIABLE st

Results == {"replied", "failed"}

TypeOK == st \in [Reqs -> {"idle", "wait"} \cup Results]

Init == st = [r \in Reqs |-> "idle"]

\* The request is sent and its Deferred is pending.
Issue(r) ==
    /\ st[r] = "idle"
    /\ st' = [st EXCEPT ![r] = "wait"]

\* The request is answered before anything is sent (a local answer or an
\* error raised while routing it).
AnswerAtOnce(r) ==
    /\ st[r] = "idle"
    /\ \E res \in Results : st' = [st EXCEPT ![r] = res]

\* The pending Deferred of r fires, together with those of other waiting
\* requests that the same event answers (a connection loss fails them all).
Settle(r) ==
    /\ st[r] = "wait"
    /\ \E S \in SUBSET {q \in Reqs : st[q] = "wait"}, res \in [Reqs -> Results] :
          /\ r \in S
          /\ st' = [q \in Reqs |-> IF q \in S THEN res[q] ELSE st[q]]

Next == \E r \in Reqs : Issue(r) \/ AnswerAtOnce(r) \/ Settle(r)

\* Every waiting caller is answered: no fairness on issuing requests.
Spec == Init /\ [][Next]_st /\ \A r \in Reqs : WF_st(Settle(r))
=============================================================================
