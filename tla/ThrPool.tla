------------------------------ MODULE ThrPool ------------------------------
(***************************************************************************)
(* The pool of coding threads (thr_pool.c) on its job queue.  The owner    *)
(* (the application thread: send_ctcp, close_srvctcp) and other producers  *)
(* (server_worker in send_segs) add jobs, HIGH ones at the front; the      *)
(* owner kills the pool with one NULL job per worker and joins them.  A    *)
(* job's function is here a step of its own, after which it is done.       *)
(***************************************************************************)
EXTENDS QBuffer, FiniteSets

CONSTANTS Workers,   \* the threads of the pool
          Owner,     \* the thread that kills it
          Others,    \* other threads that add jobs
          Jobs,      \* the jobs they add, numbered, each once and in this order
          Poison     \* the job whose function is NULL

ASSUME PoolAssumption ==
  /\ Threads = Workers \cup Others \cup {Owner}
  /\ Jobs \subseteq Nat /\ Poison \notin Jobs /\ Entry = Jobs \cup {Poison}
  /\ MaxSize = 2 * Cardinality(Workers)

VARIABLES
  todo,      \* jobs not yet added
  running,   \* the job a worker runs, or NULL
  done,      \* jobs run to their end, in order
  dead,      \* workers that left do_worker's loop
  kill,      \* "no", "pills" (adding NULL jobs), "join" or "joined"
  pills,     \* NULL jobs added so far
  early      \* history: jobs in the pool when thrpool_kill was called

pvars == <<todo, running, done, dead, kill, pills, early>>
vars  == <<qvars, pvars>>

Producers == Others \cup {Owner}
NextJob   == CHOOSE j \in todo : \A k \in todo : j <= k

(* thrpool_init                                                            *)
Init ==
  /\ QInit
  /\ todo = Jobs /\ done = <<>> /\ dead = {}
  /\ running = [w \in Workers |-> NULL]
  /\ kill = "no" /\ pills = 0 /\ early = {}

(* addJob: HIGH goes to the front, LOW to the back.                        *)
addJob(t, p) ==
  /\ t = Owner => kill = "no"
  /\ todo # {}
  /\ CallPush(t, NextJob, IF p = "HIGH" THEN "front" ELSE "back")
  /\ todo' = todo \ {NextJob}
  /\ UNCHANGED <<running, done, dead, kill, pills, early>>

(* The queue's side of a push, of a wait, or of a spurious wakeup.         *)
Enqueue(t) == QPush(t) /\ UNCHANGED pvars
Wait(w)    == PopSleep(w) /\ UNCHANGED pvars
Wakeup(t)  == SpuriousWakeup(t) /\ UNCHANGED pvars

(* do_worker: the head of its loop, takeJob, and the job itself.           *)
Loop(w) ==
  /\ w \notin dead /\ running[w] = NULL
  /\ CallPop(w)
  /\ UNCHANGED pvars

takeJob(w) ==
  /\ Pop(w)
  /\ dead' = IF First = Poison THEN dead \cup {w} ELSE dead
  /\ running' = [running EXCEPT ![w] = IF First = Poison THEN NULL ELSE First]
  /\ UNCHANGED <<todo, done, kill, pills, early>>

RunJob(w) ==
  /\ running[w] # NULL
  /\ done' = Append(done, running[w])
  /\ running' = [running EXCEPT ![w] = NULL]
  /\ UNCHANGED <<qvars, todo, dead, kill, pills, early>>

(* thrpool_kill                                                            *)
BeginKill ==
  /\ kill = "no" /\ op[Owner] = "none"
  /\ kill' = "pills"
  /\ early' = Jobs \ (todo \cup {arg[t] : t \in Threads})
  /\ UNCHANGED <<qvars, todo, running, done, dead, pills>>

(* A bug KilledMeansDone must notice: the NULL jobs added as HIGH.         *)
AddPillFirst ==
  /\ kill = "pills" /\ pills < Cardinality(Workers)
  /\ CallPush(Owner, Poison, "front")
  /\ pills' = pills + 1
  /\ UNCHANGED <<todo, running, done, dead, kill, early>>

(* A bug KillEnds must notice: one NULL job too few.                       *)
AddPillShort ==
  /\ kill = "pills" /\ pills < Cardinality(Workers)
  /\ pills' = pills + 1
  /\ IF pills = 0 THEN UNCHANGED qvars ELSE CallPush(Owner, Poison, "back")
  /\ UNCHANGED <<todo, running, done, dead, kill, early>>

AddPill ==
  /\ kill = "pills" /\ pills < Cardinality(Workers)
  /\ CallPush(Owner, Poison, "back")
  /\ pills' = pills + 1
  /\ UNCHANGED <<todo, running, done, dead, kill, early>>

BeginJoin ==
  /\ kill = "pills" /\ pills = Cardinality(Workers) /\ op[Owner] = "none"
  /\ kill' = "join"
  /\ UNCHANGED <<qvars, todo, running, done, dead, pills, early>>

Joined ==
  /\ kill = "join" /\ dead = Workers
  /\ kill' = "joined"
  /\ UNCHANGED <<qvars, todo, running, done, dead, pills, early>>

Killing == AddPill \/ BeginJoin \/ Joined
Work(w) == Loop(w) \/ Wait(w) \/ takeJob(w) \/ RunJob(w)

Next ==
  \/ \E t \in Producers, p \in {"HIGH", "LOW"} : addJob(t, p)
  \/ \E t \in Producers : Enqueue(t)
  \/ \E w \in Workers : Work(w)
  \/ \E t \in Threads : Wakeup(t)
  \/ BeginKill \/ Killing

Spec == Init /\ [][Next]_vars

(* A thread inside a call runs on unless it sleeps; workers do not stop.   *)
FairSpec ==
  /\ Spec
  /\ \A t \in Producers : WF_vars(Enqueue(t))
  /\ \A w \in Workers : WF_vars(Work(w))
  /\ WF_vars(Killing)
-----------------------------------------------------------------------------
(* A job that was added is in exactly one place: with its producer, in the *)
(* queue, with one worker, or done; and it is done once.                   *)
JobInOnePlace ==
  \A j \in Jobs \ todo :
    Cardinality({t \in Producers : arg[t] = j}) + Cardinality({i \in 1..size : Contents[i] = j})
      + Cardinality({w \in Workers : running[w] = j}) + Cardinality({i \in DOMAIN done : done[i] = j}) = 1

(* When thrpool_kill returns, every job that was in the pool when it was   *)
(* called has been run: the NULL jobs go in behind them.                   *)
KilledMeansDone == kill = "joined" => \A j \in early : \E i \in DOMAIN done : done[i] = j

(* thrpool_kill returns, however full the queue and whoever sleeps.        *)
KillEnds == kill # "no" ~> kill = "joined"

(* A job added to a pool that is not being killed gets run.                *)
JobsGetRun ==
  \A j \in Jobs : (j \notin todo /\ kill = "no") ~>
                    (kill # "no" \/ \E i \in DOMAIN done : done[i] = j)
=============================================================================
