------------------------------- MODULE JobTable -------------------------------
(***************************************************************************)
(* What an agent may rely on of its scheduled jobs when its process can    *)
(* crash: the table changes by whole operations, each on one job and       *)
(* durable before anybody acts on it.  A job comes to its turn only while  *)
(* the table has it as claimed, it is claimed only when a firing is due,   *)
(* and neither a completion nor anything else takes a firing back or       *)
(* revives a job that is over.  All this holds until something breaks it,  *)
(* and is not promised any more from then on.                              *)
(***************************************************************************)
EXTENDS Integers

CONSTANT Job

VARIABLES
  table,    \* the durable records: [enabled, running, next]
  waiting,  \* the jobs that wait for their turn or have it
  now,      \* per job: the firings whose time has come
  broken    \* may the promise no longer hold?

Init ==
  /\ table = << >>
  /\ waiting = {}
  /\ now = [j \in Job |-> 0]

\* The table changes at job j only.
OnlyAt(j) == table' = [i \in DOMAIN table \cup {j} |-> IF i = j THEN table'[j] ELSE table[i]]

Create(j) ==
  /\ j \notin DOMAIN table /\ j \in DOMAIN table'
  /\ OnlyAt(j)
  /\ table'[j].enabled /\ ~table'[j].running
  /\ table'[j].next > now[j]
  /\ UNCHANGED <<waiting, now>>

Delete(j) ==
  /\ j \in DOMAIN table
  /\ table' = [i \in DOMAIN table \ {j} |-> table[i]]
  /\ UNCHANGED <<waiting, now>>

Claim(j) ==
  /\ j \in DOMAIN table /\ table[j].enabled /\ table[j].next <= now[j]
  /\ table' = [table EXCEPT ![j].running = TRUE]
  /\ UNCHANGED <<waiting, now>>

\* A one-shot is over; a repeating job waits for a firing not before this one.
Complete(j) ==
  /\ j \in DOMAIN table /\ j \in DOMAIN table'
  /\ OnlyAt(j)
  /\ ~table'[j].running
  /\ table'[j].next >= table[j].next
  /\ table'[j].enabled => table[j].enabled
  /\ UNCHANGED <<waiting, now>>

Submit(j) ==
  /\ j \in DOMAIN table /\ table[j].running
  /\ waiting' = waiting \cup {j}
  /\ UNCHANGED <<table, now>>

\* The turn is over or given up, or the process stops.
Leave ==
  /\ waiting' \subseteq waiting
  /\ UNCHANGED <<table, now>>

Fire(j) ==
  /\ now' = [now EXCEPT ![j] = @ + 1]
  /\ UNCHANGED <<table, waiting>>

Next ==
  \/ Leave
  \/ \E j \in Job : \/ Create(j) \/ Delete(j) \/ Claim(j) \/ Complete(j)
                    \/ Submit(j) \/ Fire(j)

Spec == Init /\ [][broken' \/ Next]_<<table, waiting, now>>
===============================================================================
