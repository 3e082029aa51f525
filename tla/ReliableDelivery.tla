--------------------------- MODULE ReliableDelivery ---------------------------
(***************************************************************************)
(* What a sender may rely on when the receiver of its messages can crash   *)
(* and the network between them loses, repeats and delays: work on a       *)
(* message may be begun again and again until it is recorded as done once, *)
(* never afterwards, and only then is the sender told.  Neither the record *)
(* nor what the sender was told is ever taken back.                        *)
(***************************************************************************)
CONSTANT Message

VARIABLES
  stored,     (* The messages the sender keeps.                            *)
  working,    (* The message being worked on, if any.                      *)
  done,       (* The receiver's durable record.                            *)
  told        (* The messages the sender knows to be done.                 *)

Init == stored = {} /\ working = {} /\ done = {} /\ told = {}

Store(m) ==
  /\ stored' = stored \cup {m}
  /\ UNCHANGED <<working, done, told>>

\* However many copies of m have arrived, by whatever way.
Begin(m) ==
  /\ working = {}
  /\ m \in stored \ (done \cup told)
  /\ working' = {m}
  /\ UNCHANGED <<stored, done, told>>

\* The work is deferred, refused, given up, or lost in a crash.
Interrupt ==
  /\ working # {}
  /\ working' = {}
  /\ UNCHANGED <<stored, done, told>>

Record(m) ==
  /\ m \in working
  /\ done' = done \cup {m}
  /\ working' = {}
  /\ UNCHANGED <<stored, told>>

Tell(m) ==
  /\ m \in done
  /\ told' = told \cup {m}
  /\ UNCHANGED <<stored, working, done>>

Next ==
  \/ Interrupt
  \/ \E m \in Message : Store(m) \/ Begin(m) \/ Record(m) \/ Tell(m)

Spec == Init /\ [][Next]_<<stored, working, done, told>>
===============================================================================
