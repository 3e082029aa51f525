------------------------------ MODULE RowLedger ------------------------------
(***************************************************************************)
(* What a session may rely on about the rows that an expensive turn made   *)
(* it put off, whatever crashes.  An episode holds rows back while it is   *)
(* open; it is closed by one verdict, which approves it or not.  Only an   *)
(* approved episode lets rows go: in their order, one at a time, and the   *)
(* next one when the last has run.  No row's entry ever goes back, and no  *)
(* row runs that the current episode holds back.                           *)
(***************************************************************************)
EXTENDS Naturals

CONSTANTS Row, Episode  \* sets of numbers

VARIABLES
  current,   \* the last episode begun, 0 if none
  open,      \* it has no verdict yet
  approved,  \* the episodes with a good one
  ledger,    \* per episode and row: none, deferred, releasing, replayed
  runs       \* per row: turns completed

Init ==
  /\ current = 0 /\ open = FALSE /\ approved = {}
  /\ ledger = [e \in Episode |-> [r \in Row |-> "none"]]
  /\ runs = [r \in Row |-> 0]

\* Episode e holds back the rows of S that it does not know.
Held(e, S) ==
  [ledger EXCEPT ![e] =
     [r \in Row |-> IF @[r] = "none" /\ r \in S THEN "deferred" ELSE @[r]]]

Begin(S) ==
  /\ ~open /\ current + 1 \in Episode
  /\ current' = current + 1 /\ open' = TRUE
  /\ ledger' = Held(current + 1, S)
  /\ UNCHANGED <<approved, runs>>

Extend(S) ==
  /\ open
  /\ ledger' = Held(current, S)
  /\ UNCHANGED <<current, open, approved, runs>>

\* The first row left of an approved episode is let go: one that was out when
\* the process stopped is let go again before any other.
LetsGo(L) ==
  \E e \in approved', r \in Row :
    /\ \A q \in Row : L[e][q] \in {"deferred", "releasing"} => r <= q
    /\ \A q \in Row : L[e][q] = "releasing" => q = r
    /\ L[e][r] \in {"deferred", "releasing"}
    /\ ledger' = [L EXCEPT ![e][r] = "releasing"]

Approve ==
  /\ open /\ open' = FALSE
  /\ approved' = approved \cup {current}
  /\ ledger' = ledger \/ LetsGo(ledger)
  /\ UNCHANGED <<current, runs>>

Reject ==
  /\ open /\ open' = FALSE
  /\ UNCHANGED <<current, approved, ledger, runs>>

Release ==
  /\ LetsGo(ledger)
  /\ UNCHANGED <<current, open, approved, runs>>

\* A row is done with once it has run; its episode may go on at once.
Finish(e, r) ==
  LET L == [ledger EXCEPT ![e][r] = "replayed"] IN
  /\ ledger[e][r] = "releasing" /\ runs[r] > 0
  /\ ledger' = L \/ LetsGo(L)
  /\ UNCHANGED <<current, open, approved, runs>>

Run(r) ==
  /\ current \in Episode => ledger[current][r] # "deferred"
  /\ runs' = [runs EXCEPT ![r] = @ + 1]
  /\ UNCHANGED <<current, open, approved, ledger>>

Next ==
  \/ \E S \in SUBSET Row : Begin(S) \/ Extend(S)
  \/ Approve \/ Reject \/ Release
  \/ \E e \in Episode, r \in Row : Finish(e, r)
  \/ \E r \in Row : Run(r)

Spec == Init /\ [][Next]_<<current, open, approved, ledger, runs>>
==============================================================================
