---------------------------- MODULE DeliveryProofs ----------------------------
(***************************************************************************)
(* Proofs about the delivery queue, for every set of entries, any number   *)
(* of passes, restarts, failing file operations and retries.               *)
(***************************************************************************)
EXTENDS DeliveryQueue, TLAPS

(***************************************************************************)
(* What holds in every history.                                            *)
(***************************************************************************)
Typed == TypeOK /\ todo = [w \in Workers |-> todo[w]]

\* w is between the beginning of an attempt, or of giving up, and its end.
Busy(w, e) == at[w] = e /\ pc[w] \notin {"idle", "load", "clean", "next"}

\* An entry is acknowledged after a send.
AckAfterSend == \A w \in Workers : pc[w] = "ack" => sent[at[w]] > 0

\* Before it is enqueued there is nothing of an entry.
Unissued ==
  \A e \in Entries \ issued :
    /\ \A n \in Names : file[e][n] = Absent
    /\ pc[e] = "idle" /\ sent[e] = 0 /\ e \notin acked /\ e \notin misread
    /\ \A w \in Workers :
         ~Busy(w, e) /\ ~(pc[w] = "clean" /\ at[w] = e) /\ e \notin listed[w] /\ e \notin DOMAIN todo[w]

\* Until its first attempt has an outcome, every count that was read of an entry
\* is zero, and nobody else can be made to attempt it.
FirstAttempt ==
  \A e \in Entries :
    pc[e] = "send" =>
      /\ file[e]["json"] \in {0, Absent}
      /\ \A w \in Workers \ {e} : ~Busy(w, e)
      /\ \A w \in Workers : e \in DOMAIN todo[w] => todo[w][e] = 0

\* Only a pass that is under way has entries ahead of it.
Rested == \A w \in Workers : pc[w] = "idle" => DOMAIN todo[w] = {}

Always == Typed /\ AckAfterSend /\ Unissued /\ FirstAttempt /\ Rested

(***************************************************************************)
(* What holds while passes have not overlapped.                            *)
(***************************************************************************)
Passes == Ticks \cup {Boot}

OnePass == \A w, v \in Passes : w # v => pc[w] = "idle" \/ pc[v] = "idle"

OneAtIt == \A e \in Entries : \A w, v \in Workers : Busy(w, e) /\ Busy(v, e) => w = v

\* What a pass may still attempt can be read, and nobody is at it.
Ahead ==
  \A w \in Workers : \A e \in Retriable(w) :
    /\ file[e]["json"] \in Nat
    /\ e \notin listed[w] /\ ~(pc[w] = "clean" /\ at[w] = e)
    /\ \A v \in Workers : ~Busy(v, e)

\* An entry somebody is at can be read, unless a pass has misread it; what a pass
\* is to remove it has misread, or it is gone already.
Present ==
  \A w \in Workers : \A e \in Entries \ misread :
    /\ Busy(w, e) => file[e]["json"] \in Nat
    /\ pc[w] = "clean" /\ at[w] = e => file[e]["json"] = Absent

Whole == \A e \in Entries : file[e]["json"] \in Nat \cup {Absent}

\* What a worker writes to is its own until it has its place.
Writing ==
  \A w \in Workers :
    /\ pc[w] = "write" => fd[w] = via[w] /\ file[at[w]][via[w]] = Blank
    /\ pc[w] = "rename" => via[w] # "failed" /\ file[at[w]][via[w]] \in Nat
    /\ pc[w] = "away" => via[w] = "moving"
    /\ pc[w] = "unlink" => file[at[w]]["failed"] \in Nat

\* The count stays zero during the first attempt; a move that ends it is inside
\* the backoff, where no pass looks.
ChannelShy ==
  \A e \in Entries :
    pc[e] # "idle" =>
      \/ file[e]["json"] \in {0, Absent}
      \/ e \in cooling /\ pc[e] \in FileSteps

\* A pass has still to read what it has not read; only passes give entries up
\* before they attempt them.
Apart ==
  /\ \A w \in Workers : DOMAIN todo[w] \cap listed[w] = {}
  /\ stale \cap Entries = {}

Kept ==
  \A e \in issued \ misread :
    sent[e] > 0 \/ file[e]["json"] \in Nat \/ file[e]["failed"] \in Nat

Acking(e) == \E w \in Workers : pc[w] = "ack" /\ at[w] = e

Held(e) == file[e]["json"] # Absent \/ \E w \in Workers : Busy(w, e)

\* An entry that is held, and that nobody is about to acknowledge, has a send to
\* spare.
Budget ==
  \A e \in Entries :
    /\ sent[e] <= 1 + crashes + faults
    /\ Held(e) /\ ~Acking(e) => sent[e] <= crashes + faults

Gone == \A e \in acked : ~Held(e)

\* As long as nothing has failed, failed/ has what nobody holds any more.
Unfailing ==
  faults = 0 =>
    /\ misread = {}
    /\ \A w \in Workers : via[w] # "failed"
    /\ \A e \in Entries : file[e]["failed"] # Absent => ~Held(e) /\ e \notin acked

Calm ==
  /\ OnePass /\ OneAtIt /\ Ahead /\ Present /\ Whole /\ Writing
  /\ ChannelShy /\ Apart /\ Kept /\ Budget /\ Gone /\ Unfailing

IInv == Always /\ (~overlapped => Calm)

LEMMA EmptyPass == DOMAIN << >> = {}
OBVIOUS

(***************************************************************************)
(* The files.                                                              *)
(***************************************************************************)
Filed == file \in [Entries -> [Names -> Contents]]

\* A file of one entry gets a new content.
LEMMA Put ==
  ASSUME Filed, NEW e \in Entries, NEW n \in Names, NEW c \in Contents,
         file' = [file EXCEPT ![e][n] = c]
  PROVE  /\ Filed'
         /\ file'[e][n] = c
         /\ \A m \in Names \ {n} : file'[e][m] = file[e][m]
         /\ \A d \in Entries \ {e} : file'[d] = file[d]
BY DEF Filed

\* One is renamed over another.
LEMMA Moved ==
  ASSUME Filed, NEW e \in Entries, NEW n \in Names, NEW m \in Names, n # m,
         file' = [file EXCEPT ![e] = Renamed(@, n, m)]
  PROVE  /\ Filed'
         /\ file'[e][m] = file[e][n] /\ file'[e][n] = Absent
         /\ \A k \in Names \ {n, m} : file'[e][k] = file[e][k]
         /\ \A d \in Entries \ {e} : file'[d] = file[d]
<1> DEFINE f == Renamed(file[e], n, m)
<1>1. file[e] \in [Names -> Contents]
  BY DEF Filed
<1>2. /\ f \in [Names -> Contents]
      /\ f[m] = file[e][n] /\ f[n] = Absent
      /\ \A k \in Names \ {n, m} : f[k] = file[e][k]
  BY <1>1 DEF Renamed, Contents
<1>3. file' = [file EXCEPT ![e] = f]
  OBVIOUS
<1> HIDE DEF f
<1>4. file'[e] = f /\ \A d \in Entries \ {e} : file'[d] = file[d]
  BY <1>3 DEF Filed
<1>5. Filed'
  BY <1>2, <1>3 DEF Filed
<1> QED
  BY <1>2, <1>4, <1>5

\* Those who have opened a file keep it, or another, or a lost one.
LEMMA Following ==
  ASSUME NEW e \in Entries, NEW where, Follow(e, where),
         fd \in [Workers -> Names \cup {"none", "gone"}],
         \A n \in Names \cup {"gone"} : where[n] \in Names \cup {"gone"},
         where["none"] = "none"
  PROVE  /\ fd' \in [Workers -> Names \cup {"none", "gone"}]
         /\ \A w \in Workers : fd'[w] = "none" <=> fd[w] = "none"
         /\ \A w \in Workers : at[w] # e => fd'[w] = fd[w]
BY DEF Follow, Names

LEMMA Unlinking ==
  ASSUME Filed, NEW e \in Entries, Unlink(e), fd \in [Workers -> Names \cup {"none", "gone"}]
  PROVE  /\ Filed'
         /\ file'[e]["json"] = Absent
         /\ \A m \in Names \ {"json"} : file'[e][m] = file[e][m]
         /\ \A d \in Entries \ {e} : file'[d] = file[d]
         /\ fd' \in [Workers -> Names \cup {"none", "gone"}]
         /\ \A w \in Workers : fd'[w] = "none" <=> fd[w] = "none"
         /\ \A w \in Workers : at[w] # e \/ fd[w] # "json" => fd'[w] = fd[w]
<1>1. "json" \in Names /\ Absent \in Contents
  BY DEF Names, Contents
<1>2. file' = [file EXCEPT ![e]["json"] = Absent]
  BY DEF Unlink
<1> DEFINE where == [n \in Names \cup {"none", "gone"} |-> IF n = "json" THEN "gone" ELSE n]
<1>3. Follow(e, where)
  BY DEF Unlink
<1>4. /\ \A n \in Names \cup {"gone"} : where[n] \in Names \cup {"gone"}
      /\ where["none"] = "none"
      /\ \A n \in Names \cup {"none", "gone"} : n # "json" => where[n] = n
  BY DEF Names
<1> HIDE DEF where
<1>5. \A w \in Workers : at[w] # e \/ fd[w] # "json" => fd'[w] = fd[w]
  BY <1>3, <1>4 DEF Follow
<1>6. /\ fd' \in [Workers -> Names \cup {"none", "gone"}]
      /\ \A w \in Workers : fd'[w] = "none" <=> fd[w] = "none"
  BY <1>3, <1>4, Following
<1>7. /\ Filed'
      /\ file'[e]["json"] = Absent
      /\ \A m \in Names \ {"json"} : file'[e][m] = file[e][m]
      /\ \A d \in Entries \ {e} : file'[d] = file[d]
  BY <1>1, <1>2, Put
<1> QED
  BY <1>5, <1>6, <1>7

LEMMA Renaming ==
  ASSUME Filed, NEW e \in Entries, NEW n \in Names, NEW m \in Names, n # m, Rename(e, n, m),
         fd \in [Workers -> Names \cup {"none", "gone"}]
  PROVE  /\ Filed'
         /\ file'[e][m] = file[e][n] /\ file'[e][n] = Absent
         /\ \A k \in Names \ {n, m} : file'[e][k] = file[e][k]
         /\ \A d \in Entries \ {e} : file'[d] = file[d]
         /\ fd' \in [Workers -> Names \cup {"none", "gone"}]
         /\ \A w \in Workers : fd'[w] = "none" <=> fd[w] = "none"
         /\ \A w \in Workers : at[w] # e => fd'[w] = fd[w]
<1>2. file' = [file EXCEPT ![e] = Renamed(@, n, m)]
  BY DEF Rename
<1> DEFINE where == [k \in Names \cup {"none", "gone"} |->
                       IF k = n THEN m ELSE IF k = m THEN "gone" ELSE k]
<1>3. Follow(e, where)
  BY DEF Rename
<1>4. /\ \A k \in Names \cup {"gone"} : where[k] \in Names \cup {"gone"}
      /\ where["none"] = "none"
  BY DEF Names
<1> HIDE DEF where
<1>5. /\ fd' \in [Workers -> Names \cup {"none", "gone"}]
      /\ \A w \in Workers : fd'[w] = "none" <=> fd[w] = "none"
      /\ \A w \in Workers : at[w] # e => fd'[w] = fd[w]
  BY <1>3, <1>4, Following
<1>6. /\ Filed'
      /\ file'[e][m] = file[e][n] /\ file'[e][n] = Absent
      /\ \A k \in Names \ {n, m} : file'[e][k] = file[e][k]
      /\ \A d \in Entries \ {e} : file'[d] = file[d]
  BY <1>2, Moved
<1> QED
  BY <1>5, <1>6

(***************************************************************************)
(* A worker that is at an entry.                                           *)
(***************************************************************************)
Steps == {"idle", "load", "clean", "next", "send"} \cup FileSteps

Work(w) == Send(w) \/ Settle(w) \/ (StepFails(w) /\ pc[w] # "clean")

\* The variables of one worker's call.
Locals ==
  /\ pc \in [Workers -> Steps]
  /\ seen \in [Workers -> Nat]
  /\ via \in [Workers -> {"tmp", "moving", "failed"}]
  /\ stale \subseteq Workers

\* A step of w leaves those of the others alone.
Others(w) ==
  \A v \in Workers \ {w} :
    pc'[v] = pc[v] /\ via'[v] = via[v] /\ seen'[v] = seen[v] /\ (v \in stale' <=> v \in stale)

After(w) == IF w \in Entries THEN "idle" ELSE "next"

LEMMA GoOn ==
  ASSUME Locals, NEW w \in Workers, NEW step \in Steps, Go(w, step), UNCHANGED call
  PROVE  Locals' /\ Others(w) /\ pc'[w] = step /\ via'[w] = via[w] /\ stale' = stale
BY DEF Locals, Go, Others, call

LEMMA DoneIt ==
  ASSUME Locals, NEW w \in Workers, Done(w)
  PROVE  Locals' /\ Others(w) /\ pc'[w] = After(w) /\ via'[w] = "tmp" /\ stale' \subseteq stale
BY DEF Locals, Done, Go, Others, After, Steps

LEMMA Throwing ==
  ASSUME Locals, NEW w \in Workers, Throws(w)
  PROVE  /\ Locals' /\ Others(w) /\ stale' \subseteq stale
         /\ \/ via[w] = "moving" /\ pc'[w] = "open" /\ via'[w] = "failed"
            \/ via[w] # "moving" /\ pc'[w] = After(w) /\ via'[w] = "tmp"
<1>1. CASE via[w] = "moving"
  BY <1>1 DEF Locals, Throws, Go, Others, Steps, FileSteps, WriteSteps
<1>2. CASE via[w] # "moving"
  BY <1>2, DoneIt DEF Throws
<1> QED
  BY <1>1, <1>2

\* The last step of a call and where it leads, by what it does with the file.
LEMMA WorkCases ==
  ASSUME Always, NEW w \in Workers, Work(w)
  PROVE  /\ pc[w] \in {"send"} \cup FileSteps
         /\ UNCHANGED <<recovering, at, listed, todo, issued, misread, overlapped, crashes>>
         /\ Locals' /\ Others(w)
         /\ pc'[w] \in FileSteps \cup {After(w)}
<1> USE DEF pass, call, history
<1>1. Locals
  BY DEF Always, Typed, TypeOK, Locals, Steps
<1>2. CASE SendOk(w) \/ SendFails(w)
  <2>1. \E step \in {"ack", "read"} : Go(w, step) /\ UNCHANGED call
    BY <1>2 DEF SendOk, SendFails
  <2>2. Locals' /\ Others(w) /\ pc'[w] \in FileSteps
    BY <1>1, <2>1, GoOn DEF Steps, FileSteps
  <2> QED
    BY <1>2, <2>2 DEF SendOk, SendFails
<1>3. CASE Ack(w) \/ UnlinkMoved(w)
  <2>1. Locals' /\ Others(w) /\ pc'[w] = After(w)
    BY <1>1, <1>3, DoneIt DEF Ack, UnlinkMoved
  <2> QED
    BY <1>3, <2>1 DEF Ack, UnlinkMoved, FileSteps
<1>4. CASE ReadFailed(w)
  <2>1. CASE Done(w)
    <3>1. Locals' /\ Others(w) /\ pc'[w] = After(w)
      BY <1>1, <2>1, DoneIt
    <3> QED
      BY <1>4, <3>1 DEF ReadFailed, FileSteps
  <2>2. CASE file[at[w]]["json"] \in Nat
    <3>1. /\ seen' = [seen EXCEPT ![w] = file[at[w]]["json"] + 1]
          /\ \E name \in {"moving", "tmp"} : via' = [via EXCEPT ![w] = name]
          /\ Go(w, "open") /\ UNCHANGED stale
      BY <1>4, <2>2 DEF ReadFailed, Ways, Scratch
    <3>2. file[at[w]]["json"] + 1 \in Nat
      BY <2>2
    <3>3. Locals' /\ Others(w) /\ pc'[w] = "open"
      BY <1>1, <3>1, <3>2 DEF Locals, Go, Others, Steps, FileSteps, WriteSteps
    <3> QED
      BY <1>4, <3>3 DEF ReadFailed, FileSteps, WriteSteps
  <2> QED
    BY <1>4, <2>1, <2>2 DEF ReadFailed
<1>5. CASE Open(w) \/ Write(w)
  <2>1. \E step \in {"write", "unlink", "rename"} : Go(w, step) /\ UNCHANGED call
    BY <1>5 DEF Open, Write
  <2>2. Locals' /\ Others(w) /\ pc'[w] \in FileSteps
    BY <1>1, <2>1, GoOn DEF Steps, FileSteps, WriteSteps
  <2> QED
    BY <1>5, <2>2 DEF Open, Write, FileSteps, WriteSteps
<1>6. CASE RenameTmp(w) \/ MoveAway(w)
  <2>1. Throws(w) \/ Done(w) \/ (Go(w, "away") /\ UNCHANGED call)
    BY <1>6 DEF RenameTmp, MoveAway
  <2>2. Locals' /\ Others(w) /\ pc'[w] \in FileSteps \cup {After(w)}
    BY <1>1, <2>1, GoOn, DoneIt, Throwing DEF Steps, FileSteps, WriteSteps
  <2> QED
    BY <1>6, <2>2 DEF RenameTmp, MoveAway, FileSteps, WriteSteps
<1>7. CASE StepFails(w) /\ pc[w] # "clean"
  <2>1. Throws(w) \/ Done(w)
    BY <1>7 DEF StepFails
  <2>2. Locals' /\ Others(w) /\ pc'[w] \in FileSteps \cup {After(w)}
    BY <1>1, <2>1, DoneIt, Throwing DEF FileSteps, WriteSteps
  <2> QED
    BY <1>7, <2>2 DEF StepFails
<1> QED
  BY <1>2, <1>3, <1>4, <1>5, <1>6, <1>7 DEF Work, Send, Settle

\* Such a step touches the files of its own entry only.
LEMMA WorkFiles ==
  ASSUME Always, NEW w \in Workers, Work(w)
  PROVE  /\ at[w] \in Entries /\ Filed'
         /\ \A d \in Entries \ {at[w]} : file'[d] = file[d]
         /\ fd' \in [Workers -> Names \cup {"none", "gone"}]
         /\ \A v \in Workers : pc'[v] = "write" <=> fd'[v] # "none"
         /\ \A v \in Workers \ {w} : at[v] # at[w] => fd'[v] = fd[v]
<1> DEFINE e == at[w]
<1> USE DEF pass, call, history
<1>1. /\ Filed /\ Locals /\ e \in Entries
      /\ fd \in [Workers -> Names \cup {"none", "gone"}]
      /\ \A v \in Workers : pc[v] = "write" <=> fd[v] # "none"
  BY DEF Always, Typed, TypeOK, Locals, Steps, Filed
<1>2. \A v \in Workers \ {w} : pc'[v] = pc[v]
  BY WorkCases DEF Others
<1> HIDE DEF e
<1>3. ASSUME /\ Filed' /\ \A d \in Entries \ {e} : file'[d] = file[d]
             /\ fd' \in [Workers -> Names \cup {"none", "gone"}]
             /\ \A v \in Workers \ {w} : fd'[v] = "none" <=> fd[v] = "none"
             /\ \A v \in Workers \ {w} : at[v] # e => fd'[v] = fd[v]
             /\ pc'[w] = "write" <=> fd'[w] # "none"
      PROVE  /\ Filed'
             /\ \A d \in Entries \ {e} : file'[d] = file[d]
             /\ fd' \in [Workers -> Names \cup {"none", "gone"}]
             /\ \A v \in Workers : pc'[v] = "write" <=> fd'[v] # "none"
             /\ \A v \in Workers \ {w} : at[v] # e => fd'[v] = fd[v]
  BY <1>1, <1>2, <1>3
<1>4. CASE SendOk(w) \/ SendFails(w) \/ ReadFailed(w)
  <2>1. pc'[w] # "write" /\ fd[w] = "none" /\ UNCHANGED <<file, fd>>
    BY <1>1, <1>4 DEF SendOk, SendFails, ReadFailed, Done, Go, Locals
  <2> QED
    BY <1>1, <1>3, <2>1 DEF Filed, e
<1>5. CASE Ack(w) \/ UnlinkMoved(w)
  <2>1. Unlink(e) /\ Done(w) /\ fd[w] = "none"
    BY <1>1, <1>5 DEF Ack, UnlinkMoved, e
  <2>2. pc'[w] # "write"
    BY <1>1, <2>1, DoneIt DEF After
  <2>3. /\ Filed' /\ \A d \in Entries \ {e} : file'[d] = file[d]
        /\ fd' \in [Workers -> Names \cup {"none", "gone"}]
        /\ \A v \in Workers : fd'[v] = "none" <=> fd[v] = "none"
        /\ \A v \in Workers : at[v] # e => fd'[v] = fd[v]
    BY <1>1, <2>1, Unlinking
  <2> QED
    BY <1>1, <1>3, <2>1, <2>2, <2>3 DEF e
<1>6. CASE Open(w)
  <2>1. /\ file' = [file EXCEPT ![e][via[w]] = Blank] /\ fd' = [fd EXCEPT ![w] = via[w]]
        /\ pc' = [pc EXCEPT ![w] = "write"]
    BY <1>6 DEF Open, Go, e
  <2>2. via[w] \in Names /\ via[w] # "none" /\ Blank \in Contents
    BY <1>1 DEF Locals, Names, Contents
  <2>3. Filed' /\ \A d \in Entries \ {e} : file'[d] = file[d]
    BY <1>1, <2>1, <2>2, Put
  <2> QED
    BY <1>1, <1>3, <2>1, <2>2, <2>3 DEF Locals, e
<1>7. CASE Write(w)
  <2>1. /\ \/ file' = file
           \/ /\ fd[w] # "gone"
              /\ \E x \in Overwritten(file[e][fd[w]], seen[w]) : file' = [file EXCEPT ![e][fd[w]] = x]
        /\ fd' = [fd EXCEPT ![w] = "none"] /\ pc[w] = "write"
        /\ \E step \in {"unlink", "rename"} : pc' = [pc EXCEPT ![w] = step]
    BY <1>7 DEF Write, Go, e
  <2>2. Overwritten(file[e][fd[w]], seen[w]) \subseteq Contents
    BY <1>1 DEF Overwritten, Contents, Locals
  <2>3. fd[w] \in Names \/ fd[w] = "gone"
    BY <1>1, <2>1
  <2>4. Filed' /\ \A d \in Entries \ {e} : file'[d] = file[d]
    <3>1. CASE file' = file
      BY <1>1, <3>1 DEF Filed
    <3>2. CASE file' # file
      BY <1>1, <2>1, <2>2, <2>3, <3>2, Put
    <3> QED
      BY <3>1, <3>2
  <2> QED
    BY <1>1, <1>3, <2>1, <2>4 DEF Locals, e
<1>8. CASE RenameTmp(w) \/ MoveAway(w)
  <2>1. fd[w] = "none" /\ pc[w] \in {"rename", "away"}
    BY <1>1, <1>8 DEF RenameTmp, MoveAway
  <2>2. pc'[w] # "write"
    <3>1. Throws(w) \/ Done(w) \/ (Go(w, "away") /\ UNCHANGED call)
      BY <1>8 DEF RenameTmp, MoveAway
    <3> QED
      BY <1>1, <3>1, Throwing, DoneIt, GoOn DEF After, Steps, FileSteps, WriteSteps
  <2>3. CASE UNCHANGED <<file, fd>>
    BY <1>1, <1>3, <2>1, <2>2, <2>3 DEF Filed, e
  <2>4. CASE \E n \in Names, m \in Names : n # m /\ Rename(e, n, m)
    <3>1. /\ Filed' /\ \A d \in Entries \ {e} : file'[d] = file[d]
          /\ fd' \in [Workers -> Names \cup {"none", "gone"}]
          /\ \A v \in Workers : fd'[v] = "none" <=> fd[v] = "none"
          /\ \A v \in Workers : at[v] # e => fd'[v] = fd[v]
      BY <1>1, <2>4, Renaming
    <3> QED
      BY <1>1, <1>3, <2>1, <2>2, <3>1 DEF e
  <2>5. UNCHANGED <<file, fd>> \/ \E n \in Names, m \in Names : n # m /\ Rename(e, n, m)
    <3>1. via[w] \in Names /\ via[w] # "json" /\ "json" \in Names /\ "failed" \in Names
      BY <1>1 DEF Locals, Names
    <3> QED
      BY <1>8, <3>1 DEF RenameTmp, MoveAway, e
  <2> QED
    BY <2>3, <2>4, <2>5 DEF e
<1>9. CASE StepFails(w) /\ pc[w] # "clean"
  <2>1. UNCHANGED file /\ fd' = [fd EXCEPT ![w] = "none"] /\ (Throws(w) \/ Done(w))
    BY <1>9 DEF StepFails
  <2>2. pc'[w] # "write"
    BY <1>1, <2>1, Throwing, DoneIt DEF After
  <2> QED
    BY <1>1, <1>3, <2>1, <2>2 DEF Filed, e
<1> QED
  BY <1>1, <1>4, <1>5, <1>6, <1>7, <1>8, <1>9 DEF Work, Send, Settle, e

(***************************************************************************)
(* A worker that passes over the entries.                                  *)
(***************************************************************************)
Read(w) ==
  \/ Pass(w) \/ (StepFails(w) /\ pc[w] = "clean")
  \/ \E e \in Entries : LoadFails(w, e)

LEMMA ReadSplit ==
  ASSUME NEW w \in Workers, Read(w)
  PROVE  \/ Load(w) \/ Clean(w) \/ EndLoad(w) \/ Skip(w) \/ EndPass(w)
         \/ \E e \in Entries : LoadEntry(w, e)
         \/ \E e \in Entries : LoadCorrupt(w, e)
         \/ \E e \in Entries : LoadFails(w, e)
         \/ \E e \in Entries : Attempt(w, e)
         \/ \E e \in Entries : GiveUp(w, e)
         \/ StepFails(w) /\ pc[w] = "clean"
BY DEF Read, Pass

\* A pass goes on with fewer of the entries it has read.
LEMMA RestShrinks ==
  ASSUME todo = [v \in Workers |-> todo[v]], NEW w \in Workers, NEW e, todo' = Rest(w, e)
  PROVE  /\ todo' = [v \in Workers |-> todo'[v]]
         /\ DOMAIN todo'[w] = DOMAIN todo[w] \ {e}
         /\ \A d \in DOMAIN todo'[w] : todo'[w][d] = todo[w][d]
         /\ \A v \in Workers \ {w} : todo'[v] = todo[v]
BY DEF Rest

\* It reads the counts of pending entries.
LEMMA EntryRead ==
  ASSUME todo = [v \in Workers |-> todo[v]], NEW w \in Workers, NEW e, LoadEntry(w, e)
  PROVE  /\ todo' = [v \in Workers |-> todo'[v]]
         /\ \A d \in DOMAIN todo'[w] :
              \/ d \in DOMAIN todo[w] /\ d # e /\ todo'[w][d] = todo[w][d]
              \/ d = e /\ todo'[w][d] = file[d]["json"] /\ (w = Boot \/ d \notin cooling)
              \/ d = e /\ d \in DOMAIN todo[w] /\ todo'[w][d] = file[d]["json"]
         /\ \A v \in Workers \ {w} : todo'[v] = todo[v]
<1> DEFINE D == DOMAIN todo[w] \cup ({e} \ (IF w = Boot THEN {} ELSE cooling))
           f == [d \in D |-> IF d = e THEN file[e]["json"] ELSE todo[w][d]]
<1>1. todo' = [todo EXCEPT ![w] = f]
  BY DEF LoadEntry
<1>2. todo' = [v \in Workers |-> IF v = w THEN f ELSE todo[v]]
  BY <1>1
<1>3. DOMAIN f = D /\ \A d \in D : f[d] = IF d = e THEN file[e]["json"] ELSE todo[w][d]
  OBVIOUS
<1>4. \A d \in D : d \in DOMAIN todo[w] \/ (d = e /\ (w = Boot \/ d \notin cooling))
  OBVIOUS
<1> HIDE DEF D, f
<1>5. todo'[w] = f /\ \A v \in Workers \ {w} : todo'[v] = todo[v]
  BY <1>2
<1> QED
  BY <1>2, <1>3, <1>4, <1>5

\* Its steps, by what they leave alone.
LEMMA ReadCases ==
  ASSUME Always, NEW w \in Workers, Read(w)
  PROVE  /\ w \in Passes /\ w \notin Entries
         /\ pc[w] \in {"idle", "load", "clean", "next"}
         /\ pc'[w] \in Steps /\ pc'[w] \notin {"write", "ack"}
         /\ pc' = [pc EXCEPT ![w] = pc'[w]]
         /\ \A v \in Workers \ {w} : at'[v] = at[v]
         /\ UNCHANGED <<cooling, issued, sent, acked, crashes>>
         /\ Busy(w, at[w])' => pc[w] = "next"
<1> USE DEF pass, call, history
<1>1. pc \in [Workers -> Steps]
  BY DEF Always, Typed, TypeOK, Steps
<1>2. /\ pc[w] \in {"idle", "load", "clean", "next"} /\ (pc[w] = "idle" => MayLoad(w))
      /\ \E step \in Steps \ {"write", "ack"} : Go(w, step) \/ UNCHANGED pc
      /\ (pc[w] # "next" => \E step \in {"idle", "load", "clean", "next"} : Go(w, step) \/ UNCHANGED pc)
  <2> USE DEF Steps, FileSteps, WriteSteps
  <2>1. CASE Load(w)
    BY <2>1 DEF Load
  <2>2. CASE \E e \in Entries : LoadEntry(w, e)
    BY <2>2 DEF LoadEntry, Listed
  <2>3. CASE \E e \in Entries : LoadCorrupt(w, e) \/ LoadFails(w, e)
    BY <2>3 DEF LoadCorrupt, LoadFails, Listed
  <2>4. CASE Clean(w) \/ EndLoad(w)
    BY <2>4 DEF Clean, EndLoad
  <2>5. CASE Skip(w) \/ EndPass(w)
    BY <2>5 DEF Skip, EndPass
  <2>6. CASE \E e \in Entries : Attempt(w, e) \/ GiveUp(w, e)
    BY <2>6 DEF Attempt, GiveUp
  <2>7. CASE StepFails(w) /\ pc[w] = "clean"
    BY <2>7 DEF StepFails
  <2> QED
    BY <2>1, <2>2, <2>3, <2>4, <2>5, <2>6, <2>7, ReadSplit
<1>3. /\ w \in Passes /\ w \notin Entries
  <2>1. MayLoad(w) => w = Boot \/ w \in Ticks
    BY DEF MayLoad
  <2>2. pc[w] # "idle" => w \notin Entries
    BY <1>2 DEF Always, Typed, TypeOK
  <2>3. w \in Ticks \cup {Boot} => w \notin Entries
    BY DeliveryAssumption
  <2> QED
    BY <1>2, <2>1, <2>2, <2>3 DEF Workers, Passes
<1>4. /\ pc'[w] \in Steps /\ pc'[w] \notin {"write", "ack"} /\ pc' = [pc EXCEPT ![w] = pc'[w]]
      /\ pc[w] # "next" => pc'[w] \in {"idle", "load", "clean", "next"}
  BY <1>1, <1>2 DEF Go
<1>5. UNCHANGED at \/ \E e \in Entries : at' = [at EXCEPT ![w] = e]
  BY DEF Read, Pass, Load, LoadEntry, LoadCorrupt, LoadFails, Clean, EndLoad, Skip, EndPass, Attempt,
         GiveUp, StepFails
<1>6. \A v \in Workers \ {w} : at'[v] = at[v]
  BY <1>5 DEF Always, Typed, TypeOK
<1>7. UNCHANGED <<cooling, issued, sent, acked, crashes>>
  BY DEF Read, Pass, Load, LoadEntry, LoadCorrupt, LoadFails, Clean, EndLoad, Skip, EndPass, Attempt,
         GiveUp, StepFails
<1>8. Busy(w, at[w])' => pc[w] = "next"
  BY <1>4 DEF Busy
<1> QED
  BY <1>2, <1>3, <1>4, <1>6, <1>7, <1>8

\* They remove the pending file they clean, and touch no other.
LEMMA ReadFiles ==
  ASSUME Always, NEW w \in Workers, Read(w)
  PROVE  /\ Filed'
         /\ fd' \in [Workers -> Names \cup {"none", "gone"}]
         /\ \A v \in Workers : pc'[v] = "write" <=> fd'[v] # "none"
         /\ \/ UNCHANGED <<file, fd>>
            \/ Clean(w) /\ Unlink(at[w])
<1> USE DEF pass, call, history
<1>1. /\ Filed /\ \A v \in Workers : at[v] \in Entries
      /\ fd \in [Workers -> Names \cup {"none", "gone"}]
      /\ \A v \in Workers : pc[v] = "write" <=> fd[v] # "none"
      /\ pc \in [Workers -> Steps]
  BY DEF Always, Typed, TypeOK, Filed, Steps
<1>2. UNCHANGED <<file, fd>> \/ (Clean(w) /\ Unlink(at[w]))
  <2>1. CASE StepFails(w) /\ pc[w] = "clean"
    BY <1>1, <2>1 DEF StepFails
  <2> QED
    BY <2>1 DEF Read, Pass, Load, LoadEntry, LoadCorrupt, LoadFails, Clean, EndLoad, Skip, EndPass,
                Attempt, GiveUp
<1>3. /\ Filed' /\ fd' \in [Workers -> Names \cup {"none", "gone"}]
      /\ \A v \in Workers : fd'[v] = "none" <=> fd[v] = "none"
  <2>1. CASE UNCHANGED <<file, fd>>
    BY <1>1, <2>1 DEF Filed
  <2>2. CASE Unlink(at[w])
    BY <1>1, <2>2, Unlinking
  <2> QED
    BY <1>2, <2>1, <2>2
<1>4. \A v \in Workers : pc'[v] = "write" <=> pc[v] = "write"
  BY <1>1, ReadCases
<1> QED
  BY <1>1, <1>2, <1>3, <1>4

(***************************************************************************)
(* What holds in every history is preserved.                               *)
(***************************************************************************)
\* During the recovery nobody else works, and it is at rest afterwards.
Startup ==
  /\ recovering \in BOOLEAN
  /\ recovering => \A w \in Workers \ {Boot} : pc[w] = "idle"
  /\ ~recovering => pc[Boot] = "idle"

\* The sets and counts that record what has happened.
Recorded ==
  /\ cooling \subseteq Entries /\ issued \subseteq Entries /\ acked \subseteq Entries
  /\ misread \subseteq Entries
  /\ sent \in [Entries -> Nat] /\ faults \in Nat /\ crashes \in Nat
  /\ overlapped \in BOOLEAN

\* Where the workers are, and what is ahead of them.
Placed ==
  /\ at \in [Workers -> Entries] /\ \A e \in issued : at[e] = e
  /\ listed \in [Workers -> SUBSET Entries]
  /\ todo = [w \in Workers |-> todo[w]]
  /\ \A w \in Workers : \A e \in DOMAIN todo[w] : e \in Entries /\ todo[w][e] \in Nat
  /\ \A e \in Entries : pc[e] \notin {"load", "clean", "next"} /\ todo[e] = << >>

Opened ==
  /\ fd \in [Workers -> Names \cup {"none", "gone"}]
  /\ \A w \in Workers : pc[w] = "write" <=> fd[w] # "none"

LEMMA TypedParts == Typed <=> Filed /\ Locals /\ Startup /\ Recorded /\ Placed /\ Opened
BY DEF Typed, TypeOK, Filed, Locals, Startup, Recorded, Placed, Opened, Steps

LEMMA TypedNext == (Filed /\ Locals /\ Startup /\ Recorded /\ Placed /\ Opened)' => Typed'
BY DEF Typed, TypeOK, Filed, Locals, Startup, Recorded, Placed, Opened, Steps

LEMMA TypedWork ==
  ASSUME Always, NEW w \in Workers, Work(w)
  PROVE  Typed'
<1> USE DEF pass, call, history
<1>1. Filed /\ Locals /\ Startup /\ Recorded /\ Placed /\ Opened
  BY TypedParts DEF Always
<1>2. /\ pc[w] \in {"send"} \cup FileSteps /\ Locals' /\ Others(w)
      /\ UNCHANGED <<recovering, at, listed, todo, issued, misread, overlapped, crashes>>
      /\ pc'[w] \in FileSteps \cup {After(w)}
  BY WorkCases
<1>3. Filed' /\ Opened'
  BY WorkFiles DEF Opened
<1>4. Startup'
  <2>1. pc[w] # "idle" /\ \A v \in Workers \ {w} : pc'[v] = pc[v]
    BY <1>2 DEF FileSteps, WriteSteps, Others
  <2>2. CASE recovering
    BY <1>1, <1>2, <2>1, <2>2 DEF Startup
  <2>3. CASE ~recovering
    BY <1>1, <1>2, <2>1, <2>3 DEF Startup, Workers
  <2> QED
    BY <2>2, <2>3
<1>5. Placed'
  <2>1. w \in Entries => pc'[w] \notin {"load", "clean", "next"}
    BY <1>2 DEF After, FileSteps, WriteSteps
  <2>2. \A e \in Entries : pc'[e] \notin {"load", "clean", "next"}
    BY <1>1, <1>2, <2>1 DEF Placed, Others, Workers
  <2> QED
    BY <1>1, <1>2, <2>2 DEF Placed
<1>6. Recorded'
  <2>1. at[w] \in Entries /\ Recorded /\ UNCHANGED <<issued, misread, overlapped, crashes>>
    BY <1>1, <1>2 DEF Placed
  <2>2. CASE SendOk(w)
    BY <2>1, <2>2 DEF SendOk, Recorded
  <2>3. CASE SendFails(w) \/ Ack(w) \/ ReadFailed(w) \/ Open(w) \/ Write(w) \/ UnlinkMoved(w)
    BY <2>1, <2>3 DEF SendFails, Ack, ReadFailed, Open, Write, UnlinkMoved, Recorded
  <2>4. CASE RenameTmp(w) \/ MoveAway(w)
    BY <2>1, <2>4 DEF RenameTmp, MoveAway, Recorded
  <2>5. CASE StepFails(w)
    BY <2>1, <2>5 DEF StepFails, Fault, Recorded
  <2> QED
    BY <2>2, <2>3, <2>4, <2>5 DEF Work, Send, Settle
<1> QED
  BY <1>2, <1>3, <1>4, <1>5, <1>6, TypedNext

LEMMA TypedRead ==
  ASSUME Always, NEW w \in Workers, Read(w)
  PROVE  Typed'
<1> USE DEF pass, call, history
<1>1. Filed /\ Locals /\ Startup /\ Recorded /\ Placed /\ Opened
  BY TypedParts DEF Always
<1>2. /\ w \in Passes /\ w \notin Entries /\ pc[w] \in {"idle", "load", "clean", "next"}
      /\ pc'[w] \in Steps /\ pc' = [pc EXCEPT ![w] = pc'[w]]
      /\ UNCHANGED <<cooling, issued, sent, acked, crashes>>
      /\ \A v \in Workers \ {w} : at'[v] = at[v]
  BY ReadCases
<1>3. Filed' /\ Opened'
  BY ReadFiles DEF Opened
<1>4. pc' \in [Workers -> Steps] /\ \A v \in Workers \ {w} : pc'[v] = pc[v]
  BY <1>1, <1>2 DEF Locals
<1>5. Locals'
  <2>0. UNCHANGED call \/ \E e \in Entries : GiveUp(w, e)
    <3>1. StepFails(w) /\ pc[w] = "clean" => UNCHANGED call
      BY DEF StepFails, WriteSteps
    <3> QED
      BY <3>1, ReadSplit DEF Load, LoadEntry, LoadCorrupt, LoadFails, Clean, EndLoad, Skip, EndPass, Attempt
  <2>1. CASE \E e \in Entries : GiveUp(w, e)
    <3>1. PICK e \in Entries : GiveUp(w, e)
      BY <2>1
    <3>2. todo[w][e] \in Nat
      BY <1>1, <3>1 DEF GiveUp, Retriable, Placed
    <3> QED
      BY <1>1, <1>4, <3>1, <3>2 DEF GiveUp, Locals
  <2>2. CASE UNCHANGED call
    BY <1>1, <1>4, <2>2 DEF Locals
  <2> QED
    BY <2>0, <2>1, <2>2
<1>6. Startup'
  <2>1. CASE EndPass(w)
    <3>1. recovering' = (recovering /\ w # Boot) /\ pc'[w] = "idle"
      BY <1>1, <2>1 DEF EndPass, Go, Locals
    <3>2. CASE w = Boot
      <4>1. recovering
        BY <1>1, <2>1, <3>2 DEF EndPass, Startup
      <4> QED
        BY <1>1, <1>4, <3>1, <3>2 DEF Startup
    <3>3. CASE w # Boot
      <4>1. ~recovering
        BY <1>1, <2>1, <3>3 DEF EndPass, Startup
      <4> QED
        BY <1>1, <1>4, <3>1, <3>3, <4>1 DEF Startup, Workers
    <3> QED
      BY <3>2, <3>3
  <2>2. CASE ~EndPass(w)
    <3>1. UNCHANGED recovering
      BY <2>2 DEF Read, Pass, Load, LoadEntry, LoadCorrupt, LoadFails, Clean, EndLoad, Skip, Attempt, GiveUp,
                  StepFails
    <3>2. recovering => w = Boot
      <4>1. pc[w] = "idle" => MayLoad(w)
        BY DEF Read, Pass, Load, LoadEntry, LoadCorrupt, LoadFails, Listed, Clean, EndLoad, Skip, EndPass, Attempt,
               GiveUp
      <4> QED
        BY <1>1, <4>1 DEF Startup, MayLoad
    <3>3. ~recovering => w # Boot
      <4>1. pc[w] = "idle" => MayLoad(w)
        BY DEF Read, Pass, Load, LoadEntry, LoadCorrupt, LoadFails, Listed, Clean, EndLoad, Skip, EndPass, Attempt,
               GiveUp
      <4>2. Boot \notin Ticks
        BY DeliveryAssumption
      <4> QED
        BY <1>1, <4>1, <4>2 DEF Startup, MayLoad
    <3> QED
      BY <1>1, <1>4, <3>1, <3>2, <3>3 DEF Startup, Workers
  <2> QED
    BY <2>1, <2>2
<1>7. Recorded'
  <2>1. CASE Load(w)
    BY <1>1, <1>2, <2>1 DEF Load, Recorded
  <2>2. CASE (StepFails(w) /\ pc[w] = "clean") \/ \E e \in Entries : LoadFails(w, e)
    BY <1>1, <1>2, <2>2 DEF StepFails, LoadFails, Fault, Recorded
  <2>3. CASE UNCHANGED history
    BY <1>1, <1>2, <2>3 DEF Recorded
  <2> QED
    BY <2>1, <2>2, <2>3 DEF Read, Pass, LoadEntry, LoadCorrupt, Clean, EndLoad, Skip, EndPass, Attempt, GiveUp
<1>8. Placed'
  <2>1. at' \in [Workers -> Entries] /\ \A e \in issued' : at'[e] = e
    <3>1. UNCHANGED at \/ \E e \in Entries : at' = [at EXCEPT ![w] = e]
      BY DEF Read, Pass, Load, LoadEntry, LoadCorrupt, LoadFails, Clean, EndLoad, Skip, EndPass, Attempt,
             GiveUp, StepFails
    <3>2. at' \in [Workers -> Entries]
      BY <1>1, <3>1 DEF Placed
    <3>3. \A e \in Entries : at'[e] = at[e]
      BY <1>2 DEF Workers
    <3> QED
      BY <1>1, <1>2, <3>2, <3>3 DEF Placed, Recorded
  <2>2. listed' \in [Workers -> SUBSET Entries]
    <3>1. \/ UNCHANGED listed \/ listed' = [listed EXCEPT ![w] = Pending]
          \/ \E e \in Entries : listed' = [listed EXCEPT ![w] = @ \ {e}]
      BY DEF Read, Pass, Load, LoadEntry, LoadCorrupt, LoadFails, Listed, Clean, EndLoad, Skip, EndPass, Attempt,
             GiveUp, StepFails
    <3>2. Pending \subseteq Entries
      BY DEF Pending
    <3> QED
      BY <1>1, <3>1, <3>2 DEF Placed
  <2>3. /\ todo' = [v \in Workers |-> todo'[v]]
        /\ \A e \in DOMAIN todo'[w] : e \in Entries /\ todo'[w][e] \in Nat
        /\ \A v \in Workers \ {w} : todo'[v] = todo[v]
    <3>1. CASE UNCHANGED todo
      BY <1>1, <3>1 DEF Placed
    <3>2. ASSUME NEW e \in Entries, LoadEntry(w, e)
          PROVE  <2>3!:
      <4>1. file[e]["json"] \in Nat
        BY <3>2 DEF LoadEntry
      <4> QED
        BY <1>1, <3>2, <4>1, EntryRead DEF Placed
    <3>3. ASSUME NEW e, todo' = Rest(w, e)
          PROVE  <2>3!:
      BY <1>1, <3>3, RestShrinks DEF Placed
    <3>4. CASE todo' = [todo EXCEPT ![w] = << >>]
      BY <1>1, <3>4, EmptyPass DEF Placed
    <3> QED
      BY <3>1, <3>2, <3>3, <3>4 DEF Read, Pass, Load, LoadCorrupt, LoadFails, Clean, EndLoad, Skip, EndPass,
                                    Attempt, GiveUp, StepFails
  <2>4. \A e \in Entries : pc'[e] \notin {"load", "clean", "next"} /\ todo'[e] = << >>
    BY <1>1, <1>2, <1>4, <2>3 DEF Placed, Workers
  <2> QED
    BY <1>1, <1>2, <2>1, <2>2, <2>3, <2>4 DEF Placed
<1> QED
  BY <1>3, <1>5, <1>6, <1>7, <1>8, TypedNext

Outside == Crash \/ \E e \in Entries : Enqueue(e) \/ Elapse(e)

LEMMA TypedOutside ==
  ASSUME Always, Outside
  PROVE  Typed'
<1> USE DEF pass, call, history
<1>1. Filed /\ Locals /\ Startup /\ Recorded /\ Placed /\ Opened
  BY TypedParts DEF Always
<1>2. ASSUME NEW e \in Entries, Enqueue(e)
      PROVE  Typed'
  <2>1. /\ file' = [file EXCEPT ![e]["json"] = 0] /\ issued' = issued \cup {e}
        /\ at' = [at EXCEPT ![e] = e] /\ pc' = [pc EXCEPT ![e] = "send"]
        /\ ~recovering /\ e \notin issued /\ pc[e] = "idle" /\ fd[e] = "none"
        /\ UNCHANGED <<cooling, recovering, listed, todo, call, fd, sent, acked, misread, overlapped,
                       faults, crashes>>
    <3>1. e \notin issued /\ e \in Workers
      BY <1>2 DEF Enqueue, Workers
    <3>2. pc[e] = "idle"
      BY <3>1 DEF Always, Unissued
    <3>3. fd[e] = "none"
      BY <1>1, <3>1, <3>2 DEF Opened
    <3> QED
      BY <1>2, <3>1, <3>2, <3>3 DEF Enqueue, Go
  <2>2. e \in Workers /\ e # Boot /\ "json" \in Names /\ 0 \in Contents
    BY DeliveryAssumption DEF Workers, Names, Contents
  <2>3. Filed'
    BY <1>1, <2>1, <2>2, Put
  <2>4. Locals'
    BY <1>1, <2>1 DEF Locals, Steps
  <2>5. Opened'
    BY <1>1, <2>1 DEF Opened, Locals
  <2>6. Startup'
    BY <1>1, <2>1, <2>2 DEF Startup, Locals
  <2>7. Recorded'
    BY <1>1, <2>1 DEF Recorded
  <2>8. Placed'
    <3>1. at' \in [Workers -> Entries] /\ \A d \in issued' : at'[d] = d
      BY <1>1, <2>1, <2>2 DEF Placed, Recorded, Workers
    <3>2. \A d \in Entries : pc'[d] \notin {"load", "clean", "next"}
      BY <1>1, <2>1 DEF Placed, Locals, Workers
    <3> QED
      BY <1>1, <2>1, <3>1, <3>2 DEF Placed
  <2> QED
    BY <2>3, <2>4, <2>5, <2>6, <2>7, <2>8, TypedNext
<1>3. ASSUME NEW e \in Entries, Elapse(e)
      PROVE  Typed'
  <2>1. /\ cooling' = cooling \ {e}
        /\ UNCHANGED <<file, recovering, pc, at, listed, todo, call, fd, history>>
    BY <1>3 DEF Elapse
  <2>2. Filed' /\ Locals' /\ Startup' /\ Opened'
    BY <1>1, <2>1 DEF Filed, Locals, Startup, Opened
  <2>3. Recorded' /\ Placed'
    BY <1>1, <2>1 DEF Recorded, Placed
  <2> QED
    BY <2>2, <2>3, TypedNext
<1>4. CASE Crash
  <2>1. /\ crashes' = crashes + 1 /\ recovering' = TRUE /\ pc' = [w \in Workers |-> "idle"]
        /\ listed' = [w \in Workers |-> {}] /\ todo' = [w \in Workers |-> << >>]
        /\ seen' = [w \in Workers |-> 0] /\ via' = [w \in Workers |-> "tmp"]
        /\ stale' = {} /\ fd' = [w \in Workers |-> "none"]
        /\ UNCHANGED <<file, cooling, at, issued, sent, acked, misread, overlapped, faults>>
    BY <1>4 DEF Crash
  <2>2. Filed' /\ Locals' /\ Recorded' /\ Opened'
    BY <1>1, <2>1 DEF Filed, Locals, Recorded, Opened, Steps
  <2>3. Startup'
    BY <2>1 DEF Startup, Workers
  <2>4. Placed'
    <3>1. \A w \in Workers : todo'[w] = << >> /\ pc'[w] = "idle" /\ listed'[w] = {}
      BY <2>1
    <3>2. todo' = [w \in Workers |-> todo'[w]] /\ listed' \in [Workers -> SUBSET Entries]
      BY <2>1
    <3> QED
      BY <1>1, <2>1, <3>1, <3>2, EmptyPass DEF Placed, Workers
  <2> QED
    BY <2>2, <2>3, <2>4, TypedNext
<1> QED
  BY <1>2, <1>3, <1>4 DEF Outside

\* Every step is one of a worker at an entry, of a pass, or from outside.
LEMMA NextSplit ==
  ASSUME Next
  PROVE  Outside \/ \E w \in Workers : Work(w) \/ Read(w)
BY DEF Next, Outside, Work, Read, Fails

\* The history of the entries: a worker changes that of its own only.
LEMMA WorkHistory ==
  ASSUME Always, NEW w \in Workers, Work(w)
  PROVE  /\ \A d \in Entries : sent[d] \in Nat /\ sent'[d] \in Nat /\ sent'[d] >= sent[d]
         /\ \A d \in Entries \ {at[w]} : sent'[d] = sent[d] /\ (d \in acked' <=> d \in acked)
         /\ pc'[w] = "ack" => SendOk(w) /\ sent'[at[w]] > 0
         /\ cooling \subseteq cooling'
         /\ faults \in Nat /\ faults' \in Nat /\ faults' >= faults
<1>1. Locals /\ Recorded /\ at[w] \in Entries
  BY TypedParts DEF Always, Placed
<1>2. CASE SendOk(w)
  <2>1. sent' = [sent EXCEPT ![at[w]] = @ + 1] /\ UNCHANGED <<acked, cooling, faults>>
    BY <1>2 DEF SendOk
  <2> QED
    BY <1>1, <1>2, <2>1 DEF Recorded
<1>3. CASE ~SendOk(w)
  <2>1. UNCHANGED sent /\ (UNCHANGED acked \/ acked' = acked \cup {at[w]})
    BY <1>3 DEF Work, Send, Settle, SendFails, Ack, ReadFailed, Open, Write, UnlinkMoved, RenameTmp, MoveAway,
                StepFails, history
  <2>2. cooling \subseteq cooling'
    BY <1>3 DEF Work, Send, Settle, SendFails, Ack, ReadFailed, Open, Write, UnlinkMoved, RenameTmp, MoveAway,
                StepFails
  <2>3. faults' = faults \/ faults' = faults + 1
    BY <1>3 DEF Work, Send, Settle, SendFails, Ack, ReadFailed, Open, Write, UnlinkMoved, RenameTmp, MoveAway,
                StepFails, Fault, history
  <2>4. pc'[w] # "ack"
    <3>1. Done(w) => pc'[w] # "ack"
      BY <1>1, DoneIt DEF After
    <3>2. Throws(w) => pc'[w] # "ack"
      BY <1>1, Throwing DEF After
    <3>3. \A step \in {"read", "open", "write", "unlink", "rename", "away"} : Go(w, step) => pc'[w] # "ack"
      BY <1>1 DEF Go, Locals
    <3>4. CASE StepFails(w) /\ pc[w] # "clean"
      BY <3>1, <3>2, <3>4 DEF StepFails
    <3>5. CASE SendFails(w) \/ Ack(w) \/ ReadFailed(w) \/ UnlinkMoved(w)
      BY <3>1, <3>3, <3>5 DEF SendFails, Ack, ReadFailed, UnlinkMoved
    <3>6. CASE Open(w) \/ Write(w)
      BY <3>3, <3>6 DEF Open, Write
    <3>7. CASE RenameTmp(w) \/ MoveAway(w)
      BY <3>1, <3>2, <3>3, <3>7 DEF RenameTmp, MoveAway
    <3> QED
      BY <1>3, <3>4, <3>5, <3>6, <3>7 DEF Work, Send, Settle
  <2> QED
    BY <1>1, <2>1, <2>2, <2>3, <2>4 DEF Recorded
<1> QED
  BY <1>2, <1>3

LEMMA AlwaysWork ==
  ASSUME Always, NEW w \in Workers, Work(w)
  PROVE  AckAfterSend' /\ Unissued' /\ FirstAttempt' /\ Rested'
<1>1. /\ pc[w] \in {"send"} \cup FileSteps
      /\ UNCHANGED <<at, listed, todo, issued, misread>>
      /\ \A v \in Workers \ {w} : pc'[v] = pc[v]
      /\ pc'[w] \in FileSteps \cup {After(w)}
  BY WorkCases DEF Others
<1>2. /\ at[w] \in Entries /\ \A d \in Entries \ {at[w]} : file'[d] = file[d]
  BY WorkFiles
<1>3. Busy(w, at[w]) /\ pc[w] # "idle"
  BY <1>1 DEF Busy, FileSteps, WriteSteps
<1>4. at[w] \in issued
  BY <1>2, <1>3 DEF Always, Unissued
<1>5. AckAfterSend'
  <2> SUFFICES ASSUME NEW v \in Workers, pc'[v] = "ack"
               PROVE  sent'[at[v]] > 0
    BY <1>1 DEF AckAfterSend
  <2>1. CASE v = w
    BY <2>1, WorkHistory
  <2>2. CASE v # w
    <3>1. at[v] \in Entries /\ sent[at[v]] > 0
      BY <1>1, <2>2, TypedParts DEF Always, AckAfterSend, Placed
    <3> QED
      BY <3>1, WorkHistory
  <2> QED
    BY <2>1, <2>2
<1>6. Unissued'
  <2> SUFFICES ASSUME NEW e \in Entries \ issued
               PROVE  /\ \A n \in Names : file'[e][n] = Absent
                      /\ pc'[e] = "idle" /\ sent'[e] = 0 /\ e \notin acked' /\ e \notin misread'
                      /\ \A v \in Workers : /\ ~Busy(v, e)' /\ ~(pc'[v] = "clean" /\ at'[v] = e)
                                            /\ e \notin listed'[v] /\ e \notin DOMAIN todo'[v]
    BY <1>1 DEF Unissued
  <2>1. /\ \A n \in Names : file[e][n] = Absent
        /\ pc[e] = "idle" /\ sent[e] = 0 /\ e \notin acked /\ e \notin misread
        /\ \A v \in Workers : /\ ~Busy(v, e) /\ ~(pc[v] = "clean" /\ at[v] = e)
                              /\ e \notin listed[v] /\ e \notin DOMAIN todo[v]
    BY DEF Always, Unissued
  <2>2. e # at[w] /\ e # w
    BY <1>3, <1>4, <2>1
  <2>3. pc'[e] = "idle" /\ sent'[e] = 0 /\ e \notin acked' /\ e \notin misread'
    BY <1>1, <2>1, <2>2, WorkHistory DEF Workers
  <2>4. \A v \in Workers : ~Busy(v, e)' /\ ~(pc'[v] = "clean" /\ at'[v] = e)
    BY <1>1, <2>1, <2>2 DEF Busy
  <2> QED
    BY <1>1, <1>2, <2>1, <2>2, <2>3, <2>4
<1>7. FirstAttempt'
  <2> SUFFICES ASSUME NEW e \in Entries, pc'[e] = "send"
               PROVE  /\ file'[e]["json"] \in {0, Absent}
                      /\ \A v \in Workers \ {e} : ~Busy(v, e)'
                      /\ \A v \in Workers : e \in DOMAIN todo'[v] => todo'[v][e] = 0
    BY DEF FirstAttempt
  <2>1. e # w
    BY <1>1 DEF After, FileSteps, WriteSteps
  <2>2. pc[e] = "send"
    BY <1>1, <2>1 DEF Workers
  <2>3. /\ file[e]["json"] \in {0, Absent}
        /\ \A v \in Workers \ {e} : ~Busy(v, e)
        /\ \A v \in Workers : e \in DOMAIN todo[v] => todo[v][e] = 0
    BY <2>2 DEF Always, FirstAttempt
  <2>4. e # at[w]
    BY <1>3, <2>1, <2>3
  <2>5. \A v \in Workers \ {e} : ~Busy(v, e)'
    BY <1>1, <2>3, <2>4 DEF Busy
  <2> QED
    BY <1>1, <1>2, <2>3, <2>4, <2>5
<1>8. Rested'
  <2>1. pc'[w] = "idle" => todo[w] = << >>
    <3>1. pc'[w] = "idle" => w \in Entries
      BY <1>1 DEF After, FileSteps, WriteSteps
    <3> QED
      BY <3>1, TypedParts DEF Always, Placed
  <2> QED
    BY <1>1, <2>1, EmptyPass DEF Always, Rested
<1> QED
  BY <1>5, <1>6, <1>7, <1>8

\* Where a step of a pass leads: to an entry, ...
Takes(w, e) ==
  /\ e \in Retriable(w) /\ todo' = Rest(w, e) /\ listed' = listed
  /\ pc[w] = "next" /\ pc'[w] \in {"send", "open"}

\* ... to one that is to be removed, ...
Rejects(w, e) ==
  /\ e \in listed[w] /\ listed' = [listed EXCEPT ![w] = @ \ {e}] /\ todo' = todo
  /\ pc[w] = "load"
  /\ file[e]["json"] \notin Nat \/ e \in misread'

\* ... or on, with what it has listed and read.
Goes(w) ==
  /\ \A v \in Workers \ {w} : listed'[v] = listed[v] /\ todo'[v] = todo[v]
  /\ listed'[w] \subseteq listed[w] \/ (Load(w) /\ listed'[w] = Pending)
  /\ \A d \in DOMAIN todo'[w] :
       \/ d \in DOMAIN todo[w] /\ todo'[w][d] = todo[w][d]
       \/ d \in Entries /\ LoadEntry(w, d) /\ todo'[w][d] = file[d]["json"]
  /\ pc'[w] = "idle" => DOMAIN todo'[w] = {}
  /\ misread \subseteq misread' /\ misread' \subseteq misread \cup listed[w]

LEMMA ReadMoves ==
  ASSUME Always, NEW w \in Workers, Read(w)
  PROVE  /\ \A e \in Entries : Busy(w, e)' => Takes(w, e)
         /\ pc'[w] = "clean" => Rejects(w, at'[w])
         /\ Goes(w)
<1> USE DEF pass, call, history
<1>1. /\ Locals /\ Placed
      /\ pc[w] \in {"idle", "load", "clean", "next"}
  BY TypedParts, ReadCases DEF Always
<1>2. CASE Load(w)
  <2>1. /\ pc' = [pc EXCEPT ![w] = "load"] /\ listed' = [listed EXCEPT ![w] = Pending]
        /\ UNCHANGED <<at, todo, misread>>
    BY <1>2 DEF Load, Go
  <2>2. pc'[w] = "load" /\ listed'[w] = Pending /\ \A v \in Workers \ {w} : listed'[v] = listed[v]
    BY <1>1, <2>1 DEF Locals, Placed
  <2> QED
    BY <1>2, <2>1, <2>2 DEF Busy, Goes
<1>3. ASSUME NEW e \in Entries, LoadEntry(w, e)
      PROVE  /\ \A d \in Entries : Busy(w, d)' => Takes(w, d)
             /\ pc'[w] = "clean" => Rejects(w, at'[w])
             /\ Goes(w)
  <2>1. /\ pc' = pc /\ pc[w] = "load" /\ e \in listed[w] /\ listed' = [listed EXCEPT ![w] = @ \ {e}]
        /\ UNCHANGED <<at, misread>>
    BY <1>3 DEF LoadEntry, Listed
  <2>2. listed'[w] \subseteq listed[w] /\ \A v \in Workers \ {w} : listed'[v] = listed[v]
    BY <1>1, <2>1 DEF Placed
  <2>3. /\ \A v \in Workers \ {w} : todo'[v] = todo[v]
        /\ \A d \in DOMAIN todo'[w] :
              \/ d \in DOMAIN todo[w] /\ todo'[w][d] = todo[w][d]
              \/ d = e /\ todo'[w][d] = file[d]["json"]
    BY <1>1, <1>3, EntryRead DEF Placed
  <2>4. Goes(w)
    BY <1>3, <2>1, <2>2, <2>3 DEF Goes
  <2> QED
    BY <2>1, <2>4 DEF Busy
<1>4. ASSUME NEW e \in Entries, LoadCorrupt(w, e) \/ LoadFails(w, e)
      PROVE  /\ \A d \in Entries : Busy(w, d)' => Takes(w, d)
             /\ pc'[w] = "clean" => Rejects(w, at'[w])
             /\ Goes(w)
  <2>1. /\ pc' = [pc EXCEPT ![w] = "clean"] /\ pc[w] = "load" /\ e \in listed[w]
        /\ listed' = [listed EXCEPT ![w] = @ \ {e}] /\ at' = [at EXCEPT ![w] = e]
        /\ todo' = todo
        /\ \/ misread' = misread /\ file[e]["json"] \notin Nat
           \/ misread' = misread \cup {e}
    BY <1>4 DEF LoadCorrupt, LoadFails, Listed, Go
  <2>2. /\ pc'[w] = "clean" /\ at'[w] = e
        /\ listed'[w] \subseteq listed[w] /\ \A v \in Workers \ {w} : listed'[v] = listed[v]
    BY <1>1, <2>1 DEF Locals, Placed
  <2>3. Goes(w)
    BY <2>1, <2>2 DEF Goes
  <2>4. Rejects(w, e)
    BY <2>1 DEF Rejects
  <2> QED
    BY <2>2, <2>3, <2>4 DEF Busy
<1>5. CASE Clean(w) \/ EndLoad(w) \/ (StepFails(w) /\ pc[w] = "clean")
  <2>1. /\ \E step \in {"load", "next"} : pc' = [pc EXCEPT ![w] = step]
        /\ UNCHANGED <<at, listed, todo, misread>>
    BY <1>5 DEF Clean, EndLoad, StepFails, Go, WriteSteps
  <2>2. pc'[w] \in {"load", "next"}
    BY <1>1, <2>1 DEF Locals
  <2> QED
    BY <2>1, <2>2 DEF Busy, Goes
<1>6. CASE Skip(w)
  <2>1. /\ pc' = pc /\ pc[w] = "next" /\ UNCHANGED <<at, listed, misread>>
        /\ \E e \in DOMAIN todo[w] : todo' = Rest(w, e)
    BY <1>6 DEF Skip
  <2>2. /\ \A d \in DOMAIN todo'[w] : d \in DOMAIN todo[w] /\ todo'[w][d] = todo[w][d]
        /\ \A v \in Workers \ {w} : todo'[v] = todo[v]
    BY <1>1, <2>1, RestShrinks DEF Placed
  <2> QED
    BY <2>1, <2>2 DEF Busy, Goes
<1>7. CASE EndPass(w)
  <2>1. /\ pc' = [pc EXCEPT ![w] = "idle"] /\ UNCHANGED <<at, listed, misread>>
        /\ todo' = [todo EXCEPT ![w] = << >>]
    BY <1>7 DEF EndPass, Go
  <2>2. pc'[w] = "idle"
    BY <1>1, <2>1 DEF Locals
  <2>3. DOMAIN todo'[w] = {} /\ \A v \in Workers \ {w} : todo'[v] = todo[v]
    BY <1>1, <2>1, EmptyPass DEF Placed
  <2> QED
    BY <2>1, <2>2, <2>3 DEF Busy, Goes
<1>8. ASSUME NEW e \in Entries, Attempt(w, e) \/ GiveUp(w, e)
      PROVE  /\ \A d \in Entries : Busy(w, d)' => Takes(w, d)
             /\ pc'[w] = "clean" => Rejects(w, at'[w])
             /\ Goes(w)
  <2>1. /\ pc[w] = "next" /\ e \in Retriable(w) /\ todo' = Rest(w, e) /\ at' = [at EXCEPT ![w] = e]
        /\ \E step \in {"send", "open"} : pc' = [pc EXCEPT ![w] = step]
        /\ UNCHANGED <<listed, misread>>
    BY <1>8 DEF Attempt, GiveUp, Go
  <2>2. at'[w] = e /\ pc'[w] \in {"send", "open"}
    BY <1>1, <2>1 DEF Locals, Placed
  <2>3. /\ \A d \in DOMAIN todo'[w] : d \in DOMAIN todo[w] /\ todo'[w][d] = todo[w][d]
        /\ \A v \in Workers \ {w} : todo'[v] = todo[v]
    BY <1>1, <2>1, RestShrinks DEF Placed
  <2>4. Goes(w)
    BY <2>1, <2>2, <2>3 DEF Goes
  <2>5. Takes(w, e)
    BY <2>1, <2>2 DEF Takes
  <2> QED
    BY <2>2, <2>4, <2>5 DEF Busy
<1> QED
  BY <1>2, <1>3, <1>4, <1>5, <1>6, <1>7, <1>8, ReadSplit

LEMMA AlwaysRead ==
  ASSUME Always, NEW w \in Workers, Read(w)
  PROVE  AckAfterSend' /\ Unissued' /\ FirstAttempt' /\ Rested'
<1>1. /\ w \notin Entries /\ w \in Passes
      /\ pc'[w] \notin {"ack"}
      /\ \A v \in Workers \ {w} : pc'[v] = pc[v] /\ at'[v] = at[v]
      /\ UNCHANGED <<issued, sent, acked>>
  BY ReadCases, TypedParts DEF Always, Locals
<1>2. /\ \A e \in Entries : Busy(w, e)' => Takes(w, e)
      /\ pc'[w] = "clean" => Rejects(w, at'[w])
      /\ Goes(w)
  BY ReadMoves
<1>3. /\ \A v \in Workers : listed[v] \subseteq issued /\ DOMAIN todo[v] \subseteq issued
      /\ Pending \subseteq issued
  <2>1. \A v \in Workers : listed[v] \subseteq Entries /\ DOMAIN todo[v] \subseteq Entries
    BY TypedParts DEF Always, Placed
  <2> QED
    BY <2>1 DEF Always, Unissued, Pending, Names
<1>4. \A d \in Entries : \/ file'[d] = file[d]
                         \/ /\ pc[w] = "clean" /\ at[w] = d /\ file'[d]["json"] = Absent
                            /\ \A m \in Names \ {"json"} : file'[d][m] = file[d][m]
  <2>1. /\ Filed /\ fd \in [Workers -> Names \cup {"none", "gone"}] /\ at[w] \in Entries
    BY TypedParts DEF Always, Opened, Placed
  <2>2. CASE file' = file
    BY <2>2
  <2>3. CASE Clean(w) /\ Unlink(at[w])
    BY <2>1, <2>3, Unlinking DEF Clean
  <2> QED
    BY <2>2, <2>3, ReadFiles
<1>5. AckAfterSend'
  BY <1>1 DEF Always, AckAfterSend
<1>6. Unissued'
  <2> SUFFICES ASSUME NEW e \in Entries \ issued
               PROVE  /\ \A n \in Names : file'[e][n] = Absent
                      /\ pc'[e] = "idle" /\ sent'[e] = 0 /\ e \notin acked' /\ e \notin misread'
                      /\ \A v \in Workers : /\ ~Busy(v, e)' /\ ~(pc'[v] = "clean" /\ at'[v] = e)
                                            /\ e \notin listed'[v] /\ e \notin DOMAIN todo'[v]
    BY <1>1 DEF Unissued
  <2>1. /\ \A n \in Names : file[e][n] = Absent
        /\ pc[e] = "idle" /\ sent[e] = 0 /\ e \notin acked /\ e \notin misread
        /\ \A v \in Workers : /\ ~Busy(v, e) /\ ~(pc[v] = "clean" /\ at[v] = e)
                              /\ e \notin listed[v] /\ e \notin DOMAIN todo[v]
    BY DEF Always, Unissued
  <2>2. \A n \in Names : file'[e][n] = Absent
    BY <1>4, <2>1
  <2>3. pc'[e] = "idle" /\ sent'[e] = 0 /\ e \notin acked' /\ e \notin misread'
    BY <1>1, <1>2, <1>3, <2>1 DEF Workers, Goes
  <2>4. ~Busy(w, e)'
    BY <1>2, <1>3 DEF Takes, Retriable
  <2>5. ~(pc'[w] = "clean" /\ at'[w] = e)
    BY <1>2, <1>3 DEF Rejects
  <2>6. e \notin listed'[w]
    BY <1>2, <1>3 DEF Goes
  <2>7. e \notin DOMAIN todo'[w]
    BY <1>2, <1>3 DEF Goes, LoadEntry, Listed
  <2>8. ASSUME NEW v \in Workers \ {w}
        PROVE  ~Busy(v, e)' /\ ~(pc'[v] = "clean" /\ at'[v] = e) /\ e \notin listed'[v] /\ e \notin DOMAIN todo'[v]
    BY <1>1, <1>2, <2>1 DEF Busy, Goes
  <2> QED
    BY <2>2, <2>3, <2>4, <2>5, <2>6, <2>7, <2>8
<1>7. FirstAttempt'
  <2> SUFFICES ASSUME NEW e \in Entries, pc'[e] = "send"
               PROVE  /\ file'[e]["json"] \in {0, Absent}
                      /\ \A v \in Workers \ {e} : ~Busy(v, e)'
                      /\ \A v \in Workers : e \in DOMAIN todo'[v] => todo'[v][e] = 0
    BY DEF FirstAttempt
  <2>1. e # w /\ pc[e] = "send"
    BY <1>1 DEF Workers
  <2>2. /\ file[e]["json"] \in {0, Absent}
        /\ \A v \in Workers \ {e} : ~Busy(v, e)
        /\ \A v \in Workers : e \in DOMAIN todo[v] => todo[v][e] = 0
    BY <2>1 DEF Always, FirstAttempt
  <2>3. file'[e]["json"] \in {0, Absent}
    BY <1>4, <2>2
  <2>4. \A v \in Workers \ {w} : Busy(v, e)' <=> Busy(v, e)
    BY <1>1 DEF Busy
  <2>5. ~Busy(w, e)'
    <3>1. w = Boot => pc[w] = "idle"
      BY <2>1, DeliveryAssumption, TypedParts DEF Always, Startup, Workers
    <3>2. Retriable(w) \subseteq DOMAIN todo[w] /\ (w # Boot => e \notin Retriable(w))
      BY <2>2 DEF Retriable
    <3>3. w = Boot => DOMAIN todo[w] = {}
      BY <3>1 DEF Always, Rested
    <3> QED
      BY <1>2, <3>2, <3>3 DEF Takes
  <2>6. \A v \in Workers : e \in DOMAIN todo'[v] => todo'[v][e] = 0
    <3>1. e \in DOMAIN todo'[w] => todo'[w][e] = 0
      <4>1. e \in DOMAIN todo'[w] => \/ e \in DOMAIN todo[w] /\ todo'[w][e] = todo[w][e]
                                     \/ file[e]["json"] \in Nat /\ todo'[w][e] = file[e]["json"]
        BY <1>2 DEF Goes, LoadEntry
      <4> QED
        BY <2>2, <4>1 DEF Absent
    <3> QED
      BY <1>2, <2>2, <3>1 DEF Goes
  <2> QED
    BY <2>2, <2>3, <2>4, <2>5, <2>6
<1>8. Rested'
  BY <1>1, <1>2 DEF Always, Rested, Goes
<1> QED
  BY <1>5, <1>6, <1>7, <1>8

\* A new entry is the channel's alone.
LEMMA NewEntry ==
  ASSUME Always, NEW e \in Entries, Enqueue(e)
  PROVE  /\ e \in Workers /\ e \notin Passes /\ e \notin issued /\ issued' = issued \cup {e} /\ ~recovering
         /\ file'[e]["json"] = 0 /\ \A m \in Names \ {"json"} : file'[e][m] = Absent
         /\ \A d \in Entries \ {e} : file'[d] = file[d]
         /\ pc[e] = "idle" /\ pc'[e] = "send" /\ at'[e] = e
         /\ \A v \in Workers \ {e} : pc'[v] = pc[v] /\ at'[v] = at[v]
         /\ \A v \in Workers : /\ ~Busy(v, e) /\ ~(pc[v] = "clean" /\ at[v] = e)
                               /\ e \notin listed[v] /\ e \notin DOMAIN todo[v]
         /\ sent[e] = 0 /\ e \notin acked /\ e \notin misread
         /\ UNCHANGED <<cooling, recovering, listed, todo, seen, via, stale, fd, sent, acked, misread,
                        overlapped, faults, crashes>>
<1>1. /\ e \notin issued /\ ~recovering
      /\ file' = [file EXCEPT ![e]["json"] = 0] /\ issued' = issued \cup {e}
      /\ at' = [at EXCEPT ![e] = e] /\ pc' = [pc EXCEPT ![e] = "send"]
      /\ UNCHANGED <<cooling, recovering, listed, todo, seen, via, stale, fd, sent, acked, misread,
                     overlapped, faults, crashes>>
  BY DEF Enqueue, Go, pass, call
<1>2. e \in Workers /\ e \notin Passes /\ "json" \in Names /\ 0 \in Contents
  BY DeliveryAssumption DEF Workers, Passes, Names, Contents
<1>3. Filed /\ Locals /\ Placed
  BY TypedParts DEF Always
<1>4. /\ file'[e]["json"] = 0
      /\ \A m \in Names \ {"json"} : file'[e][m] = file[e][m]
      /\ \A d \in Entries \ {e} : file'[d] = file[d]
  <2>1. Filed /\ file' = [file EXCEPT ![e]["json"] = 0]
    BY <1>1, <1>3
  <2> QED
    BY <2>1, <1>2 DEF Filed
<1>5. /\ \A n \in Names : file[e][n] = Absent
      /\ pc[e] = "idle" /\ sent[e] = 0 /\ e \notin acked /\ e \notin misread
      /\ \A v \in Workers : /\ ~Busy(v, e) /\ ~(pc[v] = "clean" /\ at[v] = e)
                            /\ e \notin listed[v] /\ e \notin DOMAIN todo[v]
  BY <1>1 DEF Always, Unissued
<1>6. /\ pc'[e] = "send" /\ at'[e] = e
      /\ \A v \in Workers \ {e} : pc'[v] = pc[v] /\ at'[v] = at[v]
  BY <1>1, <1>2, <1>3 DEF Locals, Placed
<1> QED
  BY <1>1, <1>2, <1>4, <1>5, <1>6

LEMMA AlwaysOutside ==
  ASSUME Always, Outside
  PROVE  AckAfterSend' /\ Unissued' /\ FirstAttempt' /\ Rested'
<1>1. ASSUME NEW e \in Entries, Enqueue(e)
      PROVE  AckAfterSend' /\ Unissued' /\ FirstAttempt' /\ Rested'
  <2>1. AckAfterSend'
    BY <1>1, NewEntry DEF Always, AckAfterSend
  <2>2. Rested'
    BY <1>1, NewEntry DEF Always, Rested
  <2>3. Unissued'
    <3> SUFFICES ASSUME NEW d \in Entries \ issued'
                 PROVE  /\ \A n \in Names : file'[d][n] = Absent
                        /\ pc'[d] = "idle" /\ sent'[d] = 0 /\ d \notin acked' /\ d \notin misread'
                        /\ \A v \in Workers : /\ ~Busy(v, d)' /\ ~(pc'[v] = "clean" /\ at'[v] = d)
                                              /\ d \notin listed'[v] /\ d \notin DOMAIN todo'[v]
      BY DEF Unissued
    <3>1. d # e /\ d \notin issued
      BY <1>1, NewEntry
    <3>2. /\ \A n \in Names : file[d][n] = Absent
          /\ pc[d] = "idle" /\ sent[d] = 0 /\ d \notin acked /\ d \notin misread
          /\ \A v \in Workers : /\ ~Busy(v, d) /\ ~(pc[v] = "clean" /\ at[v] = d)
                                /\ d \notin listed[v] /\ d \notin DOMAIN todo[v]
      BY <3>1 DEF Always, Unissued
    <3>3. \A v \in Workers : ~Busy(v, d)' /\ ~(pc'[v] = "clean" /\ at'[v] = d)
      BY <1>1, <3>1, <3>2, NewEntry DEF Busy
    <3>4. d \in Workers
      BY DEF Workers
    <3> QED
      BY <1>1, <3>1, <3>2, <3>3, <3>4, NewEntry
  <2>4. FirstAttempt'
    <3> SUFFICES ASSUME NEW d \in Entries, pc'[d] = "send"
                 PROVE  /\ file'[d]["json"] \in {0, Absent}
                        /\ \A v \in Workers \ {d} : ~Busy(v, d)'
                        /\ \A v \in Workers : d \in DOMAIN todo'[v] => todo'[v][d] = 0
      BY DEF FirstAttempt
    <3>1. CASE d = e
      BY <1>1, <3>1, NewEntry DEF Busy
    <3>2. CASE d # e
      <4>1. pc[d] = "send"
        BY <1>1, <3>2, NewEntry DEF Workers
      <4>2. /\ file[d]["json"] \in {0, Absent}
            /\ \A v \in Workers \ {d} : ~Busy(v, d)
            /\ \A v \in Workers : d \in DOMAIN todo[v] => todo[v][d] = 0
        BY <4>1 DEF Always, FirstAttempt
      <4>3. \A v \in Workers \ {d} : ~Busy(v, d)'
        BY <1>1, <3>2, <4>2, NewEntry DEF Busy
      <4> QED
        BY <1>1, <3>2, <4>2, <4>3, NewEntry
    <3> QED
      BY <3>1, <3>2
  <2> QED
    BY <2>1, <2>2, <2>3, <2>4
<1>2. ASSUME NEW e \in Entries, Elapse(e)
      PROVE  AckAfterSend' /\ Unissued' /\ FirstAttempt' /\ Rested'
  <2>1. UNCHANGED <<file, pc, at, listed, todo, issued, sent, acked, misread>>
    BY <1>2 DEF Elapse, pass, history
  <2> QED
    BY <2>1 DEF Always, AckAfterSend, Unissued, FirstAttempt, Rested, Busy
<1>3. CASE Crash
  <2>1. /\ \A w \in Workers : pc'[w] = "idle" /\ listed'[w] = {} /\ todo'[w] = << >>
        /\ UNCHANGED <<file, at, issued, sent, acked, misread>>
    BY <1>3 DEF Crash
  <2>2. \A e \in Entries : pc'[e] = "idle"
    BY <2>1 DEF Workers
  <2>3. AckAfterSend' /\ FirstAttempt' /\ Rested'
    BY <2>1, <2>2, EmptyPass DEF AckAfterSend, FirstAttempt, Rested
  <2>4. Unissued'
    BY <2>1, <2>2, EmptyPass DEF Always, Unissued, Busy
  <2> QED
    BY <2>3, <2>4
<1> QED
  BY <1>1, <1>2, <1>3 DEF Outside

LEMMA AlwaysStep == Always /\ [Next]_vars => Always'
<1> SUFFICES ASSUME Always, [Next]_vars PROVE Always'
  OBVIOUS
<1>1. CASE Next
  <2>1. Typed' /\ AckAfterSend' /\ Unissued' /\ FirstAttempt' /\ Rested'
    BY <1>1, NextSplit, TypedWork, TypedRead, TypedOutside, AlwaysWork, AlwaysRead, AlwaysOutside
  <2> QED
    BY <2>1 DEF Always
<1>2. CASE UNCHANGED vars
  <2>1. UNCHANGED <<file, cooling, recovering, pc, at, listed, todo, seen, via, stale, fd, issued, sent, acked,
                    misread, overlapped, faults, crashes>>
    BY <1>2 DEF vars, pass, call, history
  <2>2. Typed'
    <3>1. Filed' /\ Locals' /\ Startup' /\ Opened'
      BY <2>1, TypedParts DEF Always, Filed, Locals, Startup, Opened
    <3>2. Recorded' /\ Placed'
      BY <2>1, TypedParts DEF Always, Recorded, Placed
    <3> QED
      BY <3>1, <3>2, TypedNext
  <2>3. AckAfterSend' /\ FirstAttempt' /\ Rested'
    BY <2>1 DEF Always, AckAfterSend, FirstAttempt, Rested, Busy
  <2>4. Unissued'
    BY <2>1 DEF Always, Unissued, Busy
  <2> QED
    BY <2>2, <2>3, <2>4 DEF Always
<1> QED
  BY <1>1, <1>2

(***************************************************************************)
(* While passes have not overlapped: a worker at its entry.                *)
(***************************************************************************)
\* What w leaves of its entry, whatever the others are at.
Own(w, e) ==
  /\ Busy(w, e)' /\ e \notin misread => file'[e]["json"] \in Nat
  /\ file'[e]["json"] \in Nat \cup {Absent}
  /\ e \notin misread => sent'[e] > 0 \/ file'[e]["json"] \in Nat \/ file'[e]["failed"] \in Nat
  /\ sent'[e] <= 1 + crashes + faults'
  /\ (file'[e]["json"] # Absent \/ Busy(w, e)') /\ pc'[w] # "ack" => sent'[e] <= crashes + faults'
  /\ e \in acked' => file'[e]["json"] = Absent /\ ~Busy(w, e)'

OwnWriting(w, e) ==
  /\ pc'[w] = "write" => fd'[w] = via'[w] /\ file'[e][via'[w]] = Blank
  /\ pc'[w] = "rename" => via'[w] # "failed" /\ file'[e][via'[w]] \in Nat
  /\ pc'[w] = "away" => via'[w] = "moving"
  /\ pc'[w] = "unlink" => file'[e]["failed"] \in Nat

OwnShy(w) ==
  w \in Entries /\ pc'[w] # "idle" =>
    \/ file'[w]["json"] \in {0, Absent}
    \/ w \in cooling' /\ pc'[w] \in FileSteps

OwnUnfailing(w, e) ==
  faults' = 0 =>
    /\ via'[w] # "failed"
    /\ file'[e]["failed"] # Absent => file'[e]["json"] = Absent /\ ~Busy(w, e)' /\ e \notin acked'

\* What a worker may rely on while it is at an entry.
LEMMA Relied ==
  ASSUME Always, Calm, NEW w \in Workers, NEW e \in Entries, Busy(w, e)
  PROVE  /\ e = at[w] /\ e \in issued /\ e \notin acked
         /\ \A v \in Workers \ {w} : ~Busy(v, e)
         /\ file[e]["json"] \in Nat \cup {Absent}
         /\ e \notin misread => file[e]["json"] \in Nat
         /\ sent[e] <= 1 + crashes + faults
         /\ pc[w] # "ack" => sent[e] <= crashes + faults
         /\ w \in Entries => /\ e = w /\ w \notin stale
                             /\ file[w]["json"] \in {0, Absent} \/ w \in cooling
         /\ faults = 0 => misread = {} /\ via[w] # "failed" /\ file[e]["failed"] = Absent
<1>1. e = at[w] /\ e \in issued
  BY DEF Busy, Always, Unissued
<1>2. \A v \in Workers \ {w} : ~Busy(v, e)
  BY DEF Calm, OneAtIt
<1>3. Held(e)
  BY DEF Held
<1>4. e \notin acked
  BY <1>3 DEF Calm, Gone
<1>5. /\ file[e]["json"] \in Nat \cup {Absent}
      /\ e \notin misread => file[e]["json"] \in Nat
  BY DEF Calm, Whole, Present
<1>6. pc[w] # "ack" => ~Acking(e)
  BY <1>1, <1>2 DEF Acking, Busy
<1>7. /\ sent[e] <= 1 + crashes + faults
      /\ pc[w] # "ack" => sent[e] <= crashes + faults
  BY <1>3, <1>6 DEF Calm, Budget
<1>8. w \in Entries => /\ e = w /\ w \notin stale
                       /\ file[w]["json"] \in {0, Absent} \/ w \in cooling
  <2> SUFFICES ASSUME w \in Entries
               PROVE  /\ e = w /\ w \notin stale
                      /\ file[w]["json"] \in {0, Absent} \/ w \in cooling
    OBVIOUS
  <2>1. pc[w] # "idle"
    BY DEF Busy
  <2>2. w \in issued
    BY <2>1 DEF Always, Unissued
  <2>3. at[w] = w
    BY <2>2, TypedParts DEF Always, Placed
  <2> QED
    BY <1>1, <2>1, <2>3 DEF Calm, ChannelShy, Apart
<1>9. faults = 0 => misread = {} /\ via[w] # "failed" /\ file[e]["failed"] = Absent
  BY <1>3 DEF Calm, Unfailing
<1> QED
  BY <1>1, <1>2, <1>4, <1>5, <1>7, <1>8, <1>9

LEMMA StaleShrinks ==
  ASSUME NEW w \in Workers, Work(w)
  PROVE  stale' \subseteq stale
<1> USE DEF call
<1>1. Done(w) \/ Throws(w) => stale' \subseteq stale
  BY DEF Done, Throws
<1>2. Done(w) \/ Throws(w) \/ UNCHANGED stale
  BY DEF Work, Send, SendOk, SendFails, Settle, Ack, ReadFailed, Open, Write, RenameTmp, MoveAway,
         UnlinkMoved, StepFails
<1> QED
  BY <1>1, <1>2

\* A step of one worker at its entry, as far as the others see it.
LEMMA CalmFrame ==
  ASSUME Always, Calm, NEW w \in Workers, NEW e \in Entries, Busy(w, e), Work(w),
         Own(w, e), OwnWriting(w, e), OwnShy(w), OwnUnfailing(w, e)
  PROVE  Calm'
<1>1. /\ UNCHANGED <<at, listed, todo, issued, misread, crashes>>
      /\ \A v \in Workers \ {w} : pc'[v] = pc[v] /\ via'[v] = via[v] /\ (v \in stale' <=> v \in stale)
      /\ pc'[w] \in FileSteps \cup {After(w)}
  BY WorkCases DEF Others
<1>2. e = at[w] /\ \A v \in Workers \ {w} : ~Busy(v, e)
  BY Relied
<1>3. /\ \A d \in Entries \ {e} : file'[d] = file[d]
      /\ \A v \in Workers \ {w} : at[v] # e => fd'[v] = fd[v]
  BY <1>2, WorkFiles
<1>4. /\ \A d \in Entries \ {e} : sent'[d] = sent[d] /\ (d \in acked' <=> d \in acked)
      /\ \A d \in Entries : sent[d] \in Nat /\ sent'[d] \in Nat
      /\ cooling \subseteq cooling' /\ faults \in Nat /\ faults' \in Nat /\ faults' >= faults
      /\ crashes \in Nat
  BY <1>2, WorkHistory, TypedParts DEF Always, Recorded
<1>5. \A v \in Workers : \A d \in Entries : v # w \/ d # e => (Busy(v, d)' <=> Busy(v, d))
  BY <1>1, <1>2 DEF Busy
<1>6. \A v \in Workers : \A d \in Entries : (pc'[v] = "clean" /\ at'[v] = d) => (pc[v] = "clean" /\ at[v] = d /\ v # w)
  BY <1>1 DEF After, FileSteps, WriteSteps
<1>7. OnePass'
  <2>1. \A v \in Workers : pc[v] = "idle" => pc'[v] = "idle"
    BY <1>1 DEF Busy
  <2> QED
    BY <2>1 DEF Calm, OnePass, Passes, Workers
<1>8. OneAtIt'
  BY <1>2, <1>5 DEF Calm, OneAtIt
<1>9. Ahead'
  <2> SUFFICES ASSUME NEW v \in Workers, NEW d \in Retriable(v)'
               PROVE  /\ file'[d]["json"] \in Nat
                      /\ d \notin listed'[v] /\ ~(pc'[v] = "clean" /\ at'[v] = d)
                      /\ \A u \in Workers : ~Busy(u, d)'
    BY DEF Ahead
  <2>1. d \in Retriable(v) /\ d \in Entries
    BY <1>1, TypedParts DEF Retriable, Always, Placed
  <2>2. /\ file[d]["json"] \in Nat
        /\ d \notin listed[v] /\ ~(pc[v] = "clean" /\ at[v] = d)
        /\ \A u \in Workers : ~Busy(u, d)
    BY <2>1 DEF Calm, Ahead
  <2>3. d # e
    BY <2>2
  <2> QED
    BY <1>1, <1>3, <1>5, <1>6, <2>1, <2>2, <2>3
<1>10. Present'
  <2> SUFFICES ASSUME NEW v \in Workers, NEW d \in Entries \ misread
               PROVE  /\ Busy(v, d)' => file'[d]["json"] \in Nat
                      /\ pc'[v] = "clean" /\ at'[v] = d => file'[d]["json"] = Absent
    BY <1>1 DEF Present
  <2>1. CASE d # e
    BY <1>3, <1>5, <1>6, <2>1 DEF Calm, Present
  <2>2. CASE d = e
    <3>1. Busy(v, d)' => file'[d]["json"] \in Nat
      BY <1>2, <1>5, <2>2 DEF Own
    <3>2. ~(pc'[v] = "clean" /\ at'[v] = d)
      BY <1>6, <2>2 DEF Calm, Present, Absent
    <3> QED
      BY <3>1, <3>2
  <2> QED
    BY <2>1, <2>2
<1>11. Whole'
  BY <1>3 DEF Calm, Whole, Own
<1>12. Writing'
  <2> SUFFICES ASSUME NEW v \in Workers
               PROVE  /\ pc'[v] = "write" => fd'[v] = via'[v] /\ file'[at[v]][via'[v]] = Blank
                      /\ pc'[v] = "rename" => via'[v] # "failed" /\ file'[at[v]][via'[v]] \in Nat
                      /\ pc'[v] = "away" => via'[v] = "moving"
                      /\ pc'[v] = "unlink" => file'[at[v]]["failed"] \in Nat
    BY <1>1 DEF Writing
  <2>1. CASE v = w
    BY <1>2, <2>1 DEF OwnWriting
  <2>2. CASE v # w /\ pc[v] \in {"write", "rename", "away", "unlink"}
    <3>1. at[v] \in Entries /\ at[v] # e
      <4>1. at[v] \in Entries
        BY TypedParts DEF Always, Placed
      <4>2. Busy(v, at[v])
        BY <2>2 DEF Busy
      <4> QED
        BY <1>2, <2>2, <4>1, <4>2
    <3>2. pc'[v] = pc[v] /\ via'[v] = via[v] /\ fd'[v] = fd[v] /\ file'[at[v]] = file[at[v]]
      BY <1>1, <1>3, <2>2, <3>1
    <3> QED
      BY <3>2 DEF Calm, Writing
  <2>3. CASE v # w /\ pc[v] \notin {"write", "rename", "away", "unlink"}
    BY <1>1, <2>3
  <2> QED
    BY <2>1, <2>2, <2>3
<1>13. ChannelShy'
  <2> SUFFICES ASSUME NEW d \in Entries, pc'[d] # "idle"
               PROVE  \/ file'[d]["json"] \in {0, Absent}
                      \/ d \in cooling' /\ pc'[d] \in FileSteps
    BY DEF ChannelShy
  <2>1. CASE d = w
    BY <2>1 DEF OwnShy
  <2>2. CASE d # w
    <3>1. pc'[d] = pc[d]
      BY <1>1, <2>2 DEF Workers
    <3>2. d # e
      <4>1. Busy(d, d)
        <5>1. d \in issued
          BY <3>1 DEF Always, Unissued
        <5>2. at[d] = d /\ pc[d] \notin {"load", "clean", "next"}
          BY <5>1, TypedParts DEF Always, Placed
        <5> QED
          BY <3>1, <5>2 DEF Busy
      <4> QED
        BY <1>2, <2>2, <4>1 DEF Workers
    <3> QED
      BY <1>3, <1>4, <3>1, <3>2 DEF Calm, ChannelShy
  <2> QED
    BY <2>1, <2>2
<1>14. Kept'
  <2> SUFFICES ASSUME NEW d \in issued, d \notin misread
               PROVE  sent'[d] > 0 \/ file'[d]["json"] \in Nat \/ file'[d]["failed"] \in Nat
    BY <1>1 DEF Kept
  <2>1. d \in Entries
    BY TypedParts DEF Always, Recorded
  <2>2. CASE d = e
    BY <2>2 DEF Own
  <2>3. CASE d # e
    BY <1>3, <1>4, <2>1, <2>3 DEF Calm, Kept
  <2> QED
    BY <2>2, <2>3
<1>15. \A d \in Entries \ {e} : (Held(d)' <=> Held(d)) /\ (Acking(d) => Acking(d)')
  <2> SUFFICES ASSUME NEW d \in Entries \ {e}
               PROVE  (Held(d)' <=> Held(d)) /\ (Acking(d) => Acking(d)')
    OBVIOUS
  <2>1. Held(d)' <=> Held(d)
    BY <1>3, <1>5 DEF Held
  <2>2. Acking(d) => Acking(d)'
    BY <1>1, <1>2 DEF Acking
  <2> QED
    BY <2>1, <2>2
<1>16. Held(e)' <=> file'[e]["json"] # Absent \/ Busy(w, e)'
  BY <1>2, <1>5 DEF Held
<1>17. Budget'
  <2> SUFFICES ASSUME NEW d \in Entries
               PROVE  /\ sent'[d] <= 1 + crashes + faults'
                      /\ Held(d)' /\ ~Acking(d)' => sent'[d] <= crashes + faults'
    BY <1>1 DEF Budget
  <2>1. CASE d = e
    <3>1. pc'[w] = "ack" => Acking(e)'
      BY <1>1, <1>2 DEF Acking
    <3> QED
      BY <1>16, <2>1, <3>1 DEF Own
  <2>2. CASE d # e
    <3>1. /\ sent[d] <= 1 + crashes + faults
          /\ Held(d) /\ ~Acking(d) => sent[d] <= crashes + faults
      BY DEF Calm, Budget
    <3> QED
      BY <1>4, <1>15, <2>2, <3>1
  <2> QED
    BY <2>1, <2>2
<1>18. Gone'
  <2> SUFFICES ASSUME NEW d \in acked'
               PROVE  ~Held(d)'
    BY DEF Gone
  <2>1. CASE d = e
    BY <1>16, <2>1 DEF Own
  <2>2. CASE d # e
    <3>1. d \in Entries
      BY TypedWork, TypedNext DEF Typed, TypeOK
    <3> QED
      BY <1>4, <1>15, <2>2, <3>1 DEF Calm, Gone
  <2> QED
    BY <2>1, <2>2
<1>19. Unfailing'
  <2> SUFFICES ASSUME faults' = 0
               PROVE  /\ misread' = {}
                      /\ \A v \in Workers : via'[v] # "failed"
                      /\ \A d \in Entries : file'[d]["failed"] # Absent => ~Held(d)' /\ d \notin acked'
    BY DEF Unfailing
  <2>1. /\ misread = {}
        /\ \A v \in Workers : via[v] # "failed"
        /\ \A d \in Entries : file[d]["failed"] # Absent => ~Held(d) /\ d \notin acked
    BY <1>4 DEF Calm, Unfailing
  <2>2. \A v \in Workers : via'[v] # "failed"
    BY <1>1, <2>1 DEF OwnUnfailing
  <2>3. \A d \in Entries : file'[d]["failed"] # Absent => ~Held(d)' /\ d \notin acked'
    BY <1>3, <1>4, <1>15, <1>16, <2>1 DEF OwnUnfailing
  <2> QED
    BY <1>1, <2>1, <2>2, <2>3
<1>20. Apart'
  BY <1>1, StaleShrinks DEF Calm, Apart
<1> QED
  BY <1>7, <1>8, <1>9, <1>10, <1>11, <1>12, <1>13, <1>20, <1>14, <1>17, <1>18, <1>19 DEF Calm

\* Each step of a call keeps what its worker relies on.
Owns(w, e) == Own(w, e) /\ OwnWriting(w, e) /\ OwnShy(w) /\ OwnUnfailing(w, e)

\* A worker that is done owes nothing but the count and the files.
LEMMA EndOwns ==
  ASSUME Always, Calm, NEW w \in Workers, NEW e \in Entries, Busy(w, e),
         Done(w), sent' = sent, faults' \in Nat, faults' >= faults,
         file'[e]["json"] \in Nat \cup {Absent},
         e \notin misread => sent[e] > 0 \/ file'[e]["json"] \in Nat \/ file'[e]["failed"] \in Nat,
         file'[e]["json"] # Absent => sent[e] <= crashes + faults',
         e \in acked' => file'[e]["json"] = Absent,
         faults' = 0 /\ file'[e]["failed"] # Absent => file'[e]["json"] = Absent /\ e \notin acked'
  PROVE  Owns(w, e)
<1>1. pc'[w] = After(w) /\ via'[w] = "tmp"
  BY DoneIt, TypedParts DEF Always
<1>2. pc'[w] \in {"idle", "next"} /\ (w \in Entries => pc'[w] = "idle")
  BY <1>1 DEF After
<1>3. ~Busy(w, e)'
  BY <1>2 DEF Busy
<1>4. sent[e] <= 1 + crashes + faults'
  <2>1. sent[e] <= 1 + crashes + faults
    BY Relied
  <2>2. sent[e] \in Nat /\ crashes \in Nat /\ faults \in Nat
    BY TypedParts DEF Always, Recorded
  <2> QED
    BY <2>1, <2>2
<1>5. Own(w, e)
  BY <1>3, <1>4 DEF Own
<1>6. OwnWriting(w, e) /\ OwnShy(w)
  BY <1>2 DEF OwnWriting, OwnShy
<1>7. OwnUnfailing(w, e)
  BY <1>1, <1>3 DEF OwnUnfailing
<1> QED
  BY <1>5, <1>6, <1>7 DEF Owns

\* One that goes on, and has neither sent nor lost anything.
LEMMA StayOwns ==
  ASSUME Always, Calm, NEW w \in Workers, NEW e \in Entries, Busy(w, e), pc[w] # "ack",
         pc'[w] \in FileSteps \ {"ack"}, UNCHANGED <<sent, acked>>, cooling \subseteq cooling',
         stale' \subseteq stale, faults' \in Nat, faults' >= faults,
         \/ file'[e]["json"] = file[e]["json"]
         \/ file'[e]["json"] \in Nat /\ (w \in Entries => w \in cooling'),
         faults' = 0 => via'[w] # "failed" /\ file'[e]["failed"] = file[e]["failed"],
         OwnWriting(w, e)
  PROVE  Owns(w, e)
<1>1. /\ e \notin acked
      /\ file[e]["json"] \in Nat \cup {Absent}
      /\ e \notin misread => file[e]["json"] \in Nat
      /\ sent[e] <= crashes + faults
      /\ w \in Entries => w \notin stale /\ (file[w]["json"] \in {0, Absent} \/ w \in cooling) /\ e = w
      /\ faults = 0 => file[e]["failed"] = Absent
  BY Relied
<1>2. sent[e] \in Nat /\ crashes \in Nat /\ faults \in Nat
  BY TypedParts DEF Always, Recorded
<1>3. Own(w, e)
  BY <1>1, <1>2 DEF Own
<1>4. OwnShy(w)
  BY <1>1 DEF OwnShy
<1>5. OwnUnfailing(w, e)
  BY <1>1, <1>2 DEF OwnUnfailing
<1> QED
  BY <1>3, <1>4, <1>5 DEF Owns

LEMMA WorkOwns ==
  ASSUME Always, Calm, NEW w \in Workers, NEW e \in Entries, Busy(w, e), Work(w)
  PROVE  Owns(w, e)
<1> USE DEF pass, call, history
<1>1. /\ Filed /\ Locals /\ Placed /\ Recorded
      /\ fd \in [Workers -> Names \cup {"none", "gone"}]
  BY TypedParts DEF Always, Opened
<1>2. /\ e = at[w] /\ e \in issued /\ e \notin acked
      /\ file[e]["json"] \in Nat \cup {Absent}
      /\ e \notin misread => file[e]["json"] \in Nat
      /\ sent[e] <= 1 + crashes + faults
      /\ pc[w] # "ack" => sent[e] <= crashes + faults
      /\ w \in Entries => /\ e = w /\ w \notin stale
                          /\ file[w]["json"] \in {0, Absent} \/ w \in cooling
      /\ faults = 0 => misread = {} /\ via[w] # "failed" /\ file[e]["failed"] = Absent
  BY Relied
<1>3. /\ pc[w] = "write" => fd[w] = via[w] /\ file[e][via[w]] = Blank
      /\ pc[w] = "rename" => via[w] # "failed" /\ file[e][via[w]] \in Nat
      /\ pc[w] = "away" => via[w] = "moving"
      /\ pc[w] = "unlink" => file[e]["failed"] \in Nat
  BY <1>2 DEF Calm, Writing
<1>4. sent[e] \in Nat /\ crashes \in Nat /\ faults \in Nat
  BY <1>1 DEF Recorded
<1>5. via[w] \in {"tmp", "moving", "failed"} /\ seen[w] \in Nat
  BY <1>1 DEF Locals
<1>a. Filed /\ fd \in [Workers -> Names \cup {"none", "gone"}]
  BY <1>1
<1>b. /\ "json" \in Names /\ "failed" \in Names \ {"json"}
      /\ via[w] \in Names /\ via[w] # "json" /\ via[w] # "none" /\ via[w] # "gone"
      /\ seen[w] \in Nat /\ seen[w] \in Contents /\ Blank \in Contents
  BY <1>5 DEF Names, Contents
<1>c. ASSUME Unlink(e)
      PROVE  file'[e]["json"] = Absent /\ file'[e]["failed"] = file[e]["failed"]
  <2>1. file'[e]["json"] = Absent /\ \A m \in Names \ {"json"} : file'[e][m] = file[e][m]
    BY <1>a, <1>c, Unlinking
  <2> QED
    BY <1>b, <2>1
<1>d. fd \in [Workers -> Names \cup {"none", "gone"}] /\ pc \in [Workers -> Steps]
  BY <1>1 DEF Locals
<1>6. CASE SendOk(w)
  <2>1. /\ pc[w] = "send" /\ sent' = [sent EXCEPT ![e] = @ + 1] /\ pc' = [pc EXCEPT ![w] = "ack"]
        /\ UNCHANGED <<file, cooling, via, stale, acked, faults>>
    BY <1>2, <1>6 DEF SendOk, Go
  <2>2. pc'[w] = "ack" /\ sent'[e] = sent[e] + 1 /\ sent[e] <= crashes + faults
    BY <1>1, <1>2, <2>1 DEF Locals, Recorded
  <2>3. Own(w, e)
    BY <1>2, <1>4, <2>1, <2>2 DEF Own
  <2>4. OwnWriting(w, e) /\ OwnShy(w)
    BY <1>2, <2>1, <2>2 DEF OwnWriting, OwnShy, FileSteps
  <2>5. OwnUnfailing(w, e)
    BY <1>2, <2>1 DEF OwnUnfailing
  <2> QED
    BY <2>3, <2>4, <2>5 DEF Owns
<1>7. CASE SendFails(w)
  <2>1. /\ pc[w] = "send" /\ pc' = [pc EXCEPT ![w] = "read"]
        /\ UNCHANGED <<file, cooling, via, stale, sent, acked, faults>>
    BY <1>7 DEF SendFails, Go
  <2>2. pc'[w] = "read"
    BY <1>1, <2>1 DEF Locals
  <2>3. OwnWriting(w, e)
    BY <2>2 DEF OwnWriting
  <2> QED
    BY <1>2, <1>4, <2>1, <2>2, <2>3, StayOwns DEF FileSteps
<1>8. CASE Ack(w)
  <2>1. pc[w] = "ack" /\ Unlink(e) /\ acked' = acked \cup {e} /\ Done(w) /\ UNCHANGED <<sent, faults>>
    BY <1>2, <1>8 DEF Ack
  <2>2. file'[e]["json"] = Absent /\ file'[e]["failed"] = file[e]["failed"]
    BY <1>c, <2>1
  <2>3. sent[e] > 0
    BY <1>2, <2>1 DEF Always, AckAfterSend
  <2> QED
    BY <1>2, <1>4, <2>1, <2>2, <2>3, EndOwns
<1>9. CASE ReadFailed(w) /\ file[e]["json"] \notin Nat
  <2>1. pc[w] = "read" /\ Done(w) /\ UNCHANGED <<file, sent, acked, faults>>
    BY <1>2, <1>9 DEF ReadFailed
  <2> QED
    BY <1>2, <1>4, <1>9, <2>1, EndOwns
<1>10. CASE ReadFailed(w) /\ file[e]["json"] \in Nat
  <2>1. /\ pc[w] = "read" /\ pc' = [pc EXCEPT ![w] = "open"]
        /\ \E name \in {"moving", "tmp"} : via' = [via EXCEPT ![w] = name]
        /\ UNCHANGED <<file, cooling, stale, sent, acked, faults>>
    BY <1>2, <1>10 DEF ReadFailed, Go, Ways, Scratch
  <2>2. pc'[w] = "open" /\ via'[w] \in {"moving", "tmp"}
    BY <1>1, <2>1 DEF Locals
  <2>3. OwnWriting(w, e)
    BY <2>2 DEF OwnWriting
  <2> QED
    BY <1>2, <1>4, <2>1, <2>2, <2>3, StayOwns DEF FileSteps, WriteSteps
<1>11. CASE Open(w)
  <2>1. /\ pc[w] = "open" /\ pc' = [pc EXCEPT ![w] = "write"]
        /\ file' = [file EXCEPT ![e][via[w]] = Blank] /\ fd' = [fd EXCEPT ![w] = via[w]]
        /\ UNCHANGED <<cooling, via, stale, sent, acked, faults>>
    BY <1>2, <1>11 DEF Open, Go
  <2>2. pc'[w] = "write" /\ fd'[w] = via[w]
    BY <1>d, <2>1
  <2>3. file'[e][via[w]] = Blank /\ \A m \in Names \ {via[w]} : file'[e][m] = file[e][m]
    <3>1. Filed /\ via[w] \in Names /\ Blank \in Contents /\ file' = [file EXCEPT ![e][via[w]] = Blank]
      BY <1>a, <1>b, <2>1
    <3> QED
      BY <3>1 DEF Filed
  <2>4. OwnWriting(w, e)
    BY <2>1, <2>2, <2>3 DEF OwnWriting
  <2>5. file'[e]["json"] = file[e]["json"] /\ (faults = 0 => file'[e]["failed"] = file[e]["failed"])
    BY <1>2, <1>5, <1>b, <2>3
  <2> QED
    BY <1>2, <1>4, <2>1, <2>2, <2>4, <2>5, StayOwns DEF FileSteps, WriteSteps
<1>12. CASE Write(w)
  <2>1. /\ pc[w] = "write" /\ fd[w] = via[w] /\ file[e][via[w]] = Blank
        /\ pc' = [pc EXCEPT ![w] = IF via[w] = "failed" THEN "unlink" ELSE "rename"]
        /\ UNCHANGED <<cooling, via, stale, sent, acked, faults>>
    BY <1>3, <1>12 DEF Write, Go
  <2>2. file' = [file EXCEPT ![e][via[w]] = seen[w]]
    <3>1. via[w] # "gone" /\ Overwritten(Blank, seen[w]) = {seen[w]}
      BY <1>b DEF Overwritten
    <3> QED
      BY <1>2, <1>12, <2>1, <3>1 DEF Write
  <2>3. pc'[w] = IF via[w] = "failed" THEN "unlink" ELSE "rename"
    BY <1>1, <2>1 DEF Locals
  <2>4. file'[e][via[w]] = seen[w] /\ \A m \in Names \ {via[w]} : file'[e][m] = file[e][m]
    <3>1. Filed /\ via[w] \in Names /\ seen[w] \in Contents /\ file' = [file EXCEPT ![e][via[w]] = seen[w]]
      BY <1>a, <1>b, <2>2
    <3> QED
      BY <3>1 DEF Filed
  <2>5. OwnWriting(w, e)
    BY <1>5, <2>1, <2>3, <2>4 DEF OwnWriting
  <2>6. file'[e]["json"] = file[e]["json"] /\ (faults = 0 => file'[e]["failed"] = file[e]["failed"])
    BY <1>2, <1>5, <1>b, <2>4
  <2>7. pc'[w] \in FileSteps \ {"ack"}
    BY <2>3 DEF FileSteps, WriteSteps
  <2> QED
    BY <1>2, <1>4, <2>1, <2>5, <2>6, <2>7, StayOwns
<1>13. CASE RenameTmp(w)
  <2>1. pc[w] = "rename" /\ via[w] # "failed" /\ file[e][via[w]] \in Nat
    BY <1>3, <1>13 DEF RenameTmp
  <2>2. /\ Rename(e, via[w], "json")
        /\ cooling' = IF w \in stale THEN cooling ELSE cooling \cup {e}
        /\ IF via[w] = "moving" THEN Go(w, "away") /\ UNCHANGED call ELSE Done(w)
        /\ UNCHANGED <<sent, acked, faults>>
    BY <1>2, <1>13, <2>1 DEF RenameTmp, Absent
  <2>3. file'[e]["json"] \in Nat /\ file'[e]["failed"] = file[e]["failed"]
    <3>1. /\ file'[e]["json"] = file[e][via[w]]
          /\ \A k \in Names \ {via[w], "json"} : file'[e][k] = file[e][k]
      BY <1>a, <1>b, <2>2, Renaming
    <3> QED
      BY <1>b, <2>1, <3>1
  <2>4. CASE via[w] = "moving"
    <3>1. pc'[w] = "away" /\ via'[w] = via[w] /\ stale' = stale
      BY <1>1, <2>2, <2>4, GoOn DEF Steps, FileSteps, WriteSteps
    <3>2. OwnWriting(w, e)
      BY <2>4, <3>1 DEF OwnWriting
    <3>3. cooling \subseteq cooling' /\ (w \in Entries => w \in cooling')
      BY <1>2, <2>2
    <3> QED
      BY <1>2, <1>4, <2>1, <2>2, <2>3, <2>4, <3>1, <3>2, <3>3, StayOwns DEF FileSteps, WriteSteps
  <2>5. CASE via[w] # "moving"
    BY <1>2, <1>4, <2>1, <2>2, <2>3, <2>5, EndOwns
  <2> QED
    BY <2>4, <2>5
<1>14. CASE MoveAway(w) /\ file[e]["json"] # Absent
  <2>1. pc[w] = "away" /\ Rename(e, "json", "failed") /\ Done(w) /\ UNCHANGED <<sent, acked, faults>>
    BY <1>2, <1>14 DEF MoveAway
  <2>2. file'[e]["json"] = Absent /\ file'[e]["failed"] \in Nat
    <3>1. file'[e]["json"] = Absent /\ file'[e]["failed"] = file[e]["json"]
      BY <1>a, <1>b, <2>1, Renaming
    <3> QED
      BY <1>2, <1>14, <3>1
  <2> QED
    BY <1>2, <1>4, <2>1, <2>2, EndOwns
<1>15. CASE UnlinkMoved(w)
  <2>1. pc[w] = "unlink" /\ Unlink(e) /\ Done(w) /\ UNCHANGED <<sent, acked, faults>>
    BY <1>2, <1>15 DEF UnlinkMoved
  <2>2. file'[e]["json"] = Absent /\ file'[e]["failed"] = file[e]["failed"]
    BY <1>c, <2>1
  <2> QED
    BY <1>2, <1>3, <1>4, <2>1, <2>2, EndOwns
<1>16. ASSUME Throws(w), pc[w] \in WriteSteps, UNCHANGED <<file, cooling, sent, acked>>,
              faults' \in Nat, faults' >= faults, faults' # 0
       PROVE  Owns(w, e)
  <2>1. CASE via[w] = "moving"
    <3>1. pc'[w] = "open" /\ via'[w] = "failed" /\ stale' \subseteq stale
      BY <1>1, <1>16, <2>1, Throwing
    <3>2. OwnWriting(w, e)
      BY <3>1 DEF OwnWriting
    <3> QED
      BY <1>2, <1>16, <3>1, <3>2, StayOwns DEF FileSteps, WriteSteps
  <2>2. CASE via[w] # "moving"
    <3>1. Done(w) /\ pc[w] # "ack"
      BY <1>16, <2>2 DEF Throws, WriteSteps
    <3> QED
      BY <1>2, <1>4, <1>16, <3>1, EndOwns
  <2> QED
    BY <2>1, <2>2
<1>17. CASE MoveAway(w) /\ file[e]["json"] = Absent
  <2>1. pc[w] = "away" /\ Throws(w) /\ UNCHANGED <<file, cooling, sent, acked, faults>>
    BY <1>2, <1>17 DEF MoveAway
  <2>2. faults # 0
    BY <1>2, <1>17 DEF Absent
  <2> QED
    BY <1>4, <1>16, <2>1, <2>2 DEF WriteSteps
<1>18. CASE StepFails(w) /\ pc[w] # "clean"
  <2>1. faults' = faults + 1 /\ UNCHANGED <<file, cooling, sent, acked>> /\ pc[w] \in FileSteps
    BY <1>18 DEF StepFails, Fault
  <2>2. CASE pc[w] \in WriteSteps
    BY <1>4, <1>16, <1>18, <2>1, <2>2 DEF StepFails
  <2>3. CASE pc[w] \notin WriteSteps
    <3>1. Done(w)
      BY <1>18, <2>3 DEF StepFails
    <3> QED
      BY <1>2, <1>4, <2>1, <3>1, EndOwns
  <2> QED
    BY <2>2, <2>3
<1> QED
  BY <1>6, <1>7, <1>8, <1>9, <1>10, <1>11, <1>12, <1>13, <1>14, <1>15, <1>17, <1>18
     DEF Work, Send, Settle

LEMMA CalmWork ==
  ASSUME Always, Calm, NEW w \in Workers, Work(w)
  PROVE  Calm'
<1> DEFINE e == at[w]
<1>1. e \in Entries /\ Busy(w, e)
  BY WorkFiles, WorkCases DEF Busy, FileSteps, WriteSteps
<1> HIDE DEF e
<1> QED
  BY <1>1, WorkOwns, CalmFrame DEF Owns


(***************************************************************************)
(* While passes have not overlapped: a pass among the entries.             *)
(***************************************************************************)
\* What a step of a pass leaves to the others.
LEMMA ReadCalls ==
  ASSUME Always, NEW w \in Workers, Read(w)
  PROVE  /\ \A v \in Workers \ {w} : via'[v] = via[v]
         /\ via' = via \/ via'[w] = "moving"
         /\ stale' \subseteq stale \cup {w}
         /\ faults \in Nat /\ faults' \in Nat /\ faults' >= faults
         /\ misread' = misread \/ faults' > 0
         /\ overlapped' = overlapped \/ Load(w)
<1> USE DEF pass, call, history
<1>1. Locals /\ Recorded
  BY TypedParts DEF Always
<1>2. CASE \E e \in Entries : GiveUp(w, e)
  <2>1. via' = [via EXCEPT ![w] = "moving"] /\ stale' = stale \cup {w} /\ UNCHANGED history
    BY <1>2 DEF GiveUp
  <2> QED
    BY <1>1, <2>1 DEF Locals, Recorded
<1>3. CASE (StepFails(w) /\ pc[w] = "clean") \/ \E e \in Entries : LoadFails(w, e)
  <2>1. faults' = faults + 1 /\ UNCHANGED <<via, stale, overlapped>>
    BY <1>3 DEF StepFails, LoadFails, Fault
  <2> QED
    BY <1>1, <2>1 DEF Recorded
<1>4. CASE ~\/ \E e \in Entries : GiveUp(w, e)
            \/ StepFails(w) /\ pc[w] = "clean"
            \/ \E e \in Entries : LoadFails(w, e)
  <2>1. UNCHANGED <<via, stale, faults, misread>> /\ (UNCHANGED overlapped \/ Load(w))
    BY <1>4, ReadSplit DEF Load, LoadEntry, LoadCorrupt, Clean, EndLoad, Skip, EndPass, Attempt
  <2> QED
    BY <1>1, <2>1 DEF Recorded
<1> QED
  BY <1>2, <1>3, <1>4

\* A pass starts alone, ...
LEMMA LoadAlone ==
  ASSUME Always, NEW w \in Workers, Load(w), ~overlapped'
  PROVE  \A v \in Passes : pc[v] = "idle"
<1>1. \A v \in Ticks : pc[v] = "idle"
  BY DEF Load
<1>2. pc[w] = "idle" /\ (w = Boot \/ ~recovering)
  BY DEF Load, MayLoad
<1>3. pc[Boot] = "idle"
  BY <1>2, TypedParts DEF Always, Startup
<1> QED
  BY <1>1, <1>3 DEF Passes

\* ... so that no other is under way at any of its steps.
LEMMA ReadAlone ==
  ASSUME Always, Calm, NEW w \in Workers, Read(w), ~overlapped'
  PROVE  \A v \in Passes \ {w} : pc[v] = "idle"
<1>1. CASE pc[w] = "idle"
  <2>1. Load(w)
    <3>1. \A e \in Entries : ~LoadEntry(w, e) /\ ~LoadCorrupt(w, e) /\ ~LoadFails(w, e)
      BY <1>1 DEF LoadEntry, LoadCorrupt, LoadFails, Listed
    <3>2. ~Clean(w) /\ ~EndLoad(w) /\ ~Skip(w) /\ ~EndPass(w)
      BY <1>1 DEF Clean, EndLoad, Skip, EndPass
    <3>3. \A e \in Entries : ~Attempt(w, e) /\ ~GiveUp(w, e)
      BY <1>1 DEF Attempt, GiveUp
    <3> QED
      BY <1>1, <3>1, <3>2, <3>3, ReadSplit
  <2> QED
    BY <2>1, LoadAlone
<1>2. CASE pc[w] # "idle"
  <2>1. w \in Passes
    BY ReadCases
  <2> QED
    BY <1>2, <2>1 DEF Calm, OnePass
<1> QED
  BY <1>1, <1>2

\* It removes only what it has misread, or what is gone.
LEMMA ReadRemoves ==
  ASSUME Always, Calm, NEW w \in Workers, Read(w)
  PROVE  \A d \in Entries :
           /\ \A m \in Names \ {"json"} : file'[d][m] = file[d][m]
           /\ file'[d]["json"] \in {file[d]["json"], Absent}
           /\ d \notin misread \/ ~(pc[w] = "clean" /\ at[w] = d) => file'[d]["json"] = file[d]["json"]
<1>1. Filed /\ fd \in [Workers -> Names \cup {"none", "gone"}] /\ at[w] \in Entries
  BY TypedParts DEF Always, Opened, Placed
<1>2. CASE file' = file
  BY <1>2
<1>3. CASE Clean(w) /\ Unlink(at[w])
  <2> SUFFICES ASSUME NEW d \in Entries
               PROVE  /\ \A m \in Names \ {"json"} : file'[d][m] = file[d][m]
                      /\ file'[d]["json"] \in {file[d]["json"], Absent}
                      /\ d \notin misread \/ ~(pc[w] = "clean" /\ at[w] = d) => file'[d]["json"] = file[d]["json"]
    OBVIOUS
  <2>1. pc[w] = "clean"
    BY <1>3 DEF Clean
  <2>2. CASE d # at[w]
    <3>1. file'[d] = file[d]
      BY <1>1, <1>3, <2>2, Unlinking
    <3> QED
      BY <3>1
  <2>3. CASE d = at[w]
    <3>1. file'[d]["json"] = Absent /\ \A m \in Names \ {"json"} : file'[d][m] = file[d][m]
      BY <1>1, <1>3, <2>3, Unlinking
    <3>2. d \notin misread => file[d]["json"] = Absent
      BY <2>1, <2>3 DEF Calm, Present
    <3> QED
      BY <2>1, <2>3, <3>1, <3>2
  <2> QED
    BY <2>2, <2>3
<1> QED
  BY <1>2, <1>3, ReadFiles

\* It leaves the files alone that somebody has opened, but for the pending one.
LEMMA ReadOpened ==
  ASSUME Always, Calm, NEW w \in Workers, Read(w), NEW v \in Workers, pc[v] = "write"
  PROVE  fd'[v] = fd[v]
<1>1. Filed /\ Locals /\ fd \in [Workers -> Names \cup {"none", "gone"}] /\ at[w] \in Entries
  BY TypedParts DEF Always, Opened, Placed
<1>2. fd[v] # "json"
  BY <1>1 DEF Calm, Writing, Locals
<1>3. CASE fd' = fd
  BY <1>3
<1>4. CASE Unlink(at[w])
  BY <1>1, <1>2, <1>4, Unlinking
<1> QED
  BY <1>3, <1>4, ReadFiles

\* What it takes up nobody is at.
LEMMA ReadBusy ==
  ASSUME Always, Calm, NEW w \in Workers, Read(w)
  PROVE  /\ \A v \in Workers \ {w} : \A d \in Entries : Busy(v, d)' <=> Busy(v, d)
         /\ \A d \in Entries : ~Busy(w, d)
         /\ \A d \in Entries : Busy(w, d)' =>
              /\ file[d]["json"] \in Nat /\ file'[d]["json"] = file[d]["json"]
              /\ \A v \in Workers : ~Busy(v, d)
              /\ d \notin DOMAIN todo'[w]
              /\ pc'[w] \in {"send", "open"}
         /\ \A d \in Entries : Held(d)' => Held(d)
<1>1. /\ pc[w] \in {"idle", "load", "clean", "next"}
      /\ \A v \in Workers \ {w} : pc'[v] = pc[v] /\ at'[v] = at[v]
  BY ReadCases, TypedParts DEF Always, Locals
<1>2. \A v \in Workers \ {w} : \A d \in Entries : Busy(v, d)' <=> Busy(v, d)
  BY <1>1 DEF Busy
<1>3. \A d \in Entries : ~Busy(w, d)
  BY <1>1 DEF Busy
<1>4. ASSUME NEW d \in Entries, Busy(w, d)'
      PROVE  /\ file[d]["json"] \in Nat /\ file'[d]["json"] = file[d]["json"]
             /\ \A v \in Workers : ~Busy(v, d)
             /\ d \notin DOMAIN todo'[w]
             /\ pc'[w] \in {"send", "open"}
  <2>1. d \in Retriable(w) /\ todo' = Rest(w, d) /\ pc[w] = "next" /\ pc'[w] \in {"send", "open"}
    BY <1>4, ReadMoves DEF Takes
  <2>2. file[d]["json"] \in Nat /\ \A v \in Workers : ~Busy(v, d)
    BY <2>1 DEF Calm, Ahead
  <2>3. file'[d]["json"] = file[d]["json"]
    BY <2>1, ReadRemoves
  <2>4. d \notin DOMAIN todo'[w]
    <3>1. todo = [v \in Workers |-> todo[v]]
      BY DEF Always, Typed
    <3>2. DOMAIN todo'[w] = DOMAIN todo[w] \ {d}
      BY <2>1, <3>1, RestShrinks
    <3> QED
      BY <3>2
  <2> QED
    BY <2>1, <2>2, <2>3, <2>4
<1>5. ASSUME NEW d \in Entries, Held(d)'
      PROVE  Held(d)
  <2>1. CASE file'[d]["json"] # Absent
    BY <2>1, ReadRemoves DEF Held
  <2>2. CASE \E v \in Workers : Busy(v, d)'
    <3>1. CASE Busy(w, d)'
      BY <1>4, <3>1 DEF Held, Absent
    <3>2. CASE \E v \in Workers \ {w} : Busy(v, d)'
      BY <1>2, <3>2 DEF Held
    <3> QED
      BY <2>2, <3>1, <3>2
  <2> QED
    BY <1>5, <2>1, <2>2 DEF Held
<1> QED
  BY <1>2, <1>3, <1>4, <1>5

\* What it has still to read it has not read, and what it has read can be taken
\* up: the channel that may be at the entry keeps its count at zero, or has just
\* begun its backoff.
LEMMA ReadAhead ==
  ASSUME Always, Calm, NEW w \in Workers, Read(w), ~overlapped'
  PROVE  Ahead' /\ Apart'
<1>1. /\ w \in Passes /\ w \notin Entries
      /\ \A v \in Workers \ {w} : pc'[v] = pc[v] /\ at'[v] = at[v]
  BY ReadCases, TypedParts DEF Always, Locals
<1>2. /\ \A v \in Workers \ {w} : \A d \in Entries : Busy(v, d)' <=> Busy(v, d)
      /\ \A d \in Entries : Busy(w, d)' => d \notin DOMAIN todo'[w]
  BY ReadBusy
<1>3. /\ pc'[w] = "clean" => Rejects(w, at'[w])
      /\ Goes(w)
  BY ReadMoves
<1>4. /\ \A v \in Workers : listed[v] \subseteq Entries /\ DOMAIN todo[v] \subseteq Entries
      /\ \A e \in Entries : todo[e] = << >>
      /\ todo = [v \in Workers |-> todo[v]]
  BY TypedParts DEF Always, Placed
<1>5. \A v \in Workers \ {w} : DOMAIN todo'[v] = {}
  <2> SUFFICES ASSUME NEW v \in Workers \ {w}
               PROVE  DOMAIN todo'[v] = {}
    OBVIOUS
  <2>1. todo'[v] = todo[v]
    BY <1>3 DEF Goes
  <2>2. CASE v \in Entries
    BY <1>4, <2>1, <2>2, EmptyPass
  <2>3. CASE v \in Passes
    BY <2>1, <2>3, ReadAlone DEF Always, Rested
  <2> QED
    BY <2>2, <2>3 DEF Workers, Passes
<1>6. Load(w) => DOMAIN todo[w] = {}
  BY DEF Load, Always, Rested
<1>7. ASSUME NEW d \in DOMAIN todo'[w]
      PROVE  d \in Entries /\ d \notin listed'[w]
  <2>1. \/ d \in DOMAIN todo[w]
        \/ d \in Entries /\ LoadEntry(w, d)
    BY <1>3, <1>7 DEF Goes
  <2>2. CASE d \in DOMAIN todo[w]
    <3>1. listed'[w] \subseteq listed[w]
      BY <1>3, <1>6, <2>2 DEF Goes
    <3> QED
      BY <1>4, <2>2, <3>1 DEF Calm, Apart
  <2>3. CASE d \in Entries /\ LoadEntry(w, d)
    <3>1. listed' = [listed EXCEPT ![w] = @ \ {d}] /\ listed \in [Workers -> SUBSET Entries]
      BY <2>3, TypedParts DEF LoadEntry, Listed, Always, Placed
    <3> QED
      BY <2>3, <3>1
  <2> QED
    BY <2>1, <2>2, <2>3
<1>8. ASSUME NEW d \in Retriable(w)'
      PROVE  /\ file'[d]["json"] \in Nat
             /\ ~(pc'[w] = "clean" /\ at'[w] = d)
             /\ \A u \in Workers : ~Busy(u, d)'
  <2>1. d \in DOMAIN todo'[w] /\ (w = Boot \/ todo'[w][d] # 0) /\ d \in Entries
    BY <1>7, <1>8 DEF Retriable
  <2>2. ~Busy(w, d)'
    BY <1>2, <2>1
  <2>3. CASE d \in DOMAIN todo[w] /\ todo'[w][d] = todo[w][d]
    <3>1. d \in Retriable(w)
      BY <2>1, <2>3 DEF Retriable
    <3>2. /\ file[d]["json"] \in Nat
          /\ d \notin listed[w] /\ ~(pc[w] = "clean" /\ at[w] = d)
          /\ \A v \in Workers : ~Busy(v, d)
      BY <3>1 DEF Calm, Ahead
    <3>3. file'[d]["json"] = file[d]["json"]
      BY <2>1, <3>2, ReadRemoves
    <3>4. ~(pc'[w] = "clean" /\ at'[w] = d)
      BY <1>3, <3>2 DEF Rejects
    <3> QED
      BY <1>2, <2>1, <2>2, <3>2, <3>3, <3>4
  <2>4. CASE LoadEntry(w, d) /\ todo'[w][d] = file[d]["json"]
    <3>1. /\ pc[w] = "load" /\ pc' = pc /\ file' = file
          /\ d \in listed[w] /\ file[d]["json"] \in Nat
      BY <2>4 DEF LoadEntry, Listed
    <3>2. ASSUME NEW v \in Workers \ {w}, Busy(v, d)
          PROVE  FALSE
      <4>1. pc[v] # "idle"
        BY <3>2 DEF Busy
      <4>2. v \notin Passes
        BY <4>1, ReadAlone
      <4>3. v \in Entries
        BY <4>2 DEF Workers, Passes
      <4>4. v = d
        BY <2>1, <3>2, <4>3, Relied
      <4>5. w # Boot
        <5>1. Startup
          BY TypedParts DEF Always
        <5> QED
          BY <3>1, <4>1, <5>1 DEF Startup
      <4>6. d \in cooling
        BY <2>1, <2>4, <3>1, <4>1, <4>4, <4>5 DEF Calm, ChannelShy, Absent
      <4>7. d \notin DOMAIN todo[w]
        BY <3>1 DEF Calm, Apart
      <4> QED
        BY <1>4, <2>1, <2>4, <4>5, <4>6, <4>7, EntryRead
    <3> QED
      BY <1>2, <2>1, <2>2, <3>1, <3>2
  <2> QED
    BY <1>3, <2>1, <2>3, <2>4 DEF Goes
<1>9. Ahead'
  <2> SUFFICES ASSUME NEW v \in Workers, NEW d \in Retriable(v)'
               PROVE  /\ file'[d]["json"] \in Nat
                      /\ d \notin listed'[v] /\ ~(pc'[v] = "clean" /\ at'[v] = d)
                      /\ \A u \in Workers : ~Busy(u, d)'
    BY DEF Ahead
  <2>1. d \in DOMAIN todo'[v]
    BY DEF Retriable
  <2>2. v = w
    BY <1>5, <2>1
  <2> QED
    BY <1>7, <1>8, <2>1, <2>2
<1>10. Apart'
  <2>1. \A v \in Workers : DOMAIN todo'[v] \cap listed'[v] = {}
    BY <1>5, <1>7
  <2>2. stale' \cap Entries = {}
    BY <1>1, ReadCalls DEF Calm, Apart
  <2> QED
    BY <2>1, <2>2 DEF Apart
<1> QED
  BY <1>9, <1>10

LEMMA CalmRead ==
  ASSUME Always, Calm, NEW w \in Workers, Read(w), ~overlapped'
  PROVE  Calm'
<1>1. /\ w \in Passes /\ w \notin Entries
      /\ pc[w] \in {"idle", "load", "clean", "next"} /\ pc'[w] \notin {"write", "ack"}
      /\ \A v \in Workers \ {w} : pc'[v] = pc[v] /\ at'[v] = at[v]
      /\ UNCHANGED <<cooling, issued, sent, acked, crashes>>
  BY ReadCases, TypedParts DEF Always, Locals
<1>2. /\ \A v \in Workers \ {w} : \A d \in Entries : Busy(v, d)' <=> Busy(v, d)
      /\ \A d \in Entries : ~Busy(w, d)
      /\ \A d \in Entries : Busy(w, d)' =>
           /\ file[d]["json"] \in Nat /\ file'[d]["json"] = file[d]["json"]
           /\ \A v \in Workers : ~Busy(v, d)
           /\ pc'[w] \in {"send", "open"}
      /\ \A d \in Entries : Held(d)' => Held(d)
  BY ReadBusy
<1>3. \A d \in Entries :
           /\ \A m \in Names \ {"json"} : file'[d][m] = file[d][m]
           /\ file'[d]["json"] \in {file[d]["json"], Absent}
           /\ d \notin misread => file'[d]["json"] = file[d]["json"]
  BY ReadRemoves
<1>4. /\ \A v \in Workers \ {w} : via'[v] = via[v]
      /\ via' = via \/ via'[w] = "moving"
      /\ faults \in Nat /\ faults' \in Nat /\ faults' >= faults
      /\ misread' = misread \/ faults' > 0
  BY ReadCalls
<1>5. misread \subseteq misread' /\ (pc'[w] = "clean" => Rejects(w, at'[w]))
  BY ReadMoves DEF Goes
<1>6. at' \in [Workers -> Entries] /\ at \in [Workers -> Entries] /\ acked \subseteq Entries
  <2>1. TypeOK' /\ TypeOK
    BY TypedRead DEF Typed, Always
  <2> QED
    BY <2>1 DEF TypeOK
<1>7. OnePass'
  <2>1. \A v \in Passes \ {w} : pc'[v] = "idle"
    BY <1>1, ReadAlone DEF Passes, Workers
  <2> QED
    BY <2>1 DEF OnePass
<1>8. OneAtIt'
  BY <1>2 DEF Calm, OneAtIt
<1>9. Ahead' /\ Apart'
  BY ReadAhead
<1>10. Present'
  <2> SUFFICES ASSUME NEW v \in Workers, NEW d \in Entries \ misread'
               PROVE  /\ Busy(v, d)' => file'[d]["json"] \in Nat
                      /\ pc'[v] = "clean" /\ at'[v] = d => file'[d]["json"] = Absent
    BY DEF Present
  <2>1. d \in Entries \ misread /\ file'[d]["json"] = file[d]["json"]
    BY <1>3, <1>5
  <2>2. CASE v # w
    BY <1>1, <1>2, <2>1, <2>2 DEF Calm, Present
  <2>3. CASE v = w
    <3>1. Busy(w, d)' => file'[d]["json"] \in Nat
      BY <1>2
    <3>2. ASSUME pc'[w] = "clean" /\ at'[w] = d
          PROVE  file'[d]["json"] = Absent
      BY <1>5, <2>1, <3>2 DEF Rejects, Calm, Whole
    <3> QED
      BY <2>3, <3>1, <3>2
  <2> QED
    BY <2>2, <2>3
<1>11. Whole'
  BY <1>3 DEF Calm, Whole
<1>12. Writing'
  <2> SUFFICES ASSUME NEW v \in Workers
               PROVE  /\ pc'[v] = "write" => fd'[v] = via'[v] /\ file'[at'[v]][via'[v]] = Blank
                      /\ pc'[v] = "rename" => via'[v] # "failed" /\ file'[at'[v]][via'[v]] \in Nat
                      /\ pc'[v] = "away" => via'[v] = "moving"
                      /\ pc'[v] = "unlink" => file'[at'[v]]["failed"] \in Nat
    BY DEF Writing
  <2>1. CASE v # w
    <3>1. pc'[v] = pc[v] /\ at'[v] = at[v] /\ via'[v] = via[v] /\ at[v] \in Entries
      BY <1>1, <1>4, <1>6, <2>1
    <3>2. via[v] \in Names \ {"json"} /\ "failed" \in Names \ {"json"}
      BY TypedParts DEF Always, Locals, Names
    <3>3. file'[at[v]][via[v]] = file[at[v]][via[v]] /\ file'[at[v]]["failed"] = file[at[v]]["failed"]
      BY <1>3, <3>1, <3>2
    <3>4. pc[v] = "write" => fd'[v] = fd[v]
      BY ReadOpened
    <3> QED
      BY <3>1, <3>3, <3>4 DEF Calm, Writing
  <2>2. CASE v = w
    <3>1. pc'[w] \notin {"rename", "away", "unlink"}
      <4>1. PICK d \in Entries : d = at'[w]
        BY <1>6
      <4>2. Busy(w, d)' \/ pc'[w] \in {"idle", "load", "clean", "next"}
        BY <4>1 DEF Busy
      <4> QED
        BY <1>2, <4>2
    <3> QED
      BY <1>1, <2>2, <3>1
  <2> QED
    BY <2>1, <2>2
<1>13. ChannelShy'
  <2> SUFFICES ASSUME NEW d \in Entries, pc'[d] # "idle"
               PROVE  \/ file'[d]["json"] \in {0, Absent}
                      \/ d \in cooling' /\ pc'[d] \in FileSteps
    BY DEF ChannelShy
  <2>1. pc'[d] = pc[d]
    BY <1>1 DEF Workers
  <2> QED
    BY <1>1, <1>3, <2>1 DEF Calm, ChannelShy
<1>14. Kept'
  <2> SUFFICES ASSUME NEW d \in issued \ misread'
               PROVE  sent[d] > 0 \/ file'[d]["json"] \in Nat \/ file'[d]["failed"] \in Nat
    BY <1>1 DEF Kept
  <2>1. d \in Entries /\ d \in issued \ misread
    BY <1>5, TypedParts DEF Always, Recorded
  <2>2. "failed" \in Names \ {"json"}
    BY DEF Names
  <2>3. file'[d]["json"] = file[d]["json"] /\ file'[d]["failed"] = file[d]["failed"]
    BY <1>3, <2>1, <2>2
  <2> QED
    BY <2>1, <2>3 DEF Calm, Kept
<1>15. \A d \in Entries : Acking(d) => Acking(d)'
  BY <1>1 DEF Acking
<1>16. Budget'
  <2> SUFFICES ASSUME NEW d \in Entries
               PROVE  /\ sent[d] <= 1 + crashes + faults'
                      /\ Held(d)' /\ ~Acking(d)' => sent[d] <= crashes + faults'
    BY <1>1 DEF Budget
  <2>1. /\ sent[d] <= 1 + crashes + faults
        /\ Held(d) /\ ~Acking(d) => sent[d] <= crashes + faults
    BY DEF Calm, Budget
  <2>2. sent[d] \in Nat /\ crashes \in Nat
    BY TypedParts DEF Always, Recorded
  <2> QED
    BY <1>2, <1>4, <1>15, <2>1, <2>2
<1>17. Gone'
  BY <1>1, <1>2, <1>6 DEF Calm, Gone
<1>18. Unfailing'
  <2> SUFFICES ASSUME faults' = 0
               PROVE  /\ misread' = {}
                      /\ \A v \in Workers : via'[v] # "failed"
                      /\ \A d \in Entries : file'[d]["failed"] # Absent => ~Held(d)' /\ d \notin acked'
    BY DEF Unfailing
  <2>1. /\ misread = {} /\ misread' = misread
        /\ \A v \in Workers : via[v] # "failed"
        /\ \A d \in Entries : file[d]["failed"] # Absent => ~Held(d) /\ d \notin acked
    BY <1>4 DEF Calm, Unfailing
  <2>2. "failed" \in Names \ {"json"}
    BY DEF Names
  <2> QED
    BY <1>1, <1>2, <1>3, <1>4, <2>1, <2>2
<1> QED
  BY <1>7, <1>8, <1>9, <1>10, <1>11, <1>12, <1>13, <1>14, <1>16, <1>17, <1>18 DEF Calm

(***************************************************************************)
(* While passes have not overlapped: what happens from outside.            *)
(***************************************************************************)
LEMMA CalmEnqueue ==
  ASSUME Always, Calm, NEW e \in Entries, Enqueue(e)
  PROVE  Calm'
<1>1. /\ e \in Workers /\ e \notin Passes /\ e \notin issued /\ issued' = issued \cup {e}
      /\ file'[e]["json"] = 0 /\ \A m \in Names \ {"json"} : file'[e][m] = Absent
      /\ \A d \in Entries \ {e} : file'[d] = file[d]
      /\ pc[e] = "idle" /\ pc'[e] = "send" /\ at'[e] = e
      /\ \A v \in Workers \ {e} : pc'[v] = pc[v] /\ at'[v] = at[v]
      /\ \A v \in Workers : /\ ~Busy(v, e) /\ ~(pc[v] = "clean" /\ at[v] = e)
                            /\ e \notin listed[v] /\ e \notin DOMAIN todo[v]
      /\ sent[e] = 0 /\ e \notin acked /\ e \notin misread
      /\ UNCHANGED <<cooling, recovering, listed, todo, seen, via, stale, fd, sent, acked, misread,
                     overlapped, faults, crashes>>
  BY NewEntry
<1>2. /\ \A v \in Workers : at[v] \in Entries
      /\ \A v \in Workers : DOMAIN todo[v] \subseteq Entries
      /\ acked \subseteq Entries /\ issued \subseteq Entries
      /\ sent \in [Entries -> Nat] /\ faults \in Nat /\ crashes \in Nat
  BY TypedParts DEF Always, Placed, Recorded
<1>3. /\ \A d \in Entries : Busy(e, d)' <=> d = e
      /\ \A v \in Workers \ {e} : \A d \in Entries : Busy(v, d)' <=> Busy(v, d)
      /\ \A d \in Entries : ~Busy(e, d)
  BY <1>1 DEF Busy
<1>4. \A d \in Entries \ {e} : (Held(d)' <=> Held(d)) /\ (Acking(d) => Acking(d)')
  <2> SUFFICES ASSUME NEW d \in Entries \ {e}
               PROVE  (Held(d)' <=> Held(d)) /\ (Acking(d) => Acking(d)')
    OBVIOUS
  <2>1. Held(d)' <=> Held(d)
    BY <1>1, <1>3 DEF Held
  <2>2. Acking(d) => Acking(d)'
    BY <1>1 DEF Acking
  <2> QED
    BY <2>1, <2>2
<1>5. OnePass'
  <2>1. \A v \in Passes : pc'[v] = pc[v]
    BY <1>1 DEF Passes, Workers
  <2> QED
    BY <2>1 DEF Calm, OnePass
<1>6. OneAtIt'
  BY <1>1, <1>3 DEF Calm, OneAtIt
<1>7. Ahead'
  <2> SUFFICES ASSUME NEW v \in Workers, NEW d \in Retriable(v)'
               PROVE  /\ file'[d]["json"] \in Nat
                      /\ d \notin listed'[v] /\ ~(pc'[v] = "clean" /\ at'[v] = d)
                      /\ \A u \in Workers : ~Busy(u, d)'
    BY DEF Ahead
  <2>1. d \in Retriable(v) /\ d \in Entries /\ d # e
    BY <1>1, <1>2 DEF Retriable
  <2>2. /\ file[d]["json"] \in Nat
        /\ d \notin listed[v] /\ ~(pc[v] = "clean" /\ at[v] = d)
        /\ \A u \in Workers : ~Busy(u, d)
    BY <2>1 DEF Calm, Ahead
  <2>3. ~(pc'[v] = "clean" /\ at'[v] = d)
    BY <1>1, <2>2
  <2>4. \A u \in Workers : ~Busy(u, d)'
    BY <1>3, <2>1, <2>2
  <2> QED
    BY <1>1, <2>1, <2>2, <2>3, <2>4
<1>8. Present'
  <2> SUFFICES ASSUME NEW v \in Workers, NEW d \in Entries \ misread
               PROVE  /\ Busy(v, d)' => file'[d]["json"] \in Nat
                      /\ pc'[v] = "clean" /\ at'[v] = d => file'[d]["json"] = Absent
    BY <1>1 DEF Present
  <2>1. CASE d = e
    <3>1. ~(pc'[v] = "clean" /\ at'[v] = d)
      BY <1>1, <2>1
    <3> QED
      BY <1>1, <2>1, <3>1
  <2>2. CASE d # e
    <3>1. /\ Busy(v, d) => file[d]["json"] \in Nat
          /\ pc[v] = "clean" /\ at[v] = d => file[d]["json"] = Absent
      BY DEF Calm, Present
    <3>2. (pc'[v] = "clean" /\ at'[v] = d) => (pc[v] = "clean" /\ at[v] = d)
      BY <1>1
    <3>3. Busy(v, d)' => Busy(v, d)
      BY <1>3, <2>2
    <3> QED
      BY <1>1, <2>2, <3>1, <3>2, <3>3
  <2> QED
    BY <2>1, <2>2
<1>9. Whole'
  BY <1>1 DEF Calm, Whole
<1>10. Writing'
  <2> SUFFICES ASSUME NEW v \in Workers
               PROVE  /\ pc'[v] = "write" => fd'[v] = via'[v] /\ file'[at'[v]][via'[v]] = Blank
                      /\ pc'[v] = "rename" => via'[v] # "failed" /\ file'[at'[v]][via'[v]] \in Nat
                      /\ pc'[v] = "away" => via'[v] = "moving"
                      /\ pc'[v] = "unlink" => file'[at'[v]]["failed"] \in Nat
    BY DEF Writing
  <2>1. CASE v = e
    BY <1>1, <2>1
  <2>2. CASE v # e /\ pc[v] \in {"write", "rename", "away", "unlink"}
    <3>1. Busy(v, at[v])
      BY <2>2 DEF Busy
    <3>2. at[v] \in Entries \ {e}
      BY <1>1, <1>2, <3>1
    <3>3. pc'[v] = pc[v] /\ via'[v] = via[v] /\ fd'[v] = fd[v] /\ at'[v] = at[v] /\ file'[at[v]] = file[at[v]]
      BY <1>1, <2>2, <3>2
    <3> QED
      BY <3>3 DEF Calm, Writing
  <2>3. CASE v # e /\ pc[v] \notin {"write", "rename", "away", "unlink"}
    BY <1>1, <2>3
  <2> QED
    BY <2>1, <2>2, <2>3
<1>11. ChannelShy'
  <2> SUFFICES ASSUME NEW d \in Entries, pc'[d] # "idle"
               PROVE  \/ file'[d]["json"] \in {0, Absent}
                      \/ d \in cooling' /\ pc'[d] \in FileSteps
    BY DEF ChannelShy
  <2>1. d # e => pc'[d] = pc[d]
    BY <1>1 DEF Workers
  <2> QED
    BY <1>1, <2>1 DEF Calm, ChannelShy
<1>12. Apart'
  BY <1>1 DEF Calm, Apart
<1>13. Kept'
  <2> SUFFICES ASSUME NEW d \in issued', d \notin misread
               PROVE  sent[d] > 0 \/ file'[d]["json"] \in Nat \/ file'[d]["failed"] \in Nat
    BY <1>1 DEF Kept
  <2>1. CASE d = e
    BY <1>1, <2>1
  <2>2. CASE d # e
    BY <1>1, <1>2, <2>2 DEF Calm, Kept
  <2> QED
    BY <2>1, <2>2
<1>14. Budget'
  <2> SUFFICES ASSUME NEW d \in Entries
               PROVE  /\ sent[d] <= 1 + crashes + faults
                      /\ Held(d)' /\ ~Acking(d)' => sent[d] <= crashes + faults
    BY <1>1 DEF Budget
  <2>1. CASE d = e
    BY <1>1, <1>2, <2>1
  <2>2. CASE d # e
    BY <1>4, <2>2 DEF Calm, Budget
  <2> QED
    BY <2>1, <2>2
<1>15. Gone'
  BY <1>1, <1>2, <1>4 DEF Calm, Gone
<1>16. Unfailing'
  <2> SUFFICES ASSUME faults = 0
               PROVE  /\ misread = {}
                      /\ \A v \in Workers : via[v] # "failed"
                      /\ \A d \in Entries : file'[d]["failed"] # Absent => ~Held(d)' /\ d \notin acked
    BY <1>1 DEF Unfailing
  <2>1. /\ misread = {}
        /\ \A v \in Workers : via[v] # "failed"
        /\ \A d \in Entries : file[d]["failed"] # Absent => ~Held(d) /\ d \notin acked
    BY DEF Calm, Unfailing
  <2>2. file'[e]["failed"] = Absent
    BY <1>1 DEF Names
  <2> QED
    BY <1>1, <1>4, <2>1, <2>2
<1> QED
  BY <1>5, <1>6, <1>7, <1>8, <1>9, <1>10, <1>11, <1>12, <1>13, <1>14, <1>15, <1>16 DEF Calm

LEMMA CalmElapse ==
  ASSUME Always, Calm, NEW e \in Entries, Elapse(e)
  PROVE  Calm'
<1>1. /\ cooling' = cooling \ {e} /\ \A w \in Workers : at[w] = e => pc[w] \notin FileSteps
      /\ UNCHANGED <<file, pc, at, listed, todo, via, stale, fd, issued, sent, acked, misread, faults, crashes>>
  BY DEF Elapse, pass, call, history
<1>2. ChannelShy'
  <2> SUFFICES ASSUME NEW d \in Entries, pc[d] # "idle"
               PROVE  \/ file[d]["json"] \in {0, Absent}
                      \/ d \in cooling' /\ pc[d] \in FileSteps
    BY <1>1 DEF ChannelShy
  <2>1. d \in issued /\ d \in Workers
    BY DEF Always, Unissued, Workers
  <2>2. at[d] = d
    BY <2>1, TypedParts DEF Always, Placed
  <2> QED
    BY <1>1, <2>1, <2>2 DEF Calm, ChannelShy
<1>3. OnePass' /\ OneAtIt' /\ Whole'
  BY <1>1 DEF Calm, OnePass, OneAtIt, Whole, Busy
<1>4. Ahead'
  BY <1>1 DEF Calm, Ahead, Retriable, Busy
<1>5. Present' /\ Writing'
  BY <1>1 DEF Calm, Present, Writing, Busy
<1>6. Apart' /\ Kept' /\ Gone'
  BY <1>1 DEF Calm, Apart, Kept, Gone, Held, Busy
<1>7. Budget' /\ Unfailing'
  BY <1>1 DEF Calm, Budget, Unfailing, Held, Acking, Busy
<1> QED
  BY <1>2, <1>3, <1>4, <1>5, <1>6, <1>7 DEF Calm

\* A restart: nobody is at anything, and one more send is to spare.
LEMMA CalmCrash ==
  ASSUME Always, Calm, Crash
  PROVE  Calm'
<1>1. /\ crashes' = crashes + 1
      /\ \A w \in Workers : pc'[w] = "idle" /\ via'[w] = "tmp" /\ listed'[w] = {} /\ todo'[w] = << >>
      /\ stale' = {}
      /\ UNCHANGED <<file, issued, sent, acked, misread, faults>>
  BY DEF Crash
<1>2. \A w \in Workers : \A d \in Entries : ~Busy(w, d)'
  BY <1>1 DEF Busy
<1>3. \A d \in Entries : Held(d)' => Held(d)
  BY <1>1, <1>2 DEF Held
<1>4. \A e \in Entries : pc'[e] = "idle"
  BY <1>1 DEF Workers
<1>5. OnePass' /\ OneAtIt' /\ Whole' /\ ChannelShy' /\ Kept'
  BY <1>1, <1>2, <1>4 DEF Calm, OnePass, OneAtIt, Whole, ChannelShy, Kept, Passes, Workers
<1>6. Ahead' /\ Apart'
  BY <1>1, EmptyPass DEF Ahead, Apart, Retriable
<1>7. Present' /\ Writing'
  BY <1>1, <1>2 DEF Present, Writing
<1>8. Budget'
  <2>1. sent \in [Entries -> Nat] /\ faults \in Nat /\ crashes \in Nat
    BY TypedParts DEF Always, Recorded
  <2>2. \A d \in Entries : sent[d] <= crashes' + faults
    BY <1>1, <2>1 DEF Calm, Budget
  <2> QED
    BY <1>1, <2>1, <2>2 DEF Budget
<1>9. Gone'
  <2>1. acked \subseteq Entries
    BY TypedParts DEF Always, Recorded
  <2> QED
    BY <1>1, <1>3, <2>1 DEF Calm, Gone
<1>10. Unfailing'
  BY <1>1, <1>3 DEF Calm, Unfailing
<1> QED
  BY <1>5, <1>6, <1>7, <1>8, <1>9, <1>10 DEF Calm

(***************************************************************************)
(* The theorems.                                                           *)
(***************************************************************************)
LEMMA OverlapStays ==
  ASSUME Always, Next
  PROVE  overlapped => overlapped'
<1>1. CASE \E w \in Workers : Work(w)
  <2>1. overlapped' = overlapped
    BY <1>1, WorkCases
  <2> QED
    BY <2>1
<1>2. CASE \E w \in Workers : Read(w)
  <2>1. overlapped' = overlapped \/ \E w \in Workers : Load(w)
    BY <1>2, ReadCalls
  <2> QED
    BY <2>1 DEF Load
<1>3. CASE Outside
  <2>1. overlapped' = overlapped
    BY <1>3 DEF Outside, Crash, Enqueue, Elapse, history
  <2> QED
    BY <2>1
<1> QED
  BY <1>1, <1>2, <1>3, NextSplit

LEMMA CalmStep ==
  ASSUME Always, Calm, Next, ~overlapped'
  PROVE  Calm'
BY NextSplit, CalmWork, CalmRead, CalmEnqueue, CalmElapse, CalmCrash DEF Outside

LEMMA CalmStutters ==
  ASSUME Calm, UNCHANGED vars
  PROVE  Calm'
<1>1. UNCHANGED <<file, cooling, pc, at, listed, todo, via, stale, fd, issued, sent, acked, misread, faults,
                  crashes>>
  BY DEF vars, pass, call, history
<1>2. OnePass' /\ OneAtIt' /\ Whole' /\ ChannelShy'
  BY <1>1 DEF Calm, OnePass, OneAtIt, Whole, ChannelShy, Busy
<1>3. Ahead'
  BY <1>1 DEF Calm, Ahead, Retriable, Busy
<1>4. Present' /\ Writing'
  BY <1>1 DEF Calm, Present, Writing, Busy
<1>5. Apart' /\ Kept' /\ Gone'
  BY <1>1 DEF Calm, Apart, Kept, Gone, Held, Busy
<1>6. Budget' /\ Unfailing'
  BY <1>1 DEF Calm, Budget, Unfailing, Held, Acking, Busy
<1> QED
  BY <1>2, <1>3, <1>4, <1>5, <1>6 DEF Calm

LEMMA Beginning ==
  ASSUME Init
  PROVE  Always /\ Calm
<1>1. /\ file = [e \in Entries |-> [n \in Names |-> Absent]]
      /\ cooling = {} /\ recovering = TRUE
      /\ pc = [w \in Workers |-> "idle"] /\ at \in [Workers -> Entries]
      /\ listed = [w \in Workers |-> {}] /\ todo = [w \in Workers |-> << >>]
      /\ seen = [w \in Workers |-> 0] /\ via = [w \in Workers |-> "tmp"]
      /\ stale = {} /\ fd = [w \in Workers |-> "none"]
      /\ issued = {} /\ sent = [e \in Entries |-> 0] /\ acked = {} /\ misread = {}
      /\ overlapped = FALSE /\ faults = 0 /\ crashes = 0
  BY DeliveryAssumption DEF Init
<1>2. Absent \in Contents /\ \A e \in Entries : e \in Workers
  BY DEF Contents, Workers
<1>3. /\ \A e \in Entries : \A n \in Names : file[e][n] = Absent
      /\ \A e \in Entries : sent[e] = 0
      /\ \A w \in Workers : /\ pc[w] = "idle" /\ via[w] = "tmp" /\ listed[w] = {}
                            /\ todo[w] = << >> /\ DOMAIN todo[w] = {}
  BY <1>1, EmptyPass
<1>4. /\ \A w \in Workers : \A e \in Entries : ~Busy(w, e)
      /\ \A w \in Workers : Retriable(w) = {}
      /\ \A e \in Entries : file[e]["json"] = Absent /\ file[e]["failed"] = Absent
  BY <1>3 DEF Busy, Retriable, Names
<1>5. Filed /\ Locals /\ Startup /\ Opened
  BY <1>1, <1>2 DEF Filed, Locals, Startup, Opened, Steps
<1>6. Recorded /\ Placed
  BY <1>1, <1>2, <1>3 DEF Recorded, Placed
<1>7. AckAfterSend /\ Unissued /\ FirstAttempt /\ Rested
  BY <1>1, <1>2, <1>3, <1>4 DEF AckAfterSend, Unissued, FirstAttempt, Rested
<1>8. OnePass /\ OneAtIt /\ Ahead /\ Present /\ Whole /\ Writing
  BY <1>2, <1>3, <1>4 DEF OnePass, OneAtIt, Ahead, Present, Whole, Writing, Passes, Workers
<1>9. ChannelShy /\ Apart /\ Kept /\ Gone
  BY <1>1, <1>2, <1>3 DEF ChannelShy, Apart, Kept, Gone
<1>10. Budget /\ Unfailing
  BY <1>1, <1>3, <1>4 DEF Budget, Unfailing
<1>11. Typed
  BY <1>5, <1>6, TypedParts
<1> QED
  BY <1>7, <1>8, <1>9, <1>10, <1>11 DEF Always, Calm

\* What holds in every history, and what holds as long as passes have not
\* overlapped, is kept by every step of every worker, by a restart and by every
\* file operation that fails.
THEOREM Invariance == Spec => []IInv
<1>1. Init => IInv
  BY Beginning DEF IInv
<1>2. IInv /\ [Next]_vars => IInv'
  <2> SUFFICES ASSUME IInv, [Next]_vars PROVE IInv'
    OBVIOUS
  <2>1. Always'
    BY AlwaysStep DEF IInv
  <2>2. ~overlapped' => Calm'
    <3>1. CASE Next
      BY <3>1, OverlapStays, CalmStep DEF IInv
    <3>2. CASE UNCHANGED vars
      <4>1. overlapped' = overlapped
        BY <3>2 DEF vars, history
      <4> QED
        BY <3>2, <4>1, CalmStutters DEF IInv
    <3> QED
      BY <3>1, <3>2
  <2> QED
    BY <2>1, <2>2 DEF IInv
<1> QED
  BY <1>1, <1>2, PTL DEF Spec

\* Every variable keeps its type; during the recovery nobody else works, because
\* the channels and the retry loop start after recoverPending(), and only passes
\* have entries ahead of them.
THEOREM TypeCorrect == Spec => []TypeOK
<1>1. IInv => TypeOK
  BY DEF IInv, Always, Typed
<1> QED
  BY <1>1, Invariance, PTL

\* As long as passes have not overlapped, loadPending() unlinks only what it has
\* failed to read: a message that was enqueued and never sent is in a file that
\* can be read, through torn writes, crashes and failed operations.
THEOREM NothingIsLost == Spec => []NothingLost
<1>1. IInv => NothingLost
  BY DEF IInv, Calm, Kept, NothingLost
<1> QED
  BY <1>1, Invariance, PTL

\* The retryCount of zero protects the first attempt: nobody else sends the
\* entry while the channel that enqueued it does, even when passes overlap.
THEOREM FirstAttemptIsAlone == Spec => []FirstAttemptAlone
<1>1. IInv => FirstAttemptAlone
  <2> SUFFICES ASSUME IInv, NEW e \in Entries, Sending(e, e), NEW w \in Workers \ {e}
               PROVE  ~Sending(w, e)
    BY DEF FirstAttemptAlone
  <2>1. pc[e] = "send"
    BY DEF Sending
  <2>2. ~Busy(w, e)
    BY <2>1 DEF IInv, Always, FirstAttempt
  <2> QED
    BY <2>2 DEF Sending, Busy
<1> QED
  BY <1>1, Invariance, PTL

\* As long as passes have not overlapped, a delivery is repeated at most once for
\* each restart and each failed operation: two workers never send one entry from
\* two readings of it.
THEOREM OncePerCrash == Spec => []SentOncePerCrash
<1>1. IInv => SentOncePerCrash
  BY DEF IInv, Calm, Budget, SentOncePerCrash
<1> QED
  BY <1>1, Invariance, PTL

\* As long as passes have not overlapped, ack() is final: no rename and no move
\* creates the entry again, and it reaches failed/ only when an operation failed.
THEOREM AckedRemoved == Spec => []AckedStaysGone
<1>1. IInv => AckedStaysGone
  <2> SUFFICES ASSUME IInv, ~overlapped, NEW e \in acked
               PROVE  file[e]["json"] = Absent /\ (faults = 0 => file[e]["failed"] = Absent)
    BY DEF AckedStaysGone
  <2>1. e \in Entries
    BY TypedParts DEF IInv, Always, Recorded
  <2>2. ~Held(e) /\ (faults = 0 => file[e]["failed"] = Absent)
    BY <2>1 DEF IInv, Calm, Gone, Unfailing
  <2> QED
    BY <2>2 DEF Held
<1> QED
  BY <1>1, Invariance, PTL
=============================================================================
