---------------------------- MODULE DeliveryQueue ----------------------------
(***************************************************************************)
(* gateway/delivery-queue.ts: the disk-backed queue of outbound messages.  *)
(*                                                                         *)
(* Everything the queue does is a sequence of awaited file operations, and *)
(* several such sequences run at once: the channel that enqueued an entry  *)
(* makes its first attempt (worker e for entry e), the startup recovery    *)
(* replays what an earlier process left (worker Boot), and setInterval     *)
(* starts a pass of the retry loop whether or not an earlier pass has      *)
(* ended (workers Ticks).  Between two awaits any other worker may run, a  *)
(* file operation may fail, and the process may stop; the files survive.   *)
(* writeFile() truncates a file first, and writes to what it has opened    *)
(* wherever that has been renamed to; a rename is atomic.  A send may take *)
(* any time; a file operation is short against the backoff, 5 s at least.  *)
(***************************************************************************)
EXTENDS Integers, FiniteSets

CONSTANTS
  Entries,    (* The deliveries.                                           *)
  Ticks,      (* The passes of the retry loop that may overlap.            *)
  Boot,       (* The startup recovery.                                     *)
  MaxRetries, (* DeliveryQueueOptions.maxRetries.                          *)
  MaxSends,   (* Bound on the successful sends of one entry.               *)
  MaxCrashes, (* Bound on the restarts.                                    *)
  MaxFaults   (* Bound on the file operations that fail.                   *)

ASSUME DeliveryAssumption ==
  /\ Entries # {} /\ Entries \cap Ticks = {} /\ Boot \notin Entries \cup Ticks
  /\ MaxRetries \in Nat \ {0}
  /\ MaxSends \in Nat /\ MaxCrashes \in Nat /\ MaxFaults \in Nat

Workers == Entries \cup Ticks \cup {Boot}

\* The files of an entry: {id}.json, {id}.tmp, {id}.moving.tmp and its file in
\* failed/.  A file is its retryCount, or cannot be parsed because it was
\* truncated or written by two at once, or does not exist.
Names == {"json", "tmp", "moving", "failed"}
Absent == -1
Blank == -2
Garbled == -3
Contents == Nat \cup {Absent, Blank, Garbled}

VARIABLES
  file,       (* Per entry: what its files hold.                           *)
  cooling,    (* The entries whose backoff since lastAttemptAt still runs. *)
  recovering, (* Startup: the gateway waits for recoverPending.            *)
  pc, at,     (* Per worker: its next step, and the entry it is at.        *)
  listed,     (* The entries whose files loadPending has still to read.    *)
  todo,       (* The entries of a pass still ahead, as loadPending read.   *)
  seen,       (* The retryCount a worker is about to write.                *)
  via,        (* The file it is about to open, write or rename.            *)
  fd,         (* Where the file it has opened is by now.                   *)
  stale,      (* The workers whose entry has outlived its time or retries. *)
  issued,     (* History: the entries ever enqueued.                       *)
  sent,       (* History: the successful sends of each entry.              *)
  acked,      (* History: the entries ack has removed.                     *)
  misread,    (* History: the entries loadPending has failed to read.      *)
  overlapped, (* History: two passes of the retry loop were under way.     *)
  faults, crashes

pass == <<listed, todo>>
call == <<seen, via, stale>>
history == <<issued, sent, acked, misread, overlapped, faults, crashes>>
vars == <<file, cooling, recovering, pc, at, pass, call, fd, history>>

Pending == {e \in Entries : file[e]["json"] # Absent}

Go(w, step) == pc' = [pc EXCEPT ![w] = step]

\* A worker is done with an entry.
Done(w) ==
  /\ Go(w, IF w \in Entries THEN "idle" ELSE "next")
  /\ seen' = [seen EXCEPT ![w] = 0]
  /\ via' = [via EXCEPT ![w] = "tmp"]
  /\ stale' = stale \ {w}

(***************************************************************************)
(* The files of the entry a worker is at.                                  *)
(***************************************************************************)
\* Those who have opened a file of e follow it, or lose it.
Follow(e, where) ==
  fd' = [w \in Workers |-> IF at[w] = e THEN where[fd[w]] ELSE fd[w]]

Renamed(files, from, to) == [files EXCEPT ![to] = files[from], ![from] = Absent]

Rename(e, from, to) ==
  /\ file' = [file EXCEPT ![e] = Renamed(@, from, to)]
  /\ Follow(e, [n \in Names \cup {"none", "gone"} |->
                  IF n = from THEN to ELSE IF n = to THEN "gone" ELSE n])

Unlink(e) ==
  /\ file' = [file EXCEPT ![e]["json"] = Absent]
  /\ Follow(e, [n \in Names \cup {"none", "gone"} |-> IF n = "json" THEN "gone" ELSE n])

\* A file on which a second writer writes from its start, past a first one.
Overwritten(content, n) == IF content = Blank THEN {n} ELSE {n, Garbled}

(***************************************************************************)
(* enqueue, loadPending and the passes.                                    *)
(***************************************************************************)

\* The entry appears under its name whole; the channel then sends it.
Enqueue(e) ==
  /\ ~recovering
  /\ e \notin issued
  /\ issued' = issued \cup {e}
  /\ file' = [file EXCEPT ![e]["json"] = 0]
  /\ at' = [at EXCEPT ![e] = e]
  /\ Go(e, "send")
  /\ UNCHANGED <<cooling, recovering, pass, call, fd,
                 sent, acked, misread, overlapped, faults, crashes>>

\* Mutant: the retry loop is started without awaiting the recovery.
MayLoadAnytime(w) == w \in Ticks \/ (recovering /\ w = Boot)

MayLoad(w) == IF recovering THEN w = Boot ELSE w \in Ticks

\* loadPending() lists the directory, ...
Load(w) ==
  /\ pc[w] = "idle"
  /\ MayLoad(w)
  /\ listed' = [listed EXCEPT ![w] = Pending]
  /\ Go(w, "load")
  /\ overlapped' = (overlapped \/ \E v \in Ticks : pc[v] # "idle")
  /\ UNCHANGED <<file, cooling, recovering, at, todo, call, fd,
                 issued, sent, acked, misread, faults, crashes>>

Listed(w, e) ==
  /\ pc[w] = "load"
  /\ e \in listed[w]
  /\ listed' = [listed EXCEPT ![w] = @ \ {e}]

\* ... reads the files, of which a pass of the retry loop then ignores those
\* inside their backoff, ...
LoadEntry(w, e) ==
  /\ Listed(w, e)
  /\ file[e]["json"] \in Nat
  /\ todo' = [todo EXCEPT ![w] =
                [d \in DOMAIN @ \cup ({e} \ (IF w = Boot THEN {} ELSE cooling)) |->
                   IF d = e THEN file[e]["json"] ELSE @[d]]]
  /\ UNCHANGED <<file, cooling, recovering, pc, at, call, fd, history>>

\* ... and unlinks each that it cannot read or parse,
LoadCorrupt(w, e) ==
  /\ Listed(w, e)
  /\ file[e]["json"] \notin Nat
  /\ at' = [at EXCEPT ![w] = e]
  /\ Go(w, "clean")
  /\ UNCHANGED <<file, cooling, recovering, todo, call, fd, history>>

Fault == faults < MaxFaults /\ faults' = faults + 1

\* one whose read has failed included.
LoadFails(w, e) ==
  /\ Listed(w, e)
  /\ Fault
  /\ misread' = misread \cup {e}
  /\ at' = [at EXCEPT ![w] = e]
  /\ Go(w, "clean")
  /\ UNCHANGED <<file, cooling, recovering, todo, call, fd,
                 issued, sent, acked, overlapped, crashes>>

Clean(w) ==
  /\ pc[w] = "clean"
  /\ Unlink(at[w])
  /\ Go(w, "load")
  /\ UNCHANGED <<cooling, recovering, at, pass, call, history>>

EndLoad(w) ==
  /\ pc[w] = "load" /\ listed[w] = {}
  /\ Go(w, "next")
  /\ UNCHANGED <<file, cooling, recovering, at, pass, call, fd, history>>

\* Mutants: the retry loop takes entries that were never attempted; it counts
\* the first retry off by one.
AnyEntry(w) == DOMAIN todo[w]
SecondRetryOn(w) == {e \in DOMAIN todo[w] : w = Boot \/ todo[w][e] > 1}

\* The retry loop leaves an entry to the channel that is sending it first.
Retriable(w) == {e \in DOMAIN todo[w] : w = Boot \/ todo[w][e] # 0}

Rest(w, e) == [todo EXCEPT ![w] = [d \in DOMAIN @ \ {e} |-> @[d]]]

\* Not attempted before, inside its backoff, or without a handler.
Skip(w) ==
  /\ pc[w] = "next"
  /\ \E e \in DOMAIN todo[w] : todo' = Rest(w, e)
  /\ UNCHANGED <<file, cooling, recovering, pc, at, listed, call, fd, history>>

Exhausted(w, e) == w = Boot /\ todo[w][e] >= MaxRetries

Attempt(w, e) ==
  /\ pc[w] = "next"
  /\ e \in Retriable(w)
  /\ ~Exhausted(w, e)
  /\ todo' = Rest(w, e)
  /\ at' = [at EXCEPT ![w] = e]
  /\ Go(w, "send")
  /\ UNCHANGED <<file, cooling, recovering, listed, call, fd, history>>

\* A stale or exhausted entry goes to failed/ with the content that was read.
GiveUp(w, e) ==
  /\ pc[w] = "next"
  /\ e \in Retriable(w)
  /\ todo' = Rest(w, e)
  /\ at' = [at EXCEPT ![w] = e]
  /\ seen' = [seen EXCEPT ![w] = todo[w][e]]
  /\ via' = [via EXCEPT ![w] = "moving"]
  /\ stale' = stale \cup {w}
  /\ Go(w, "open")
  /\ UNCHANGED <<file, cooling, recovering, listed, fd, history>>

\* The end of a pass; the recovery may run out of its time budget before.
EndPass(w) ==
  /\ pc[w] = "next"
  /\ w = Boot \/ DOMAIN todo[w] = {}
  /\ todo' = [todo EXCEPT ![w] = << >>]
  /\ recovering' = (recovering /\ w # Boot)
  /\ Go(w, "idle")
  /\ UNCHANGED <<file, cooling, at, listed, call, fd, history>>

(***************************************************************************)
(* One attempt: the handler, then ack or failDelivery.                     *)
(***************************************************************************)
SendOk(w) ==
  /\ pc[w] = "send"
  /\ sent[at[w]] < MaxSends
  /\ sent' = [sent EXCEPT ![at[w]] = @ + 1]
  /\ Go(w, "ack")
  /\ UNCHANGED <<file, cooling, recovering, at, pass, call, fd,
                 issued, acked, misread, overlapped, faults, crashes>>

SendFails(w) ==
  /\ pc[w] = "send"
  /\ Go(w, "read")
  /\ UNCHANGED <<file, cooling, recovering, at, pass, call, fd, history>>

\* rename to {id}.delivered, then unlink; a missing file is ignored.
Ack(w) ==
  /\ pc[w] = "ack"
  /\ Unlink(at[w])
  /\ acked' = acked \cup {at[w]}
  /\ Done(w)
  /\ UNCHANGED <<cooling, recovering, at, pass,
                 issued, sent, misread, overlapped, faults, crashes>>

\* Mutant: failDelivery writes the entry in place.
InPlace == "json"

Scratch == "tmp"

\* Where the new content goes first: after the last retry the entry is moved to
\* failed/, and after any if the error is permanent.
Ways(n) == IF n >= MaxRetries THEN {"moving"} ELSE {"moving", Scratch}

\* failDelivery reads the entry, and ignores one that it cannot read.
ReadFailed(w) ==
  /\ pc[w] = "read"
  /\ LET n == file[at[w]]["json"] + 1
     IN  IF file[at[w]]["json"] \notin Nat
         THEN Done(w)
         ELSE /\ seen' = [seen EXCEPT ![w] = n]
              /\ \E name \in Ways(n) : via' = [via EXCEPT ![w] = name]
              /\ Go(w, "open")
              /\ UNCHANGED stale
  /\ UNCHANGED <<file, cooling, recovering, at, pass, fd, history>>

\* writeFile() creates the file, or truncates the one that is there.
Open(w) ==
  /\ pc[w] = "open"
  /\ file' = [file EXCEPT ![at[w]][via[w]] = Blank]
  /\ fd' = [fd EXCEPT ![w] = via[w]]
  /\ Go(w, "write")
  /\ UNCHANGED <<cooling, recovering, at, pass, call, history>>

Write(w) ==
  /\ pc[w] = "write"
  /\ IF fd[w] = "gone" THEN UNCHANGED file
     ELSE \E x \in Overwritten(file[at[w]][fd[w]], seen[w]) :
            file' = [file EXCEPT ![at[w]][fd[w]] = x]
  /\ fd' = [fd EXCEPT ![w] = "none"]
  /\ Go(w, IF via[w] = "failed" THEN "unlink" ELSE "rename")
  /\ UNCHANGED <<cooling, recovering, at, pass, call, history>>

\* moveToFailed, when a step throws, writes to failed/ directly, and gives up
\* when that throws too; failDelivery ignores what throws.
Throws(w) ==
  IF via[w] = "moving"
  THEN /\ Go(w, "open")
       /\ via' = [via EXCEPT ![w] = "failed"]
       /\ UNCHANGED <<seen, stale>>
  ELSE Done(w)

\* The rename replaces {id}.json, or creates it again; moveToFailed goes on.
RenameTmp(w) ==
  /\ pc[w] = "rename"
  /\ IF file[at[w]][via[w]] = Absent
     THEN Throws(w) /\ UNCHANGED <<file, fd, cooling>>
     ELSE /\ Rename(at[w], via[w], "json")
          /\ cooling' = IF w \in stale THEN cooling ELSE cooling \cup {at[w]}
          /\ IF via[w] = "moving" THEN Go(w, "away") /\ UNCHANGED call ELSE Done(w)
  /\ UNCHANGED <<recovering, at, pass, history>>

MoveAway(w) ==
  /\ pc[w] = "away"
  /\ IF file[at[w]]["json"] = Absent
     THEN Throws(w) /\ UNCHANGED <<file, fd>>
     ELSE Rename(at[w], "json", "failed") /\ Done(w)
  /\ UNCHANGED <<cooling, recovering, at, pass, history>>

\* After the direct write.
UnlinkMoved(w) ==
  /\ pc[w] = "unlink"
  /\ Unlink(at[w])
  /\ Done(w)
  /\ UNCHANGED <<cooling, recovering, at, pass, history>>

WriteSteps == {"open", "write", "rename", "away"}
FileSteps == {"ack", "read", "unlink"} \cup WriteSteps

\* A file operation fails: an unlink that fails is ignored, like one of ack's.
StepFails(w) ==
  /\ pc[w] \in FileSteps \cup {"clean"}
  /\ Fault
  /\ CASE pc[w] \in WriteSteps -> Throws(w)
       [] pc[w] = "clean" -> Go(w, "load") /\ UNCHANGED call
       [] OTHER -> Done(w)
  /\ fd' = [fd EXCEPT ![w] = "none"]
  /\ UNCHANGED <<file, cooling, recovering, at, pass,
                 issued, sent, acked, misread, overlapped, crashes>>

\* The backoff of an entry elapses.
Elapse(e) ==
  /\ e \in cooling
  /\ \A w \in Workers : at[w] = e => pc[w] \notin FileSteps
  /\ cooling' = cooling \ {e}
  /\ UNCHANGED <<file, recovering, pc, at, pass, call, fd, history>>

\* The process is replaced: only the files survive.
Crash ==
  /\ crashes < MaxCrashes
  /\ crashes' = crashes + 1
  /\ recovering' = TRUE
  /\ pc' = [w \in Workers |-> "idle"]
  /\ listed' = [w \in Workers |-> {}] /\ todo' = [w \in Workers |-> << >>]
  /\ seen' = [w \in Workers |-> 0] /\ via' = [w \in Workers |-> "tmp"]
  /\ stale' = {} /\ fd' = [w \in Workers |-> "none"]
  /\ UNCHANGED <<file, cooling, at,
                 issued, sent, acked, misread, overlapped, faults>>

Init ==
  /\ file = [e \in Entries |-> [n \in Names |-> Absent]]
  /\ cooling = {} /\ recovering = TRUE
  /\ pc = [w \in Workers |-> "idle"]
  /\ at = [w \in Workers |-> CHOOSE e \in Entries : TRUE]
  /\ listed = [w \in Workers |-> {}] /\ todo = [w \in Workers |-> << >>]
  /\ seen = [w \in Workers |-> 0] /\ via = [w \in Workers |-> "tmp"]
  /\ stale = {} /\ fd = [w \in Workers |-> "none"]
  /\ issued = {} /\ sent = [e \in Entries |-> 0] /\ acked = {} /\ misread = {}
  /\ overlapped = FALSE /\ faults = 0 /\ crashes = 0

Pass(w) ==
  \/ Load(w) \/ Clean(w) \/ EndLoad(w) \/ Skip(w) \/ EndPass(w)
  \/ \E e \in Entries : \/ LoadEntry(w, e) \/ LoadCorrupt(w, e)
                        \/ Attempt(w, e) \/ GiveUp(w, e)

Send(w) == SendOk(w) \/ SendFails(w)

Settle(w) ==
  \/ Ack(w) \/ ReadFailed(w) \/ Open(w) \/ Write(w) \/ RenameTmp(w)
  \/ MoveAway(w) \/ UnlinkMoved(w)

Fails(w) == StepFails(w) \/ \E e \in Entries : LoadFails(w, e)

Next ==
  \/ \E e \in Entries : Enqueue(e) \/ Elapse(e)
  \/ \E w \in Workers : Pass(w) \/ Send(w) \/ Settle(w) \/ Fails(w)
  \/ Crash

Spec == Init /\ [][Next]_vars

(***************************************************************************)
(* The timer keeps firing, a handler answers, file operations return, and  *)
(* a backoff elapses: an entry that keeps being pending is attempted.      *)
(***************************************************************************)
Fairness ==
  /\ \A e \in Entries : WF_vars(Elapse(e))
  /\ \A w \in Workers :
       /\ WF_vars(Pass(w)) /\ WF_vars(Send(w)) /\ WF_vars(Settle(w))
       /\ \A e \in Entries : SF_vars(Attempt(w, e))

FairSpec == Spec /\ Fairness

(***************************************************************************)
(* Properties.                                                             *)
(***************************************************************************)
\* Every variable has its type; during the recovery nobody else works, and
\* only passes have entries ahead of them.
TypeOK ==
  /\ file \in [Entries -> [Names -> Contents]]
  /\ cooling \subseteq Entries
  /\ recovering \in BOOLEAN
  /\ pc \in [Workers -> {"idle", "load", "clean", "next", "send"} \cup FileSteps]
  /\ at \in [Workers -> Entries] /\ \A e \in issued : at[e] = e
  /\ listed \in [Workers -> SUBSET Entries]
  /\ \A w \in Workers : \A e \in DOMAIN todo[w] : e \in Entries /\ todo[w][e] \in Nat
  /\ \A e \in Entries : pc[e] \notin {"load", "clean", "next"} /\ todo[e] = << >>
  /\ recovering => \A w \in Workers \ {Boot} : pc[w] = "idle"
  /\ ~recovering => pc[Boot] = "idle"
  /\ seen \in [Workers -> Nat]
  /\ via \in [Workers -> {"tmp", "moving", "failed"}]
  /\ fd \in [Workers -> Names \cup {"none", "gone"}]
  /\ \A w \in Workers : pc[w] = "write" <=> fd[w] # "none"
  /\ stale \subseteq Workers
  /\ issued \subseteq Entries /\ acked \subseteq Entries /\ misread \subseteq Entries
  /\ sent \in [Entries -> Nat] /\ faults \in Nat /\ crashes \in Nat
  /\ overlapped \in BOOLEAN

Sending(w, e) == pc[w] = "send" /\ at[w] = e

\* As long as passes have not overlapped, an enqueued message that was never
\* sent is in a file that can be read, pending or in failed/: over a crash at any
\* await, every race of its channel with a pass, and every failed operation but
\* one.  (loadPending() removes a pending file when reading it fails for once,
\* and two passes may write {id}.tmp at once and rename what cannot be parsed.)
NothingLost ==
  ~overlapped =>
    \A e \in issued \ misread :
      sent[e] > 0 \/ file[e]["json"] \in Nat \/ file[e]["failed"] \in Nat

\* No pass of the retry loop, and no recovery, sends an entry while the
\* channel that enqueued it is still making the first attempt.
FirstAttemptAlone ==
  \A e \in Entries : Sending(e, e) => \A w \in Workers \ {e} : ~Sending(w, e)

\* As long as passes have not overlapped, a message is sent a second time only
\* because the process stopped between the send and the ack, or the ack failed.
SentOncePerCrash ==
  ~overlapped => \A e \in Entries : sent[e] <= 1 + crashes + faults

\* What has been acknowledged stays removed: "on success calls ack() -> entry
\* deleted" (delivery-queue.ts:11).
AckedIsGone ==
  \A e \in acked : file[e]["json"] = Absent /\ file[e]["failed"] = Absent

\* As long as passes have not overlapped, no failure recorded by another
\* worker, and no stale or exhausted snapshot, creates an acknowledged entry
\* again; a copy in failed/ is left only by a file operation that failed.
AckedStaysGone ==
  ~overlapped =>
    \A e \in acked :
      file[e]["json"] = Absent /\ (faults = 0 => file[e]["failed"] = Absent)

\* An entry that has been attempted is eventually delivered or in failed/, or
\* removed as unreadable.
EventuallySettled ==
  \A e \in Entries : file[e]["json"] > 0 ~> file[e]["json"] = Absent
==============================================================================
