------------------------------ MODULE PatWatch -------------------------------
(***************************************************************************)
(* The watcher that keeps the ZITADEL provisioner PAT fresh                *)
(* (internal/patwatch/patwatch.go): New reads the file, registers a watch  *)
(* on its directory and starts a goroutine that reads the file again on    *)
(* every event with the file's name.  The operator rotates the secret at   *)
(* the same time.  Get returns `current'.                                  *)
(***************************************************************************)
EXTENDS Naturals, Sequences

CONSTANTS
    Pats,        \* the tokens the operator rotates through
    NoPat,       \* no usable token: readTrimmed returned an error
    Rotations,   \* how the operator may change the file, see Rotate
    EarlyStart,  \* may the operator rotate while New is still running?
    ReadErrors,  \* may the read of a good file fail?
    MaxChanges   \* bound on the number of changes to the file

AllRotations == {"write", "rename", "remove", "swap"}

ASSUME ConstantsAssumption ==
    /\ NoPat \notin Pats
    /\ Pats # {}
    /\ Rotations \subseteq AllRotations
    /\ EarlyStart \in BOOLEAN
    /\ ReadErrors \in BOOLEAN
    /\ MaxChanges \in Nat

VARIABLES
    file,      \* what readTrimmed would return now: a PAT, or NoPat
    writing,   \* the PAT of a write in place that truncated the file, or NoPat
    changes,   \* changes made to the file so far
    watching,  \* the directory watch is registered
    events,    \* names of the events fsnotify has not delivered yet
    announced, \* history: the watcher read what the file holds now, or has an
               \* event for it that no failed read has used up
    current,   \* Watcher.current
    next,      \* the local variable next of reload, NoPat outside it
    pc         \* where New and then the loop goroutine is

vars == <<file, writing, changes, watching, events, announced, current, next, pc>>

TypeOK ==
    /\ file \in Pats \cup {NoPat}
    /\ writing \in Pats \cup {NoPat}
    /\ changes \in 0..MaxChanges
    /\ watching \in BOOLEAN
    /\ events \in Seq({"basename", "..data"})
    /\ announced \in BOOLEAN
    /\ current \in Pats \cup {NoPat}
    /\ next \in Pats \cup {NoPat}
    /\ pc \in {"read", "add_watch", "loop", "reload", "store", "refused", "closed"}

Init ==
    /\ file \in Pats \cup {NoPat}
    /\ writing = NoPat
    /\ changes = 0
    /\ watching = FALSE
    /\ events = <<>>
    /\ announced = FALSE
    /\ current = NoPat
    /\ next = NoPat
    /\ pc = "read"

watcher == <<watching, current, next, pc>>

\* The kernel queues an event for a registered watch.
Notify(name) ==
    /\ events' = IF watching THEN Append(events, name) ELSE events
    /\ announced' = (watching /\ name = "basename")

\* No event the loop would act on is queued.
Quiet == \A i \in DOMAIN events : events[i] # "basename"

------------------------------------------------------------------------------
(* Plausible mistakes in the actions below, each caught by a property.       *)

\* reload that stores whatever it read.
StoreBlank ==
    /\ pc = "store"
    /\ current' = next
    /\ pc' = "loop"
    /\ next' = NoPat
    /\ UNCHANGED <<file, writing, changes, watching, events, announced>>

\* A loop that listens for the symlink swap of a Secret mount only.
LoopDataOnly ==
    /\ pc = "loop"
    /\ events # <<>>
    /\ events' = Tail(events)
    /\ pc' = IF Head(events) = "..data" THEN "reload" ELSE "loop"
    /\ UNCHANGED <<file, writing, changes, watching, announced, current, next>>

\* reload that forgets the events queued while it ran, as a debounce might.
StoreDrains ==
    /\ pc = "store"
    /\ current' = IF next = NoPat THEN current ELSE next
    /\ events' = <<>>
    /\ pc' = "loop"
    /\ next' = NoPat
    /\ UNCHANGED <<file, writing, changes, watching, announced>>

\* New that starts the loop although the file could not be read.
ReadInitialOpen ==
    /\ pc = "read"
    /\ current' = "blank"
    /\ pc' = "add_watch"
    /\ UNCHANGED <<file, writing, changes, watching, events, announced, next>>

------------------------------------------------------------------------------
(* The operator and the file system.                                         *)

MayRotate ==
    /\ changes < MaxChanges
    /\ EarlyStart \/ pc \notin {"read", "add_watch"}
    /\ writing = NoPat
    /\ changes' = changes + 1

\* A write in place: the file is truncated, and filled in a second step.
Truncate ==
    /\ "write" \in Rotations
    /\ MayRotate
    /\ file' = NoPat
    /\ writing' \in Pats
    /\ Notify("basename")
    /\ UNCHANGED watcher

Fill ==
    /\ writing # NoPat
    /\ file' = writing
    /\ writing' = NoPat
    /\ Notify("basename")
    /\ UNCHANGED <<changes, watcher>>

\* A new file renamed over the old one.
Rename ==
    /\ "rename" \in Rotations
    /\ MayRotate
    /\ file' \in Pats
    /\ Notify("basename")
    /\ UNCHANGED <<writing, watcher>>

Remove ==
    /\ "remove" \in Rotations
    /\ MayRotate
    /\ file' = NoPat
    /\ Notify("basename")
    /\ UNCHANGED <<writing, watcher>>

\* The kubelet renames ..data_tmp to ..data in the mount directory; the file
\* is a symlink through ..data and has no event of its own.
Swap ==
    /\ "swap" \in Rotations
    /\ MayRotate
    /\ file' \in Pats
    /\ Notify("..data")
    /\ UNCHANGED <<writing, watcher>>

------------------------------------------------------------------------------
(* New.                                                                      *)

\* What readTrimmed returns: the content, or NoPat for an error.
readTrimmed == {file} \cup (IF ReadErrors THEN {NoPat} ELSE {})

\* The initial read is fail-closed.
ReadInitial ==
    /\ pc = "read"
    /\ current' \in readTrimmed
    /\ announced' = TRUE
    /\ pc' = IF current' = NoPat THEN "refused" ELSE "add_watch"
    /\ UNCHANGED <<file, writing, changes, watching, events, next>>

\* NewWatcher and Add, either of which may fail; then the goroutine starts.
AddWatch ==
    /\ pc = "add_watch"
    /\ \/ watching' = TRUE /\ pc' = "loop"
       \/ watching' = FALSE /\ pc' = "refused"
    /\ UNCHANGED <<file, writing, changes, events, announced, current, next>>

------------------------------------------------------------------------------
(* loop, reload and Close.                                                   *)

\* An event is received and filtered by name.
Loop ==
    /\ pc = "loop"
    /\ events # <<>>
    /\ events' = Tail(events)
    /\ pc' = IF Head(events) = "basename" THEN "reload" ELSE "loop"
    /\ UNCHANGED <<file, writing, changes, watching, announced, current, next>>

\* reload: readTrimmed.  A failed read is not repeated before the next event.
Reload ==
    /\ pc = "reload"
    /\ next' \in readTrimmed
    /\ announced' = (next' = file \/ (announced /\ ~Quiet))
    /\ pc' = "store"
    /\ UNCHANGED <<file, writing, changes, watching, events, current>>

\* reload: a failed read keeps the previous value.
Store ==
    /\ pc = "store"
    /\ current' = IF next = NoPat THEN current ELSE next
    /\ pc' = "loop"
    /\ next' = NoPat
    /\ UNCHANGED <<file, writing, changes, watching, events, announced>>

\* Close; the goroutine finishes the event it is at first.
Close ==
    /\ pc = "loop"
    /\ pc' = "closed"
    /\ watching' = FALSE
    /\ UNCHANGED <<file, writing, changes, events, announced, current, next>>

------------------------------------------------------------------------------
Operator == Truncate \/ Fill \/ Rename \/ Remove \/ Swap

Watcher == ReadInitial \/ AddWatch \/ Loop \/ Reload \/ Store

Next == Operator \/ Watcher \/ Close

Spec == Init /\ [][Next]_vars

\* The goroutine keeps running and a truncated file is eventually filled.
Fairness == WF_vars(Watcher) /\ WF_vars(Fill)

FairSpec == Spec /\ Fairness

------------------------------------------------------------------------------
(* Properties.                                                               *)

Serving == pc \in {"loop", "reload", "store"}

(***************************************************************************)
(* Last-known-good: from the moment New returns, Get has a PAT, whatever   *)
(* the reads of a half-written or missing file return meanwhile (reload).  *)
(***************************************************************************)
NeverBlank == Serving \/ pc = "closed" => current \in Pats

\* The loop waits and has nothing left to do about what the file holds.
CaughtUp == pc = "loop" /\ announced /\ Quiet

(***************************************************************************)
(* Whenever the loop waits, no event with the file's name is queued, and   *)
(* the content was read, or announced under that name without a failed     *)
(* read using the event up, Get returns what the file holds: an event that *)
(* arrives between the read and the store of reload is not lost, and a     *)
(* rotation seen as several events ends with the last value (loop,         *)
(* reload).                                                                *)
(***************************************************************************)
UpToDate == CaughtUp /\ file # NoPat => current = file

(***************************************************************************)
(* A PAT that stays in the file and was announced under the file's name    *)
(* is in memory eventually, after any number of earlier rotations and      *)
(* failed reads, unless the read for its last event fails (loop, reload).  *)
(***************************************************************************)
AnnouncedArrives ==
    \A p \in Pats :
       (file = p /\ announced /\ Serving) ~>
          (current = p \/ file # p \/ ~announced \/ pc = "closed")

(***************************************************************************)
(* docs/operations.md:374-379, on a Secret rotation: patwatch "sees the    *)
(* basename change inside the parent directory (Kubernetes rotates Secrets *)
(* via atomic symlink swap) and reloads the value into memory": every PAT  *)
(* that stays in the file would be in memory eventually.                   *)
(***************************************************************************)
RotationArrives ==
    \A p \in Pats :
       (file = p /\ Serving) ~> (current = p \/ file # p \/ pc = "closed")
==============================================================================
