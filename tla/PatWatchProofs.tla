---------------------------- MODULE PatWatchProofs ----------------------------
(***************************************************************************)
(* Proofs about PatWatch, for any set of tokens, any kind and number of    *)
(* rotations, before and after New returns, and any number of queued       *)
(* events.                                                                 *)
(***************************************************************************)
EXTENDS PatWatch, TLAPS

\* One of the steps that change the file, and what they have in common: the
\* file or the write in progress changes, the watcher does not.
LEMMA OperatorStep ==
  ASSUME TypeOK, Operator
  PROVE  /\ file' \in Pats \cup {NoPat} /\ writing' \in Pats \cup {NoPat}
         /\ changes' \in 0..MaxChanges
         /\ UNCHANGED watcher
         /\ Notify("basename") \/ Notify("..data")
  BY ConstantsAssumption
  DEF TypeOK, Operator, Truncate, Fill, Rename, Remove, Swap, MayRotate, watcher

\* An event at the end of the queue or taken from its front leaves a queue.
LEMMA QueueStep ==
  ASSUME TypeOK, NEW name \in {"basename", "..data"}
  PROVE  /\ Append(events, name) \in Seq({"basename", "..data"})
         /\ events # <<>> => Tail(events) \in Seq({"basename", "..data"})
  BY DEF TypeOK

\* The watcher and the operator keep the types.
LEMMA TypeStep == TypeOK /\ [Next]_vars => TypeOK'
<1> SUFFICES ASSUME TypeOK, [Next]_vars PROVE TypeOK'
  OBVIOUS
<1>1. CASE Operator
  <2>1. events' \in Seq({"basename", "..data"}) /\ announced' \in BOOLEAN
    BY <1>1, OperatorStep, QueueStep DEF Notify, TypeOK
  <2> QED
    BY <1>1, <2>1, OperatorStep DEF TypeOK, watcher
<1>2. CASE ReadInitial
  BY <1>2 DEF ReadInitial, readTrimmed, TypeOK
<1>3. CASE AddWatch
  BY <1>3 DEF AddWatch, TypeOK
<1>4. CASE Loop
  BY <1>4, QueueStep DEF Loop, TypeOK
<1>5. CASE Reload
  BY <1>5 DEF Reload, readTrimmed, TypeOK
<1>6. CASE Store
  BY <1>6 DEF Store, TypeOK
<1>7. CASE Close
  BY <1>7 DEF Close, TypeOK
<1>8. CASE UNCHANGED vars
  BY <1>8 DEF vars, TypeOK
<1> QED
  BY <1>1, <1>2, <1>3, <1>4, <1>5, <1>6, <1>7, <1>8 DEF Next, Watcher

\* The watcher, the file and the queue of events are well typed.
THEOREM TypeCorrect == Spec => []TypeOK
<1>1. Init => TypeOK
  <2>1. 0 \in 0..MaxChanges /\ <<>> \in Seq({"basename", "..data"})
    BY ConstantsAssumption
  <2> QED
    BY <2>1 DEF Init, TypeOK
<1> QED
  BY <1>1, TypeStep, PTL DEF Spec

------------------------------------------------------------------------------
(***************************************************************************)
(* Last-known-good holds a step before New returns: once the initial read  *)
(* succeeded there is a PAT in memory, and no step takes it away.          *)
(***************************************************************************)
KnownGood == Serving \/ pc \in {"add_watch", "closed"} => current \in Pats

\* reload stores a non-empty read only, and nothing else writes current.
LEMMA KnownGoodStep == TypeOK /\ KnownGood /\ [Next]_vars => KnownGood'
<1> SUFFICES ASSUME TypeOK, KnownGood, [Next]_vars PROVE KnownGood'
  OBVIOUS
<1> USE DEF KnownGood, Serving, TypeOK
<1>1. CASE Operator
  BY <1>1, OperatorStep DEF watcher
<1>2. CASE Watcher \/ Close
  BY <1>2 DEF Watcher, Close, ReadInitial, AddWatch, Loop, Reload, Store, readTrimmed
<1> QED
  BY <1>1, <1>2 DEF Next, vars

\* From the moment New returns, Get has a PAT.
THEOREM NeverBlankHolds == Spec => []NeverBlank
<1>1. Init => KnownGood
  BY DEF Init, KnownGood, Serving
<1>2. KnownGood => NeverBlank
  BY DEF KnownGood, NeverBlank
<1> QED
  BY <1>1, <1>2, TypeCorrect, KnownGoodStep, PTL DEF Spec

------------------------------------------------------------------------------
(***************************************************************************)
(* UpToDate, made inductive: while no event with the file's name is queued *)
(* and the watcher knows of what the file holds, that is in memory, or in  *)
(* the variable that reload is about to store.  Before the watch is        *)
(* registered a change goes unannounced, and before the initial read so    *)
(* does the first content.                                                 *)
(***************************************************************************)
FreshInv ==
    /\ announced /\ file # NoPat /\ Quiet =>
          /\ pc \in {"add_watch", "loop"} => current = file
          /\ pc = "store" => next = file
    /\ pc = "read" => ~announced
    /\ pc \in {"read", "add_watch"} => ~watching

\* A change of the file is either on the queue under the file's name, or
\* not known to the watcher.
LEMMA ChangeIsAnnounced ==
  ASSUME TypeOK, Operator
  PROVE  announced' => watching /\ ~Quiet'
<1>1. CASE Notify("basename") /\ watching
  <2>1. events' = Append(events, "basename")
    BY <1>1 DEF Notify
  <2>2. /\ Len(events) + 1 \in DOMAIN events'
        /\ events'[Len(events) + 1] = "basename"
    BY <2>1 DEF TypeOK
  <2> QED
    BY <1>1, <2>2 DEF Quiet
<1>2. CASE Notify("..data") \/ ~watching
  BY <1>2, OperatorStep DEF Notify
<1> QED
  BY <1>1, <1>2, OperatorStep

\* A queue that is quiet after an event of another name was taken from its
\* front was quiet before.
LEMMA QuietTail ==
  ASSUME TypeOK, Loop, Head(events) # "basename", Quiet'
  PROVE  Quiet
<1> SUFFICES ASSUME NEW i \in DOMAIN events PROVE events[i] # "basename"
  BY DEF Quiet
<1>1. /\ events \in Seq({"basename", "..data"}) /\ events # <<>>
      /\ events' = Tail(events)
  BY DEF TypeOK, Loop
<1>2. i \in 1..Len(events)
  BY <1>1
<1>3. CASE i = 1
  BY <1>1, <1>3
<1>4. CASE i # 1
  <2>1. i - 1 \in DOMAIN Tail(events) /\ Tail(events)[i - 1] = events[i]
    BY <1>1, <1>2, <1>4
  <2> QED
    BY <1>1, <2>1 DEF Quiet
<1> QED
  BY <1>3, <1>4

\* A change that memory does not have yet is on the queue or being read.
LEMMA FreshStep == TypeOK /\ FreshInv /\ [Next]_vars => FreshInv'
<1> SUFFICES ASSUME TypeOK, FreshInv, [Next]_vars PROVE FreshInv'
  OBVIOUS
<1>1. CASE Operator
  <2>1. UNCHANGED watcher
    BY <1>1, OperatorStep
  <2> QED
    BY <1>1, <2>1, ChangeIsAnnounced DEF FreshInv, watcher
<1>2. CASE ReadInitial
  BY <1>2 DEF ReadInitial, readTrimmed, FreshInv
<1>3. CASE AddWatch
  BY <1>3 DEF AddWatch, FreshInv, Quiet
<1>4. CASE Loop
  <2>1. CASE Head(events) = "basename"
    BY <1>4, <2>1 DEF Loop, FreshInv
  <2>2. CASE Head(events) # "basename"
    BY <1>4, <2>2, QuietTail DEF Loop, FreshInv
  <2> QED
    BY <2>1, <2>2
<1>5. CASE Reload
  BY <1>5 DEF Reload, FreshInv, Quiet
<1>6. CASE Store
  BY <1>6 DEF Store, FreshInv, Quiet
<1>7. CASE Close
  BY <1>7 DEF Close, FreshInv
<1>8. CASE UNCHANGED vars
  BY <1>8 DEF vars, FreshInv, Quiet
<1> QED
  BY <1>1, <1>2, <1>3, <1>4, <1>5, <1>6, <1>7, <1>8 DEF Next, Watcher

\* Whenever the loop waits with no event of the file's name in the queue, Get
\* returns what the watcher was told of: no event is lost between the read
\* and the store of reload, however the events are batched.
THEOREM UpToDateHolds == Spec => []UpToDate
<1>1. Init => FreshInv
  BY DEF Init, FreshInv
<1>2. FreshInv => UpToDate
  BY DEF FreshInv, UpToDate, CaughtUp
<1> QED
  BY <1>1, <1>2, TypeCorrect, FreshStep, PTL DEF Spec
==============================================================================
