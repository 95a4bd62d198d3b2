--------------------------- MODULE AuthGateProofs ----------------------------
(***************************************************************************)
(* AuthGate serves every request by the verifier it loaded, and implements *)
(* Gate, for any number of requests and activations.                       *)
(***************************************************************************)
EXTENDS AuthGate, TLAPS

(***************************************************************************)
(* The state of the gate is well typed (Gate, Middleware).                 *)
(***************************************************************************)
THEOREM TypeCorrect == Spec => []TypeOK
<1> USE ConstantsAssumption
<1>1. Init => TypeOK
  BY DEF Init, TypeOK, MaybeVerifier, Critical
<1>2. TypeOK /\ [Next]_vars => TypeOK'
  <2> SUFFICES ASSUME TypeOK, [Next]_vars PROVE TypeOK'
    OBVIOUS
  <2> USE DEF TypeOK, MaybeVerifier, Critical, Goto, request
  <2>1. ASSUME NEW a \in Acts, Activate(a) PROVE TypeOK'
    BY <2>1 DEF Activate, Begin, Discover, Store
  <2>2. ASSUME NEW r \in Reqs, Arrive(r) PROVE TypeOK'
    BY <2>2 DEF Arrive
  <2>3. ASSUME NEW r \in Reqs, Load(r) \/ Lock(r) \/ Compare(r) PROVE TypeOK'
    BY <2>3 DEF Load, Lock, Compare
  <2>4. ASSUME NEW r \in Reqs, Compile(r) \/ Remember(r) \/ Take(r) PROVE TypeOK'
    BY <2>4 DEF Compile, Remember, Take
  <2>5. ASSUME NEW r \in Reqs, Open(r) \/ Unlock(r) \/ Serve(r) PROVE TypeOK'
    BY <2>5 DEF Open, Unlock, Serve, Inactive, Authenticated
  <2>6. CASE UNCHANGED vars
    BY <2>6 DEF vars
  <2> QED
    BY <2>1, <2>2, <2>3, <2>4, <2>5, <2>6 DEF Next, Middleware
<1> QED
  BY <1>1, <1>2, PTL DEF Spec

------------------------------------------------------------------------------
(***************************************************************************)
(* The invariant behind the cache: the request in the critical section     *)
(* holds the mutex; the cached chain belongs to the cached pointer except  *)
(* between the two assignments of its holder; a request that compiled or   *)
(* found a chain has the one of its own pointer.                           *)
(***************************************************************************)
MutexInv == \A r \in Reqs : pc[r] \in Critical => mu = r

CacheInv ==
    /\ (\A r \in Reqs : pc[r] # "remember") => cached = cachedVP
    /\ \A r \in Reqs :
          /\ pc[r] \in {"remember", "take"} => cached = vp[r]
          /\ pc[r] \in {"unlock", "serve"} => chain[r] = vp[r]
          /\ pc[r] = "open" => vp[r] = NoVerifier
          /\ pc[r] \in Critical \cup {"lock", "serve"} => vp[r] \in Acts

GateInv == MutexInv /\ CacheInv

\* One step per action; Compile, Remember and Take need that no other request
\* is in the critical section.
LEMMA GateStep == TypeOK /\ GateInv /\ [Next]_vars => GateInv'
<1> USE ConstantsAssumption
<1> SUFFICES ASSUME TypeOK, GateInv, [Next]_vars PROVE GateInv'
  OBVIOUS
<1> USE DEF TypeOK, GateInv, MutexInv, CacheInv, Critical, MaybeVerifier, Goto,
            request
<1>1. ASSUME NEW a \in Acts, Activate(a) PROVE GateInv'
  BY <1>1 DEF Activate, Begin, Discover, Store
<1>2. ASSUME NEW r \in Reqs, Arrive(r) PROVE GateInv'
  BY <1>2 DEF Arrive
<1>3. ASSUME NEW r \in Reqs, Load(r) PROVE GateInv'
  BY <1>3 DEF Load
<1>4. ASSUME NEW r \in Reqs, Open(r) PROVE GateInv'
  BY <1>4 DEF Open
<1>5. ASSUME NEW r \in Reqs, Lock(r) PROVE GateInv'
  BY <1>5 DEF Lock
<1>6. ASSUME NEW r \in Reqs, Compare(r) PROVE GateInv'
  <2>1. \A s \in Reqs : pc[s] # "remember"
    BY <1>6 DEF Compare
  <2> QED
    BY <1>6, <2>1 DEF Compare
<1>7. ASSUME NEW r \in Reqs, Compile(r) PROVE GateInv'
  BY <1>7 DEF Compile
<1>8. ASSUME NEW r \in Reqs, Remember(r) PROVE GateInv'
  BY <1>8 DEF Remember
<1>9. ASSUME NEW r \in Reqs, Take(r) PROVE GateInv'
  BY <1>9 DEF Take
<1>10. ASSUME NEW r \in Reqs, Unlock(r) PROVE GateInv'
  BY <1>10 DEF Unlock
<1>11. ASSUME NEW r \in Reqs, Serve(r) PROVE GateInv'
  BY <1>11 DEF Serve
<1>12. CASE UNCHANGED vars
  BY <1>12 DEF vars
<1> QED
  BY <1>1, <1>2, <1>3, <1>4, <1>5, <1>6, <1>7, <1>8, <1>9, <1>10, <1>11, <1>12
  DEF Next, Middleware

\* GateInv as an invariant of the specification.
LEMMA GateInvariant == Spec => []GateInv
<1>1. Init => GateInv
  BY DEF Init, GateInv, MutexInv, CacheInv, Critical
<1> QED
  BY <1>1, TypeCorrect, GateStep, PTL DEF Spec

(***************************************************************************)
(* Whatever requests and activations interleave, a request is served by    *)
(* the chain of the verifier it loaded (Middleware).                       *)
(***************************************************************************)
THEOREM ServedByLoadedHolds == Spec => []ServedByLoaded
<1>1. GateInv => ServedByLoaded
  BY DEF GateInv, CacheInv, ServedByLoaded
<1> QED
  BY <1>1, GateInvariant, PTL

------------------------------------------------------------------------------
(***************************************************************************)
(* What StaysActive needs: an activation that is over left a verifier.     *)
(***************************************************************************)
ActiveInv == \A a \in Acts : act[a] = "done" => verifier # NoVerifier

\* Only Store writes the pointer, and it writes a verifier.
LEMMA ActiveInvariant == Spec => []ActiveInv
<1> USE ConstantsAssumption
<1>1. Init => ActiveInv
  BY DEF Init, ActiveInv
<1>2. TypeOK /\ ActiveInv /\ [Next]_vars => ActiveInv'
  BY DEF TypeOK, ActiveInv, vars, Next, Activate, Begin, Discover, Store, Arrive,
         Middleware, Load, Open, Lock, Compare, Compile, Remember, Take, Unlock, Serve
<1> QED
  BY <1>1, <1>2, TypeCorrect, PTL DEF Spec

(***************************************************************************)
(* No activation, failed or repeated, opens an active gate, and no request *)
(* that loads the pointer after one is let through unauthenticated         *)
(* (Activate, Middleware).                                                 *)
(***************************************************************************)
THEOREM StaysActiveHolds == Spec => StaysActive
<1> USE ConstantsAssumption
<1> DEFINE Step ==
      /\ verifier # NoVerifier => verifier' # NoVerifier
      /\ \A r \in Reqs : pc[r] = "load" /\ pc'[r] = "open" =>
            \A a \in Acts : act[a] # "done"
<1>1. ASSUME TypeOK, ActiveInv, [Next]_vars PROVE [Step]_vars
  <2> USE DEF TypeOK, ActiveInv, Goto
  <2>1. ASSUME NEW a \in Acts, Activate(a) PROVE Step
    BY <1>1, <2>1 DEF Activate, Begin, Discover, Store
  <2>2. ASSUME NEW r \in Reqs, Load(r) PROVE Step
    BY <1>1, <2>2 DEF Load
  <2>3. ASSUME NEW r \in Reqs, Arrive(r) \/ Open(r) \/ Lock(r) \/ Compare(r) \/ Compile(r)
        PROVE  Step
    BY <1>1, <2>3 DEF Arrive, Open, Lock, Compare, Compile
  <2>4. ASSUME NEW r \in Reqs, Remember(r) \/ Take(r) \/ Unlock(r) \/ Serve(r)
        PROVE  Step
    BY <1>1, <2>4 DEF Remember, Take, Unlock, Serve
  <2> QED
    BY <1>1, <2>1, <2>2, <2>3, <2>4 DEF Next, Middleware
<1> QED
  BY <1>1, TypeCorrect, ActiveInvariant, PTL DEF Spec, StaysActive

------------------------------------------------------------------------------
(***************************************************************************)
(* The refinement, one step per action: Store installs the verifier,       *)
(* Arrive and Load are the arrival and the judgement, Open and Serve the   *)
(* answer; all others leave the abstract state alone.                      *)
(***************************************************************************)
LEMMA RefinementStep ==
  TypeOK /\ GateInv /\ [Next]_vars => [Abstract!GateNext]_(Abstract!gateVars)
<1> USE ConstantsAssumption
<1> SUFFICES ASSUME TypeOK, GateInv, [Next]_vars
             PROVE  [Abstract!GateNext]_(Abstract!gateVars)
  OBVIOUS
<1> USE DEF TypeOK, GateInv, CacheInv, Critical, MaybeVerifier, Goto, request,
            GateVerdict, GateState, GateAnswer, Abstract!gateVars
<1>1. ASSUME NEW a \in Acts, Begin(a) \/ Discover(a) PROVE UNCHANGED Abstract!gateVars
  BY <1>1 DEF Begin, Discover
<1>2. ASSUME NEW a \in Acts, Store(a) PROVE Abstract!Install(a)
  BY <1>2 DEF Store, Abstract!Install
<1>3. ASSUME NEW r \in Reqs, Arrive(r) PROVE Abstract!Arrives(r)
  BY <1>3 DEF Arrive, Abstract!Arrives
<1>4. ASSUME NEW r \in Reqs, Load(r) PROVE Abstract!Judge(r)
  BY <1>4 DEF Load, Abstract!Judge
<1>5. ASSUME NEW r \in Reqs, Open(r) PROVE Abstract!Answer(r)
  BY <1>5 DEF Open, Abstract!Answer
<1>6. ASSUME NEW r \in Reqs, Serve(r) PROVE Abstract!Answer(r)
  BY <1>6 DEF Serve, Abstract!Answer
<1>7. ASSUME NEW r \in Reqs,
             Lock(r) \/ Compare(r) \/ Compile(r) \/ Remember(r) \/ Take(r) \/ Unlock(r)
      PROVE  UNCHANGED Abstract!gateVars
  BY <1>7 DEF Lock, Compare, Compile, Remember, Take, Unlock
<1>8. CASE UNCHANGED vars
  BY <1>8 DEF vars
<1> QED
  BY <1>1, <1>2, <1>3, <1>4, <1>5, <1>6, <1>7, <1>8
  DEF Next, Activate, Middleware, Abstract!GateNext

(***************************************************************************)
(* AuthGate implements Gate: a request is judged once, by the verifier in  *)
(* force when it loads the pointer (Middleware, Activate).                 *)
(***************************************************************************)
THEOREM Refinement == Spec => ImplementsGate
<1>1. Init => Abstract!GateInit
  BY DEF Init, Abstract!GateInit, MaybeVerifier, GateState, GateAnswer
<1> QED
  BY <1>1, TypeCorrect, GateInvariant, RefinementStep, PTL
  DEF Spec, ImplementsGate, Abstract!GateSpec
==============================================================================
