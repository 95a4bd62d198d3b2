------------------------------ MODULE AuthGate -------------------------------
(***************************************************************************)
(* The auth gate (internal/authgate/gate.go): an atomic pointer to the     *)
(* verifier in force, nil before the first activation, and a middleware    *)
(* that keeps one compiled chain together with the pointer it was compiled *)
(* for, both under a mutex.  Requests and activations (the eager one of    *)
(* cmd/app, OnReady of an install) run concurrently.                       *)
(*                                                                         *)
(* A call of Activate makes one verifier, named by the call.               *)
(***************************************************************************)
CONSTANTS
    Reqs,        \* the requests
    Acts,        \* the calls of Activate
    NoVerifier,  \* a nil pointer, a request without a token
    NoReq        \* nobody holds the mutex

ASSUME ConstantsAssumption ==
    /\ NoVerifier \notin Acts
    /\ NoReq \notin Reqs

\* A path that is no Connect procedure, a public procedure, any other one.
Paths == {"static", "public", "private"}

VARIABLES
    verifier,  \* Gate.verifier
    mu,        \* the request that holds the mutex of Middleware, or NoReq
    cachedVP,  \* the pointer the cached chain is thought to be compiled for
    cached,    \* the verifier the cached chain uses
    path,      \* path[r]: what r asks for
    token,     \* token[r]: the verifier that accepts the token of r
    vp,        \* vp[r]: the local variable vp
    chain,     \* chain[r]: the local variable chain
    answer,    \* answer[r]: "none", "pass" or "refuse"
    pc,        \* pc[r]: where r is
    act        \* act[a]: where the activation a is

vars == <<verifier, mu, cachedVP, cached, path, token, vp, chain, answer, pc, act>>

MaybeVerifier == Acts \cup {NoVerifier}

Critical == {"compare", "compile", "remember", "take", "unlock"}

TypeOK ==
    /\ verifier \in MaybeVerifier
    /\ mu \in Reqs \cup {NoReq}
    /\ cachedVP \in MaybeVerifier
    /\ cached \in MaybeVerifier
    /\ path \in [Reqs -> Paths]
    /\ token \in [Reqs -> MaybeVerifier]
    /\ vp \in [Reqs -> MaybeVerifier]
    /\ chain \in [Reqs -> MaybeVerifier]
    /\ answer \in [Reqs -> {"none", "pass", "refuse"}]
    /\ pc \in [Reqs -> {"idle", "load", "open", "lock", "serve", "done"} \cup Critical]
    /\ act \in [Acts -> {"idle", "discover", "store", "failed", "done"}]

Init ==
    /\ verifier = NoVerifier
    /\ mu = NoReq
    /\ cachedVP = NoVerifier
    /\ cached = NoVerifier
    /\ path \in [Reqs -> Paths]
    /\ token \in [Reqs -> MaybeVerifier]
    /\ vp = [r \in Reqs |-> NoVerifier]
    /\ chain = [r \in Reqs |-> NoVerifier]
    /\ answer = [r \in Reqs |-> "none"]
    /\ pc = [r \in Reqs |-> "idle"]
    /\ act = [a \in Acts |-> "idle"]

request == <<path, token>>

Goto(r, step) == pc' = [pc EXCEPT ![r] = step]

\* An inactive gate lets everything through but private procedures.
Inactive(p) == IF p = "private" THEN "refuse" ELSE "pass"

\* The chain runtimeauth.NewMiddleware builds: private procedures need a
\* token that its verifier accepts.
Authenticated(v, p, t) == IF p = "private" /\ t # v THEN "refuse" ELSE "pass"

------------------------------------------------------------------------------
(* Plausible mistakes in the actions below, each caught by a property.       *)

\* A middleware that compiles its chain once.
CompareOnce(r) ==
    /\ pc[r] = "compare"
    /\ Goto(r, IF cachedVP = NoVerifier THEN "compile" ELSE "take")
    /\ UNCHANGED <<verifier, mu, cachedVP, cached, request, vp, chain, answer, act>>

\* A middleware that compares and compiles without its mutex.
LockFree(r) ==
    /\ pc[r] = "lock"
    /\ mu' = r
    /\ Goto(r, "compare")
    /\ UNCHANGED <<verifier, cachedVP, cached, request, vp, chain, answer, act>>

\* Activate that takes the gate back when discovery fails.
DiscoverResets(a) ==
    /\ act[a] = "discover"
    /\ \/ act' = [act EXCEPT ![a] = "store"] /\ verifier' = verifier
       \/ act' = [act EXCEPT ![a] = "failed"] /\ verifier' = NoVerifier
    /\ UNCHANGED <<mu, cachedVP, cached, request, vp, chain, answer, pc>>

\* An unlock that is skipped when the chain was compiled already.
UnlockForgotten(r) ==
    /\ pc[r] = "unlock"
    /\ mu' = IF cachedVP = verifier THEN NoReq ELSE mu
    /\ Goto(r, "serve")
    /\ UNCHANGED <<verifier, cachedVP, cached, request, vp, chain, answer, act>>

\* A chain that dereferences the user of a request without a token.
ServePanics(r) ==
    /\ pc[r] = "serve"
    /\ answer' = [answer EXCEPT ![r] =
                     IF token[r] = NoVerifier THEN "panic"
                     ELSE Authenticated(chain[r], path[r], token[r])]
    /\ Goto(r, "done")
    /\ UNCHANGED <<verifier, mu, cachedVP, cached, request, vp, chain, act>>

------------------------------------------------------------------------------
(* Activate.                                                                 *)

\* Both arguments are checked, then NewJWTVerifier starts OIDC discovery.
Begin(a) ==
    /\ act[a] = "idle"
    /\ \E step \in {"discover", "failed"} : act' = [act EXCEPT ![a] = step]
    /\ UNCHANGED <<verifier, mu, cachedVP, cached, request, vp, chain, answer, pc>>

\* Discovery may fail, and the verifier in force stays.
Discover(a) ==
    /\ act[a] = "discover"
    /\ \E step \in {"store", "failed"} : act' = [act EXCEPT ![a] = step]
    /\ UNCHANGED <<verifier, mu, cachedVP, cached, request, vp, chain, answer, pc>>

Store(a) ==
    /\ act[a] = "store"
    /\ act' = [act EXCEPT ![a] = "done"]
    /\ verifier' = a
    /\ UNCHANGED <<mu, cachedVP, cached, request, vp, chain, answer, pc>>

------------------------------------------------------------------------------
(* Middleware.                                                               *)

Arrive(r) ==
    /\ pc[r] = "idle"
    /\ Goto(r, "load")
    /\ UNCHANGED <<verifier, mu, cachedVP, cached, request, vp, chain, answer, act>>

\* vp := g.verifier.Load()
Load(r) ==
    /\ pc[r] = "load"
    /\ vp' = [vp EXCEPT ![r] = verifier]
    /\ Goto(r, IF verifier = NoVerifier THEN "open" ELSE "lock")
    /\ UNCHANGED <<verifier, mu, cachedVP, cached, request, chain, answer, act>>

\* The pass-through branch with its refusal of private procedures.
Open(r) ==
    /\ pc[r] = "open"
    /\ answer' = [answer EXCEPT ![r] = Inactive(path[r])]
    /\ Goto(r, "done")
    /\ UNCHANGED <<verifier, mu, cachedVP, cached, request, vp, chain, act>>

Lock(r) ==
    /\ pc[r] = "lock"
    /\ mu = NoReq
    /\ mu' = r
    /\ Goto(r, "compare")
    /\ UNCHANGED <<verifier, cachedVP, cached, request, vp, chain, answer, act>>

Compare(r) ==
    /\ pc[r] = "compare"
    /\ Goto(r, IF vp[r] # cachedVP THEN "compile" ELSE "take")
    /\ UNCHANGED <<verifier, mu, cachedVP, cached, request, vp, chain, answer, act>>

\* cached = runtimeauth.NewMiddleware(*vp, g.isPublic)(next)
Compile(r) ==
    /\ pc[r] = "compile"
    /\ cached' = vp[r]
    /\ Goto(r, "remember")
    /\ UNCHANGED <<verifier, mu, cachedVP, request, vp, chain, answer, act>>

Remember(r) ==
    /\ pc[r] = "remember"
    /\ cachedVP' = vp[r]
    /\ Goto(r, "take")
    /\ UNCHANGED <<verifier, mu, cached, request, vp, chain, answer, act>>

Take(r) ==
    /\ pc[r] = "take"
    /\ chain' = [chain EXCEPT ![r] = cached]
    /\ Goto(r, "unlock")
    /\ UNCHANGED <<verifier, mu, cachedVP, cached, request, vp, answer, act>>

Unlock(r) ==
    /\ pc[r] = "unlock"
    /\ mu' = NoReq
    /\ Goto(r, "serve")
    /\ UNCHANGED <<verifier, cachedVP, cached, request, vp, chain, answer, act>>

\* chain.ServeHTTP
Serve(r) ==
    /\ pc[r] = "serve"
    /\ answer' = [answer EXCEPT ![r] = Authenticated(chain[r], path[r], token[r])]
    /\ Goto(r, "done")
    /\ UNCHANGED <<verifier, mu, cachedVP, cached, request, vp, chain, act>>

------------------------------------------------------------------------------
Activate(a) == Begin(a) \/ Discover(a) \/ Store(a)

Middleware(r) ==
    \/ Load(r) \/ Open(r) \/ Lock(r) \/ Compare(r) \/ Compile(r) \/ Remember(r)
    \/ Take(r) \/ Unlock(r) \/ Serve(r)

Next ==
    \/ \E a \in Acts : Activate(a)
    \/ \E r \in Reqs : Arrive(r) \/ Middleware(r)

Spec == Init /\ [][Next]_vars

(***************************************************************************)
(* The goroutine of an arrived request keeps running, and a waiter gets a  *)
(* free mutex: sync.Mutex hands over to a waiter that starves.  Nothing    *)
(* has to arrive and no activation has to begin or to end.                 *)
(***************************************************************************)
Fairness ==
    \A r \in Reqs : WF_vars(Middleware(r)) /\ SF_vars(Lock(r))

FairSpec == Spec /\ Fairness

------------------------------------------------------------------------------
(* Properties.                                                               *)

(***************************************************************************)
(* A request is served by the chain of the very verifier it loaded, though *)
(* requests that loaded older and newer verifiers recompile the one cached *)
(* chain under each other's hands (Middleware, cached and cachedVP).       *)
(***************************************************************************)
ServedByLoaded ==
    \A r \in Reqs : pc[r] \in {"unlock", "serve"} => chain[r] = vp[r]

(***************************************************************************)
(* Once the gate is active it stays active: a failed or repeated           *)
(* activation never opens it, and a private procedure that arrives then is *)
(* answered from an authenticated chain (Activate, Middleware).            *)
(***************************************************************************)
StaysActive ==
    [][/\ verifier # NoVerifier => verifier' # NoVerifier
       /\ \A r \in Reqs :
             pc[r] = "load" /\ pc'[r] = "open" =>
                \A a \in Acts : act[a] # "done"]_vars

(***************************************************************************)
(* Every request is answered: no path through Middleware keeps the mutex.  *)
(***************************************************************************)
EveryRequestAnswered == \A r \in Reqs : pc[r] = "load" ~> answer[r] # "none"

\* The verdict of the gate, active or not.
GateVerdict(v, p, t) ==
    IF v = NoVerifier THEN Inactive(p) ELSE Authenticated(v, p, t)

\* The abstract state of a request at a step of Middleware.
GateState(step) ==
    IF step = "idle" THEN "idle"
    ELSE IF step = "load" THEN "arrived"
    ELSE IF step = "done" THEN "answered"
    ELSE "judged"

\* Its verdict, fixed when it loads the pointer.
GateAnswer(r) ==
    IF pc[r] \in {"idle", "load"} THEN "none"
    ELSE IF pc[r] = "done" THEN answer[r]
    ELSE GateVerdict(vp[r], path[r], token[r])

Abstract ==
    INSTANCE Gate WITH
        Verdict <- GateVerdict,
        state   <- [r \in Reqs |-> GateState(pc[r])],
        verdict <- [r \in Reqs |-> GateAnswer(r)]

(***************************************************************************)
(* The gate implements Gate: each request is judged at one moment, the     *)
(* load of the pointer, by the verifier in force then, and gets that       *)
(* verdict however late it is served (Middleware against the promise of    *)
(* its comment: "from the next request onward the middleware authenticates *)
(* against it").                                                           *)
(***************************************************************************)
ImplementsGate == Abstract!GateSpec
==============================================================================
