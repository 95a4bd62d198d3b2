-------------------------------- MODULE Gate ---------------------------------
(***************************************************************************)
(* What the auth gate promises: a request is judged at one moment between  *)
(* its arrival and its answer, by the verifier that is in force at that    *)
(* moment.  How the gate gets there is the module AuthGate.                *)
(***************************************************************************)
CONSTANTS
    Reqs,        \* the requests
    Acts,        \* the calls of Activate, each of which makes one verifier
    NoVerifier,  \* the gate before its first activation
    Paths,       \* the kinds of path, see AuthGate
    Verdict(_, _, _)  \* Verdict(verifier, path, token): "pass" or "refuse"

VARIABLES
    verifier,  \* the verifier in force
    path,      \* path[r]: what r asks for
    token,     \* token[r]: the verifier whose tokens r carries, or NoVerifier
    state,     \* state[r]: "idle", "arrived", "judged" or "answered"
    verdict    \* verdict[r]: what r was or will be answered

gateVars == <<verifier, path, token, state, verdict>>

GateInit ==
    /\ verifier = NoVerifier
    /\ path \in [Reqs -> Paths]
    /\ token \in [Reqs -> Acts \cup {NoVerifier}]
    /\ state = [r \in Reqs |-> "idle"]
    /\ verdict = [r \in Reqs |-> "none"]

Install(a) ==
    /\ verifier' = a
    /\ UNCHANGED <<path, token, state, verdict>>

Arrives(r) ==
    /\ state[r] = "idle"
    /\ state' = [state EXCEPT ![r] = "arrived"]
    /\ UNCHANGED <<verifier, path, token, verdict>>

Judge(r) ==
    /\ state[r] = "arrived"
    /\ state' = [state EXCEPT ![r] = "judged"]
    /\ verdict' = [verdict EXCEPT ![r] = Verdict(verifier, path[r], token[r])]
    /\ UNCHANGED <<verifier, path, token>>

Answer(r) ==
    /\ state[r] = "judged"
    /\ state' = [state EXCEPT ![r] = "answered"]
    /\ UNCHANGED <<verifier, path, token, verdict>>

GateNext ==
    \/ \E a \in Acts : Install(a)
    \/ \E r \in Reqs : Arrives(r) \/ Judge(r) \/ Answer(r)

GateSpec == GateInit /\ [][GateNext]_gateVars
==============================================================================
