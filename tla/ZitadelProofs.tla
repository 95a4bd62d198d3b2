---------------------------- MODULE ZitadelProofs -----------------------------
(***************************************************************************)
(* Proofs about Zitadel, for any number of calls, tokens and rotations.    *)
(* The watcher's part of a step is a step of PatWatch, so that what is     *)
(* proved there holds here.                                                *)
(***************************************************************************)
EXTENDS Zitadel, PatWatchProofs

\* Every step of the client, of ZITADEL and of the operator is a step of
\* PatWatch or leaves its state alone.
LEMMA WatcherSteps == ZNext \/ UNCHANGED zvars => [Next]_vars
  BY DEF ZNext, zvars, RotatePat, NewHTTPClient, Method, SetUpOrg, AddOrganization,
         AddProject, AddOIDCApp, AddHumanUser, RemoveOrg, RemoveUser, RenameOrg, Send,
         Receive, Timeout, Handle, Revoke, Next

\* Zitadel implements PatWatch: the client and ZITADEL leave the watcher alone,
\* so that what is proved of the watcher holds below the client.
THEOREM ImplementsPatWatch == ZSpec => Spec
<1>1. ZInit => Init
  BY DEF ZInit
<1> QED
  BY <1>1, WatcherSteps, PTL DEF ZSpec, Spec

------------------------------------------------------------------------------
(***************************************************************************)
(* A call is sent with the watcher's token.  Until then it is NoCall,      *)
(* ZITADEL has not heard of it and nothing has its name.                   *)
(***************************************************************************)
ProviderInv == provider \in {"none", "Get"} /\ (provider = "Get" => Serving \/ pc = "closed")

IdleInv == \A c \in Calls : client[c] = "idle" =>
              call[c] = NoCall /\ server[c] = Nothing /\ c \notin things

(***************************************************************************)
(* Organisations, the ids in requests and what exists: a request is in an  *)
(* organisation that is its own or was answered to an earlier call; a      *)
(* removal is about something answered to an earlier call, in the          *)
(* organisation of the request; and what exists is in an organisation that *)
(* exists.                                                                 *)
(***************************************************************************)
TreeInv ==
    /\ \A c \in Calls : call[c].org \in Calls => call[call[c].org].org = call[c].org
    /\ \A c \in Calls : call[c].kind = "remove" =>
          /\ call[c].target = Org => call[c].org = Org
          /\ call[c].target \in Calls =>
                client[call[c].target] = "ok" /\ call[call[c].target].org = call[c].org
    /\ \A c \in things \cap Calls : call[c].org \in things

(***************************************************************************)
(* What an answer on its way, and one that was passed on, says about       *)
(* ZITADEL; a call that was answered has no request on its way any more.   *)
(***************************************************************************)
AnswerInv ==
    \A c \in Calls :
       /\ client[c] = "ok" => server[c] # Request
       /\ server[c] = 200 \/ client[c] = "ok" =>
             IF call[c].kind = "remove" THEN call[c].target \notin things ELSE c \in applied
       /\ call[c].kind = "remove" /\ server[c] = 404 => call[c].target \notin things

(***************************************************************************)
(* A request on its way carries a token, and outside the gap, if somebody  *)
(* waits for it, one that is not revoked.                                  *)
(***************************************************************************)
PatInv ==
    \A c \in Calls :
       /\ client[c] # "no_pat"
       /\ server[c] = Request => pat[c] \in Pats
       /\ server[c] = Request /\ client[c] = "waiting" /\ c \notin gap =>
             tokens[pat[c]] # "revoked"
       /\ server[c] = 401 => c \in gap

------------------------------------------------------------------------------
(* What the methods of the client and the handling by ZITADEL have in        *)
(* common.                                                                   *)

\* A method sends a request in an organisation of its own or a known one,
\* and a removal names something known in that organisation.
Sent(c, kind, org, target, refused) ==
    /\ Send(c, kind, org, target, refused)
    /\ kind \in {"create", "remove", "rename"}
    /\ org \in Ids /\ target \in Ids /\ refused \in BOOLEAN
    /\ org \in Calls => org = c \/ call[org].org = org
    /\ kind = "remove" =>
          /\ target = Org => org = Org
          /\ target \in Calls => client[target] = "ok" /\ call[target].org = org

\* Each of the eight methods is such a send.
LEMMA MethodSends ==
  ASSUME NEW c \in Calls, Method(c)
  PROVE  \E kind, org, target, refused : Sent(c, kind, org, target, refused)
<1> USE CallsAssumption DEF Ids, Known, Orgs
<1>1. CASE SetUpOrg(c) \/ AddOrganization(c)
  <2>1. Send(c, "create", c, c, FALSE)
    BY <1>1 DEF SetUpOrg, AddOrganization
  <2>2. Sent(c, "create", c, c, FALSE)
    BY <2>1 DEF Sent
  <2> QED
    BY <2>2
<1>2. CASE AddProject(c)
  <2>1. PICK o \in Orgs : Send(c, "create", o, o, FALSE)
    BY <1>2 DEF AddProject
  <2>2. Sent(c, "create", o, o, FALSE)
    BY <2>1 DEF Sent
  <2> QED
    BY <2>2
<1>3. CASE AddOIDCApp(c)
  <2>1. PICK o \in Orgs, p \in Known \ Orgs : Send(c, "create", o, p, FALSE)
    BY <1>3 DEF AddOIDCApp
  <2>2. Sent(c, "create", o, p, FALSE)
    BY <2>1 DEF Sent
  <2> QED
    BY <2>2
<1>4. CASE AddHumanUser(c)
  <2>1. PICK o \in Orgs \cup {None} : Send(c, "create", o, o, o = None)
    BY <1>4 DEF AddHumanUser
  <2>2. Sent(c, "create", o, o, o = None)
    BY <2>1 DEF Sent
  <2> QED
    BY <2>2
<1>5. CASE RemoveOrg(c)
  <2>1. PICK o \in Orgs \cup {None} : Send(c, "remove", o, o, o = None)
    BY <1>5 DEF RemoveOrg
  <2>2. Sent(c, "remove", o, o, o = None)
    BY <2>1 DEF Sent
  <2> QED
    BY <2>2
<1>6. CASE RemoveUser(c)
  <2>1. PICK o \in Orgs \cup {None} :
          \E u \in {u \in Known \ Orgs : call[u].org = o} \cup {None} :
             Send(c, "remove", o, u, o = None \/ u = None)
    BY <1>6 DEF RemoveUser
  <2>2. PICK u \in {u \in Known \ Orgs : call[u].org = o} \cup {None} :
          Send(c, "remove", o, u, o = None \/ u = None)
    BY <2>1
  <2>3. Sent(c, "remove", o, u, o = None \/ u = None)
    BY <2>1, <2>2 DEF Sent
  <2> QED
    BY <2>3
<1>7. CASE RenameOrg(c)
  <2>1. PICK o \in Orgs \cup {None}, name \in {"", "name"} :
          Send(c, "rename", o, o, o = None \/ name = "")
    BY <1>7 DEF RenameOrg
  <2>2. Sent(c, "rename", o, o, o = None \/ name = "")
    BY <2>1 DEF Sent
  <2> QED
    BY <2>2
<1> QED
  BY <1>1, <1>2, <1>3, <1>4, <1>5, <1>6, <1>7 DEF Method

\* ZITADEL answers with one status: 200 after the effect, 404 when something
\* the request is about is missing, 401 for a revoked token.
There(c) == call[c].org = c \/ {call[c].org, call[c].target} \subseteq things

Handled(c, status, effect) ==
    /\ server[c] = Request
    /\ Answer(c, status, effect)
    /\ status \in {200, 401, 404, 500} /\ effect \in BOOLEAN
    /\ effect => There(c)
    /\ status = 200 => effect
    /\ status = 404 => ~There(c) /\ ~effect
    /\ status = 401 => tokens[pat[c]] = "revoked"
    /\ UNCHANGED <<vars, provider, call, client, tokens, gap>>

\* Whatever ZITADEL does with a request is such an answer.
LEMMA HandleAnswers ==
  ASSUME NEW c \in Calls, Handle(c)
  PROVE  \E status, effect : Handled(c, status, effect)
<1>1. 200 # 401 /\ 200 # 404 /\ 200 # 500 /\ 404 # 401 /\ 404 # 500 /\ 401 # 500
  OBVIOUS
<1>2. CASE Answer(c, 401, FALSE) /\ tokens[pat[c]] = "revoked"
  <2>1. Handled(c, 401, FALSE)
    BY <1>1, <1>2, Zenon DEF Handle, Handled
  <2> QED
    BY <2>1, Zenon
<1>3. CASE \E effect \in BOOLEAN : (effect => There(c)) /\ Answer(c, 500, effect)
  <2>1. PICK effect \in BOOLEAN : (effect => There(c)) /\ Answer(c, 500, effect)
    BY <1>3
  <2>2. Handled(c, 500, effect)
    BY <1>1, <2>1, Zenon DEF Handle, Handled
  <2> QED
    BY <2>2
<1>4. CASE There(c) /\ Answer(c, 200, TRUE)
  <2>1. Handled(c, 200, TRUE)
    BY <1>1, <1>4, Zenon DEF Handle, Handled
  <2> QED
    BY <2>1, Zenon
<1>5. CASE ~There(c) /\ Answer(c, 404, FALSE)
  <2>1. Handled(c, 404, FALSE)
    BY <1>1, <1>5, Zenon DEF Handle, Handled
  <2> QED
    BY <2>1, Zenon
<1> QED
  BY <1>2, <1>3, <1>4, <1>5, Zenon DEF Handle, There

\* What an answer does to ZITADEL.
LEMMA AnswerEffect ==
  ASSUME NEW c \in Calls, NEW status, NEW effect, Answer(c, status, effect),
         call[c].kind \in {"create", "remove", "rename"}
  PROVE  /\ things' = things \/ (effect /\ things' = things \cup {c})
            \/ (effect /\ things' = things \ Gone(call[c].target))
         /\ effect /\ call[c].kind = "remove" => things' = things \ Gone(call[c].target)
         /\ things' = things \cup {c} /\ things' # things => effect /\ call[c].kind = "create"
         /\ applied \subseteq applied' /\ applied' \subseteq applied \cup {c}
         /\ (effect => c \in applied')
         /\ server' = [server EXCEPT ![c] = IF client[c] = "waiting" THEN status ELSE Nothing]
         /\ pat' = [pat EXCEPT ![c] = NoPat]
  BY DEF Answer

------------------------------------------------------------------------------
\* The client, ZITADEL and the operator keep the types.
LEMMA ZTypeStep ==
  TypeOK /\ ZTypeOK /\ ProviderInv /\ [ZNext]_zvars => ZTypeOK' /\ ProviderInv'
<1> USE ConstantsAssumption, CallsAssumption
<1> SUFFICES ASSUME TypeOK, ZTypeOK, ProviderInv, [ZNext]_zvars
             PROVE  ZTypeOK' /\ ProviderInv'
  OBVIOUS
<1>1. CASE RotatePat
  <2>1. UNCHANGED watcher
    BY <1>1, OperatorStep DEF RotatePat
  <2> QED
    BY <1>1, <2>1 DEF RotatePat, ZTypeOK, ProviderInv, Serving, watcher
<1>2. CASE (Watcher \/ Close) /\ UNCHANGED remote
  BY <1>2 DEF remote, ZTypeOK, ProviderInv, Serving, Watcher, Close, ReadInitial, AddWatch,
              Loop, Reload, Store
<1>3. CASE NewHTTPClient
  BY <1>3 DEF NewHTTPClient, ZTypeOK, ProviderInv, Serving, vars
<1>4. ASSUME NEW c \in Calls, Method(c) PROVE ZTypeOK' /\ ProviderInv'
  <2>1. PICK kind, org, target, refused : Sent(c, kind, org, target, refused)
    BY <1>4, MethodSends
  <2>2. Get \in Pats \cup {NoPat} /\ UNCHANGED <<vars, provider, things, applied, tokens>>
    BY <2>1 DEF Sent, Send, Get, ProviderInv, TypeOK
  <2>3. [kind |-> kind, org |-> org, target |-> target] \in Requests
    BY <2>1, <2>2 DEF Sent, Requests
  <2>4. call' \in [Calls -> Requests]
    BY <2>1, <2>3 DEF Sent, Send, ZTypeOK
  <2>5. client' \in [Calls -> {"idle", "waiting", "ok", "error", "no_pat"}]
    BY <2>1 DEF Sent, Send, ZTypeOK
  <2>6. server' \in [Calls -> {Nothing, Request, 200, 401, 404, 500}]
    BY <2>1 DEF Sent, Send, ZTypeOK
  <2>7. gap' \subseteq Calls /\ pat' \in [Calls -> Pats \cup {NoPat}]
    BY <2>1, <2>2 DEF Sent, Send, ZTypeOK
  <2> QED
    BY <2>2, <2>4, <2>5, <2>6, <2>7 DEF ZTypeOK, ProviderInv, Serving, vars
<1>5. ASSUME NEW c \in Calls, Receive(c) \/ Timeout(c)
      PROVE  ZTypeOK' /\ ProviderInv'
  BY <1>5 DEF Receive, Timeout, ZTypeOK, ProviderInv, Serving, vars
<1>6. ASSUME NEW c \in Calls, Handle(c) PROVE ZTypeOK' /\ ProviderInv'
  <2>1. PICK status, effect : Handled(c, status, effect)
    BY <1>6, HandleAnswers
  <2>2. call[c].kind \in {"create", "remove", "rename"}
    BY DEF ZTypeOK, Requests
  <2>3. things' \subseteq Calls \cup {Org} /\ applied' \subseteq Calls
    BY <2>1, <2>2, AnswerEffect DEF Handled, ZTypeOK
  <2> QED
    BY <2>1, <2>2, <2>3, AnswerEffect DEF Handled, ZTypeOK, ProviderInv, Serving, vars
<1>7. ASSUME NEW p \in Pats, Revoke(p) PROVE ZTypeOK' /\ ProviderInv'
  BY <1>7 DEF Revoke, ZTypeOK, ProviderInv, Serving, vars
<1>8. CASE UNCHANGED zvars
  BY <1>8 DEF zvars, remote, vars, ZTypeOK, ProviderInv, Serving
<1> QED
  BY <1>1, <1>2, <1>3, <1>4, <1>5, <1>6, <1>7, <1>8 DEF ZNext

\* What the remaining proofs of this module start from.
LEMMA ZTypeInvariant == ZSpec => [](TypeOK /\ ZTypeOK /\ ProviderInv)
<1>1. ZInit => ZTypeOK /\ ProviderInv
  <2>1. NoCall \in Requests
    BY DEF NoCall, Requests, Ids
  <2> QED
    BY <2>1, CallsAssumption DEF ZInit, ZTypeOK, ProviderInv
<1> QED
  BY <1>1, ImplementsPatWatch, TypeCorrect, ZTypeStep, PTL DEF ZSpec

\* The calls, ZITADEL and the tokens are well typed.
THEOREM ZTypeCorrect == ZSpec => []ZTypeOK
  BY ZTypeInvariant, PTL
------------------------------------------------------------------------------
(***************************************************************************)
(* That an answer is true rests on the idle calls being unknown to         *)
(* ZITADEL, on the tree of organisations, and on the answers on their way. *)
(***************************************************************************)
CallInv == IdleInv /\ TreeInv /\ AnswerInv

\* Sending, carrying out, answering, losing and giving up keep the answers true.
LEMMA CallStep == ZTypeOK /\ CallInv /\ [ZNext]_zvars => CallInv'
<1> USE CallsAssumption
<1> SUFFICES ASSUME ZTypeOK, CallInv, [ZNext]_zvars PROVE CallInv'
  OBVIOUS
<1>1. CASE UNCHANGED <<call, client, server, things, applied>>
  BY <1>1 DEF CallInv, IdleInv, TreeInv, AnswerInv
<1>2. ASSUME NEW c \in Calls, Method(c) PROVE CallInv'
  <2>1. PICK kind, org, target, refused : Sent(c, kind, org, target, refused)
    BY <1>2, MethodSends
  <2>2. /\ client[c] = "idle" /\ call[c] = NoCall /\ server[c] = Nothing /\ c \notin things
        /\ UNCHANGED <<things, applied>>
        /\ client'[c] \in {"error", "waiting", "no_pat"}
        /\ server'[c] \in {Nothing, Request}
        /\ \/ call'[c] = NoCall
           \/ call'[c].kind = kind /\ call'[c].org = org /\ call'[c].target = target
    BY <2>1 DEF Sent, Send, CallInv, IdleInv, ZTypeOK
  <2>3. \A d \in Calls \ {c} :
           client'[d] = client[d] /\ call'[d] = call[d] /\ server'[d] = server[d]
    BY <2>1 DEF Sent, Send, ZTypeOK
  <2>4. NoCall.org = None /\ NoCall.kind = "create"
    BY DEF NoCall
  <2>5. IdleInv'
    BY <2>2, <2>3 DEF CallInv, IdleInv
  <2>6. TreeInv'
    <3>1. ASSUME NEW d \in Calls, call'[d].org \in Calls
          PROVE  call'[call'[d].org].org = call'[d].org
      BY <2>1, <2>2, <2>3, <2>4, <3>1 DEF Sent, CallInv, TreeInv
    <3>2. ASSUME NEW d \in Calls, call'[d].kind = "remove"
          PROVE  /\ call'[d].target = Org => call'[d].org = Org
                 /\ call'[d].target \in Calls =>
                      /\ client'[call'[d].target] = "ok"
                      /\ call'[call'[d].target].org = call'[d].org
      BY <2>1, <2>2, <2>3, <2>4, <3>2 DEF Sent, CallInv, TreeInv
    <3>3. ASSUME NEW d \in things' \cap Calls PROVE call'[d].org \in things'
      BY <2>2, <2>3 DEF CallInv, TreeInv
    <3> QED
      BY <3>1, <3>2, <3>3 DEF TreeInv
  <2>7. AnswerInv'
    BY <2>2, <2>3 DEF CallInv, AnswerInv, Nothing, Request
  <2> QED
    BY <2>5, <2>6, <2>7 DEF CallInv
<1>3. ASSUME NEW c \in Calls, Receive(c) PROVE CallInv'
  <2>1. /\ client[c] = "waiting" /\ client'[c] \in {"ok", "error"}
        /\ server'[c] = Nothing
        /\ \A d \in Calls \ {c} : client'[d] = client[d] /\ server'[d] = server[d]
        /\ UNCHANGED <<call, things, applied>>
    BY <1>3 DEF Receive, ZTypeOK
  <2>2. client'[c] = "ok" =>
          /\ server[c] # Request
          /\ server[c] = 200 \/ (call[c].kind = "remove" /\ server[c] = 404)
    BY <1>3 DEF Receive, ZTypeOK, posted, removed, renamed, Nothing, Request
  <2>3. IdleInv' /\ TreeInv'
    BY <2>1 DEF CallInv, IdleInv, TreeInv
  <2>4. AnswerInv'
    BY <2>1, <2>2 DEF CallInv, AnswerInv, Nothing, Request
  <2> QED
    BY <2>3, <2>4 DEF CallInv
<1>4. ASSUME NEW c \in Calls, Timeout(c) PROVE CallInv'
  BY <1>4 DEF Timeout, ZTypeOK, CallInv, IdleInv, TreeInv, AnswerInv, Nothing, Request
<1>5. ASSUME NEW c \in Calls, Handle(c) PROVE CallInv'
  <2>1. PICK status, effect : Handled(c, status, effect)
    BY <1>5, HandleAnswers
  <2>2. /\ call[c].kind \in {"create", "remove", "rename"}
        /\ call[c].org \in Ids /\ call[c].target \in Ids /\ None \notin things
    BY DEF ZTypeOK, Requests
  <2>3. /\ things' = things \/ (effect /\ things' = things \cup {c})
            \/ (effect /\ things' = things \ Gone(call[c].target))
        /\ effect /\ call[c].kind = "remove" => things' = things \ Gone(call[c].target)
        /\ things' = things \cup {c} /\ things' # things => effect /\ call[c].kind = "create"
        /\ applied \subseteq applied' /\ (effect => c \in applied')
        /\ server' = [server EXCEPT ![c] = IF client[c] = "waiting" THEN status ELSE Nothing]
    BY <2>1, <2>2, AnswerEffect DEF Handled
  <2>4. /\ server[c] = Request /\ client[c] # "idle" /\ client[c] # "ok"
        /\ UNCHANGED <<call, client>>
        /\ \A d \in Calls \ {c} : server'[d] = server[d]
        /\ server'[c] \in {status, Nothing}
    BY <2>1, <2>3 DEF Handled, CallInv, IdleInv, AnswerInv, Nothing, Request, ZTypeOK
  <2>5. IdleInv'
    BY <2>3, <2>4 DEF CallInv, IdleInv
  <2>6. TreeInv'
    <3>1. ASSUME NEW d \in things' \cap Calls PROVE call[d].org \in things'
      <4>1. CASE things' = things
        BY <4>1 DEF CallInv, TreeInv
      <4>2. CASE effect /\ things' = things \cup {c}
        BY <2>1, <4>2 DEF CallInv, TreeInv, Handled, There
      <4>3. CASE things' = things \ Gone(call[c].target)
        <5>1. d \in things /\ call[d].org \in things /\ call[d].org # call[c].target
          BY <3>1, <4>3 DEF CallInv, TreeInv, Gone
        <5>2. call[d].org \in Calls => call[call[d].org].org = call[d].org
          BY <3>1 DEF CallInv, TreeInv
        <5> QED
          BY <4>3, <5>1, <5>2 DEF Gone
      <4> QED
        BY <2>3, <4>1, <4>2, <4>3
    <3> QED
      BY <2>4, <3>1 DEF CallInv, TreeInv
  <2>7. AnswerInv'
    <3>1. ASSUME NEW d \in Calls, call[d].kind = "remove", call[d].target \notin things,
                 client[d] = "ok" \/ server[d] \in {200, 404}
          PROVE  call[d].target \notin things'
      <4>1. call[d].target # c
        BY <2>4, <3>1 DEF CallInv, TreeInv
      <4> QED
        BY <2>3, <3>1, <4>1
    <3>2. ASSUME call[c].kind = "remove", status \in {200, 404}
          PROVE  call[c].target \notin things'
      <4>1. CASE status = 200
        BY <2>1, <2>3, <3>2, <4>1 DEF Handled, Gone
      <4>2. CASE status = 404
        <5>1. call[c].org \notin things \/ call[c].target \notin things
          BY <2>1, <4>2 DEF Handled, There
        <5>2. call[c].target \notin things
          BY <2>2, <3>2, <5>1 DEF CallInv, TreeInv, Ids
        <5>3. things' = things
          BY <2>1, <2>3, <4>2 DEF Handled
        <5> QED
          BY <5>2, <5>3
      <4> QED
        BY <3>2, <4>1, <4>2
    <3>3. ASSUME NEW d \in Calls, d # c
          PROVE  /\ client'[d] = "ok" => server'[d] # Request
                 /\ server'[d] = 200 \/ client'[d] = "ok" =>
                      IF call'[d].kind = "remove" THEN call'[d].target \notin things'
                      ELSE d \in applied'
                 /\ call'[d].kind = "remove" /\ server'[d] = 404 => call'[d].target \notin things'
      BY <2>3, <2>4, <3>1, <3>3 DEF CallInv, AnswerInv
    <3>4. /\ client'[c] = "ok" => server'[c] # Request
          /\ server'[c] = 200 \/ client'[c] = "ok" =>
                IF call'[c].kind = "remove" THEN call'[c].target \notin things'
                ELSE c \in applied'
          /\ call'[c].kind = "remove" /\ server'[c] = 404 => call'[c].target \notin things'
      BY <2>1, <2>3, <2>4, <3>2 DEF Handled, Nothing, Request
    <3> QED
      BY <3>3, <3>4 DEF AnswerInv
  <2> QED
    BY <2>5, <2>6, <2>7 DEF CallInv
<1> QED
  BY <1>1, <1>2, <1>3, <1>4, <1>5
  DEF ZNext, zvars, remote, RotatePat, NewHTTPClient, Revoke

\* An answer the client passes on is true and stays true, for any number of
\* calls into the same organisations, carried out at any time.
THEOREM AnswerIsTrueHolds == ZSpec => []AnswerIsTrue
<1>1. ZInit => CallInv
  BY CallsAssumption
  DEF ZInit, CallInv, IdleInv, TreeInv, AnswerInv, NoCall, Nothing, Request
<1>2. CallInv => AnswerIsTrue
  BY DEF CallInv, AnswerInv, TreeInv, AnswerIsTrue, Gone
<1> QED
  BY <1>1, <1>2, ZTypeInvariant, CallStep, PTL DEF ZSpec
------------------------------------------------------------------------------
(***************************************************************************)
(* The delicate step is the sending of a call: the token in memory is the  *)
(* file's, and so accepted, whenever the watcher has caught up, which is   *)
(* UpToDate of PatWatch.  A revocation moves the requests on their way     *)
(* with that token into the gap.                                           *)
(***************************************************************************)
LEMMA PatStep ==
  ASSUME TypeOK, ZTypeOK, ProviderInv, NeverBlank, UpToDate, PatInv, [ZNext]_zvars
  PROVE  PatInv'
<1> USE ConstantsAssumption, CallsAssumption
<1>1. CASE RotatePat
  <2>1. UNCHANGED <<pat, client, server, gap>>
    BY <1>1 DEF RotatePat
  <2>2. \A p \in Pats : tokens'[p] = "revoked" => tokens[p] = "revoked"
    BY <1>1 DEF RotatePat
  <2> QED
    BY <2>1, <2>2 DEF PatInv
<1>2. CASE UNCHANGED <<pat, client, server, tokens, gap>>
  BY <1>2 DEF PatInv
<1>3. ASSUME NEW c \in Calls, Method(c) PROVE PatInv'
  <2>1. PICK kind, org, target, refused : Sent(c, kind, org, target, refused)
    BY <1>3, MethodSends
  <2>2. Get = current /\ current \in Pats /\ current # NoPat
    BY <2>1 DEF Sent, Send, Get, ProviderInv, NeverBlank
  <2>3. InSync => tokens[current] # "revoked"
    BY DEF InSync, UpToDate
  <2>4. \A d \in Calls \ {c} :
           client'[d] = client[d] /\ pat'[d] = pat[d] /\ server'[d] = server[d]
    BY <2>1 DEF Sent, Send, ZTypeOK
  <2>5. \/ /\ client'[c] = "waiting" /\ server'[c] = Request /\ pat'[c] = current
           /\ gap' = IF InSync THEN gap ELSE gap \cup {c}
        \/ client'[c] = "error" /\ UNCHANGED <<pat, server, gap>>
    BY <2>1, <2>2 DEF Sent, Send, ZTypeOK
  <2>6. UNCHANGED tokens
    BY <2>1 DEF Sent, Send
  <2> QED
    BY <2>2, <2>3, <2>4, <2>5, <2>6 DEF PatInv, Request
<1>4. ASSUME NEW c \in Calls, Receive(c) \/ Timeout(c) PROVE PatInv'
  <2>1. client' = [client EXCEPT ![c] = client'[c]] /\ client'[c] \in {"ok", "error"}
    BY <1>4 DEF Receive, Timeout, ZTypeOK
  <2>2. \/ server' = [server EXCEPT ![c] = Nothing]
        \/ server' = [server EXCEPT ![c] = IF @ = Request THEN Request ELSE Nothing]
    BY <1>4 DEF Receive, Timeout
  <2>3. /\ server'[c] = Nothing \/ (server'[c] = Request /\ server[c] = Request)
        /\ \A d \in Calls \ {c} : server'[d] = server[d]
    BY <2>2 DEF ZTypeOK
  <2>4. gap' = gap \ {c} /\ UNCHANGED <<pat, tokens>>
    BY <1>4 DEF Receive, Timeout
  <2> QED
    BY <2>1, <2>3, <2>4 DEF PatInv, ZTypeOK, Nothing, Request
<1>5. ASSUME NEW c \in Calls, Handle(c) PROVE PatInv'
  <2>1. PICK status, effect : Handled(c, status, effect)
    BY <1>5, HandleAnswers
  <2>2. /\ server[c] = Request /\ status # Request
        /\ server'[c] = IF client[c] = "waiting" THEN status ELSE Nothing
        /\ status = 401 => tokens[pat[c]] = "revoked"
        /\ \A d \in Calls \ {c} : server'[d] = server[d] /\ pat'[d] = pat[d]
        /\ UNCHANGED <<tokens, client, gap>>
    BY <2>1 DEF Handled, Answer, ZTypeOK, Request
  <2> QED
    BY <2>2 DEF PatInv, Nothing, Request
<1>6. ASSUME NEW p \in Pats, Revoke(p) PROVE PatInv'
  BY <1>6 DEF Revoke, PatInv, ZTypeOK
<1> QED
  BY <1>1, <1>2, <1>3, <1>4, <1>5, <1>6 DEF ZNext, zvars, remote, NewHTTPClient

\* For any number of calls and tokens, revoked at any time, a call is refused
\* for its token only in the gap of a rotation, and never lacks one.
THEOREM RefusedOnlyInTheGapHolds == ZSpec => []RefusedOnlyInTheGap
<1>1. ZInit => PatInv
  BY DEF ZInit, PatInv, Nothing, Request
<1>2. PatInv => RefusedOnlyInTheGap
  BY DEF PatInv, RefusedOnlyInTheGap
<1> QED
  BY <1>1, <1>2, ZTypeInvariant, ImplementsPatWatch, NeverBlankHolds, UpToDateHolds, PatStep,
     PTL DEF ZSpec
==============================================================================
