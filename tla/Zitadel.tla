------------------------------ MODULE Zitadel --------------------------------
(***************************************************************************)
(* The ZITADEL client (internal/zitadel/client.go) on top of the PAT       *)
(* watcher it takes its token from, and the ZITADEL server it talks to.    *)
(* A call reads the PAT, sends one HTTP request and waits up to 30 s; the  *)
(* request may be lost, answered late, or carried out after the client has *)
(* given up.  Several calls are under way while the PAT is rotated.        *)
(*                                                                         *)
(* A thing in ZITADEL (organisation, project, app, user) has the name of   *)
(* the call that created it.  Names, addresses and passwords are left out. *)
(* What a call can come to here, done and answered, not done, or done      *)
(* although the caller was told of an error, is what Outcomes stands for   *)
(* in Install, Team and Companies.                                         *)
(***************************************************************************)
EXTENDS PatWatch

CONSTANTS
    Calls,  \* the calls
    Org,    \* an organisation that is there from the start
    None    \* the empty id

ASSUME CallsAssumption == Org \notin Calls /\ None \notin Calls \cup {Org}

VARIABLES
    provider,  \* HTTPClient.patProvider: "none" until NewHTTPClient, then "Get"
    call,      \* call[c]: what call c asks for
    pat,       \* pat[c]: the PAT that the request on its way carries, or NoPat
    client,    \* client[c]: where the caller is
    server,    \* server[c]: the request on its way, or the answer to it
    things,    \* what exists in ZITADEL
    applied,   \* history: calls that ZITADEL carried out
    tokens,    \* tokens[p]: "new", "used" or "revoked"
    gap        \* history: the waiting calls that were sent while the watcher was
               \* behind, or whose PAT was revoked with the request on its way

remote == <<provider, call, pat, client, server, things, applied, tokens, gap>>

zvars == <<vars, remote>>

\* What server[c] is besides an HTTP status; 500 stands for every error that
\* is not 401 or 404.
Nothing == 0
Request == 1

Ids == Calls \cup {Org, None}

\* org is the organisation of the request, target the thing it is about.
Requests == [kind : {"create", "remove", "rename"}, org : Ids, target : Ids]
NoCall   == [kind |-> "create", org |-> None, target |-> None]

ZTypeOK ==
    /\ provider \in Pats \cup {"none", "Get"}
    /\ call \in [Calls -> Requests]
    /\ pat \in [Calls -> Pats \cup {NoPat}]
    /\ client \in [Calls -> {"idle", "waiting", "ok", "error", "no_pat"}]
    /\ server \in [Calls -> {Nothing, Request, 200, 401, 404, 500}]
    /\ things \subseteq Calls \cup {Org}
    /\ applied \subseteq Calls
    /\ tokens \in [Pats -> {"new", "used", "revoked"}]
    /\ gap \subseteq Calls

ZInit ==
    /\ Init
    /\ provider = "none"
    /\ call = [c \in Calls |-> NoCall]
    /\ pat = [c \in Calls |-> NoPat]
    /\ client = [c \in Calls |-> "idle"]
    /\ server = [c \in Calls |-> Nothing]
    /\ things = {Org}
    /\ applied = {}
    /\ tokens = [p \in Pats |-> IF p = file THEN "used" ELSE "new"]
    /\ gap = {}

\* Watcher.Get, behind the function value main hands to the client.
Get == IF provider = "Get" THEN current ELSE provider

\* The ids a caller can have: the MSP's, and those answered to earlier calls.
Known == {Org} \cup {c \in Calls : client[c] = "ok" /\ call[c].kind = "create"}
Orgs  == Known \cap ({Org} \cup {c \in Calls : call[c].org = c})

------------------------------------------------------------------------------
(* Plausible mistakes, each caught by a property.                            *)

\* NewHTTPClient that takes the PAT instead of the function.
NewHTTPClientBound ==
    /\ Serving /\ provider = "none"
    /\ provider' = current
    /\ UNCHANGED <<vars, call, pat, client, server, things, applied, tokens, gap>>

\* Every 4xx taken for "already gone".
removedAny4xx(status) == status < 500

\* A response passed on with its body unread.
ReceiveUnread(c) ==
    /\ client[c] = "waiting"
    /\ server[c] \notin {Nothing, Request}
    /\ client' = [client EXCEPT ![c] = "unread"]
    /\ UNCHANGED <<vars, provider, call, pat, server, things, applied, tokens, gap>>

------------------------------------------------------------------------------
(* The client.                                                               *)

\* main: the watcher's Get is what the client is made with.
NewHTTPClient ==
    /\ Serving /\ provider = "none"
    /\ provider' = "Get"
    /\ UNCHANGED <<vars, call, pat, client, server, things, applied, tokens, gap>>

\* The file holds a PAT that ZITADEL accepts, and the watcher has seen it.
InSync == CaughtUp /\ file # NoPat /\ tokens[file] # "revoked"

\* The start of every method: a missing id is refused, then a missing PAT,
\* both before anything is sent.
Send(c, kind, org, target, refused) ==
    /\ provider # "none" /\ client[c] = "idle"
    /\ \/ /\ ~refused /\ Get # NoPat
          /\ call' = [call EXCEPT ![c] = [kind |-> kind, org |-> org, target |-> target]]
          /\ pat' = [pat EXCEPT ![c] = Get]
          /\ client' = [client EXCEPT ![c] = "waiting"]
          /\ server' = [server EXCEPT ![c] = Request]
          /\ gap' = IF InSync THEN gap ELSE gap \cup {c}
       \/ /\ refused \/ Get = NoPat
          /\ client' = [client EXCEPT ![c] = IF refused THEN "error" ELSE "no_pat"]
          /\ UNCHANGED <<call, pat, server, gap>>
    /\ UNCHANGED <<vars, provider, things, applied, tokens>>

\* The admin API: a new organisation, with and without its first admin.
SetUpOrg(c)        == Send(c, "create", c, c, FALSE)
AddOrganization(c) == Send(c, "create", c, c, FALSE)

\* The management API, in the organisation of the x-zitadel-orgid header.
AddProject(c)  == \E o \in Orgs : Send(c, "create", o, o, FALSE)
AddOIDCApp(c)  == \E o \in Orgs, p \in Known \ Orgs :
                     call[p].org = o /\ Send(c, "create", o, p, FALSE)
AddHumanUser(c) == \E o \in Orgs \cup {None} : Send(c, "create", o, o, o = None)

RemoveOrg(c)  == \E o \in Orgs \cup {None} : Send(c, "remove", o, o, o = None)
RemoveUser(c) == \E o \in Orgs \cup {None} :
                    \E u \in {u \in Known \ Orgs : call[u].org = o} \cup {None} :
                       Send(c, "remove", o, u, o = None \/ u = None)
RenameOrg(c)  == \E o \in Orgs \cup {None}, name \in {"", "name"} :
                    Send(c, "rename", o, o, o = None \/ name = "")

\* What each kind of call makes of the status: post also decodes the body,
\* and a removal takes 404 for success.
posted(status, decoded) == status < 400 /\ decoded
removed(status)         == status = 404 \/ status < 400
renamed(status)         == status < 400

Receive(c) ==
    /\ client[c] = "waiting"
    /\ server[c] \notin {Nothing, Request}
    /\ \E decoded \in BOOLEAN :
          client' = [client EXCEPT ![c] =
             IF \/ call[c].kind = "create" /\ posted(server[c], decoded)
                \/ call[c].kind = "remove" /\ removed(server[c])
                \/ call[c].kind = "rename" /\ renamed(server[c])
             THEN "ok" ELSE "error"]
    /\ server' = [server EXCEPT ![c] = Nothing]
    /\ gap' = gap \ {c}
    /\ UNCHANGED <<vars, provider, call, pat, things, applied, tokens>>

\* http.Do fails: the connection breaks, the context ends or 30 s pass.  A
\* request that is lost is never handled, a lost answer is never received.
Timeout(c) ==
    /\ client[c] = "waiting"
    /\ client' = [client EXCEPT ![c] = "error"]
    /\ server' = [server EXCEPT ![c] = IF @ = Request THEN Request ELSE Nothing]
    /\ gap' = gap \ {c}
    /\ UNCHANGED <<vars, provider, call, pat, things, applied, tokens>>

------------------------------------------------------------------------------
(* ZITADEL, and the operator who rotates its PATs.                           *)

\* Removing an organisation removes what is in it.
Gone(t) == {t} \cup {c \in Calls : call[c].org = t}

\* The answer to request c, if somebody waits for it, and its effect when it
\* has one.
Answer(c, status, effect) ==
    /\ server' = [server EXCEPT ![c] = IF client[c] = "waiting" THEN status ELSE Nothing]
    /\ pat' = [pat EXCEPT ![c] = NoPat]
    /\ things' = CASE effect /\ call[c].kind = "create" -> things \cup {c}
                   [] effect /\ call[c].kind = "remove" -> things \ Gone(call[c].target)
                   [] OTHER                             -> things
    /\ applied' = IF effect THEN applied \cup {c} ELSE applied

\* ZITADEL handles a request, also when nobody waits for it any more.
Handle(c) ==
    LET there == call[c].org = c \/ {call[c].org, call[c].target} \subseteq things IN
    /\ server[c] = Request
    /\ \/ /\ tokens[pat[c]] = "revoked"
          /\ Answer(c, 401, FALSE)
       \/ /\ tokens[pat[c]] # "revoked"
          /\ \/ \E effect \in BOOLEAN : (effect => there) /\ Answer(c, 500, effect)
             \/ there /\ Answer(c, 200, TRUE)
             \/ ~there /\ Answer(c, 404, FALSE)
    /\ UNCHANGED <<vars, provider, call, client, tokens, gap>>

\* The operator writes a PAT made for this rotation, never an old one.
RotatePat ==
    /\ Operator
    /\ \A p \in {file', writing'} \ {file, writing, NoPat} : tokens[p] = "new"
    /\ tokens' = [p \in Pats |-> IF p \in {file', writing'} /\ tokens[p] = "new"
                                 THEN "used" ELSE tokens[p]]
    /\ UNCHANGED <<provider, call, pat, client, server, things, applied, gap>>

\* The operator revokes a PAT, old or current, or it expires, at any time.
Revoke(p) ==
    /\ tokens[p] = "used"
    /\ tokens' = [tokens EXCEPT ![p] = "revoked"]
    /\ gap' = gap \cup {c \in Calls : client[c] = "waiting" /\ pat[c] = p}
    /\ UNCHANGED <<vars, provider, call, pat, client, server, things, applied>>

------------------------------------------------------------------------------
Method(c) ==
    \/ SetUpOrg(c) \/ AddOrganization(c) \/ AddProject(c) \/ AddOIDCApp(c)
    \/ AddHumanUser(c) \/ RemoveOrg(c) \/ RemoveUser(c) \/ RenameOrg(c)

ZNext ==
    \/ RotatePat
    \/ (Watcher \/ Close) /\ UNCHANGED remote
    \/ NewHTTPClient
    \/ \E c \in Calls : Method(c) \/ Receive(c) \/ Timeout(c) \/ Handle(c)
    \/ \E p \in Pats : Revoke(p)

ZSpec == ZInit /\ [][ZNext]_zvars

\* The goroutine of the watcher keeps running; nothing is asked of the calls,
\* of ZITADEL or of the operator.
FairZSpec == ZSpec /\ WF_zvars(Watcher /\ UNCHANGED remote)

------------------------------------------------------------------------------
(* Properties.                                                               *)

(***************************************************************************)
(* An answer the client passes on is true, and stays true: what it says it *)
(* created or renamed was, and nothing of an organisation or user it says  *)
(* it removed exists, also when the removal was a retry answered 404 and   *)
(* requests of other calls into that organisation are carried out late     *)
(* (post, RemoveOrg, RemoveUser, RenameOrg).                               *)
(***************************************************************************)
AnswerIsTrue ==
    \A c \in Calls : client[c] = "ok" =>
       IF call[c].kind = "remove" THEN things \cap Gone(call[c].target) = {}
       ELSE c \in applied

(***************************************************************************)
(* A call is refused for its PAT only in the gap of a rotation: ZITADEL    *)
(* answers 401 only to a call that was sent while the watcher still had    *)
(* the new file to read, or while the file itself held no accepted PAT, or *)
(* whose PAT was revoked with the request on its way; and no call fails    *)
(* for want of a PAT ("Should never happen at runtime", client.go:444).    *)
(* The old PAT may be revoked before the new one is written, as in         *)
(* Scenario F of docs/operations.md:241-250, or at any point of the write, *)
(* the reload and the calls: once the reload is over, calls are accepted   *)
(* again (post, Watcher.reload).                                           *)
(***************************************************************************)
RefusedOnlyInTheGap ==
    \A c \in Calls :
       /\ client[c] # "no_pat"
       /\ server[c] = 401 => c \in gap

(***************************************************************************)
(* A rotation reaches the client without a restart ("subsequent calls      *)
(* succeed without intervention", docs/operations.md:249-250): the PAT     *)
(* that stays in the file, announced under the file's name, is the one new *)
(* calls carry eventually, also when the client was made before the        *)
(* rotation and the old PAT is revoked already (post through               *)
(* patProvider, and reload).                                               *)
(***************************************************************************)
NewPatIsUsed ==
    (file # NoPat /\ announced /\ Serving /\ provider # "none") ~>
       (Get = file \/ file = NoPat \/ ~announced \/ pc = "closed")
==============================================================================
