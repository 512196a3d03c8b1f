------------------------------- MODULE Delivery -------------------------------
(***************************************************************************)
(* The delivery handler of the gateway (gateway/internal/server/server.go  *)
(* with auth.go and exposure.go): requests of several clients run through  *)
(* the pipeline concurrently, and while they do the Secrets change and the *)
(* snapshots they read are replaced.  The handler is modelled over the     *)
(* promise of the Secret manager (SecretCache), which SecretManager        *)
(* implements.                                                             *)
(*                                                                         *)
(* A client stands for its resolved address.  The data of a Secret is a    *)
(* function from its keys to values; a key that is not in its domain is    *)
(* missing.  HMAC-SHA256 is taken to be injective, so an ETag is the pair  *)
(* of what it digests.                                                     *)
(***************************************************************************)
EXTENDS SecretCache, FiniteSets

CONSTANTS
    Clients,        \* clients, each with at most one request at a time
    Exposures,      \* the names of the configured exposures
    Source,         \* Exposure.Source
    AuthRef,        \* Exposure.Auth.SecretRef
    Keys,           \* Exposure.Keys
    Allowed,        \* the clients inside Exposure.AllowedCIDRs
    Payloads,       \* Payloads[r]: the data a writer may give Secret r
    Empty,          \* the value of length 0
    Credentials,    \* the <<username, password>> pairs clients present
    Requests,       \* the requests clients send, see Request
    MaxVersion      \* bound: versions of each Secret

NoData == <<>>              \* the data of an absent Secret
NoCredentials == <<>>       \* a request without an Authorization header
Unknown == "unknown"        \* a well-formed name that is not configured
NoRoute == "noroute"        \* any other path, or a query or a body
Nothing == [name |-> NoRoute, tag |-> <<>>]     \* a client without a copy

\* What a client may send: resolved tells whether Resolve finds its address;
\* cond is If-None-Match: absent, the tag of the client's copy, or "*".
Request ==
    [method : {"GET", "HEAD", "POST"}, name : Exposures \cup {Unknown, NoRoute},
     resolved : BOOLEAN, creds : Credentials \cup {NoCredentials},
     cond : {"none", "held", "any"}]

ASSUME DeliveryAssumption ==
    /\ Source \in [Exposures -> Refs] /\ AuthRef \in [Exposures -> Refs]
    /\ Allowed \in [Exposures -> SUBSET Clients]
    /\ {Unknown, NoRoute} \cap Exposures = {}
    /\ Requests # {} /\ Requests \subseteq Request
    /\ MaxVersion \in [Refs -> Nat \ {0}]

VARIABLES
    data,           \* data[r][v]: the data of the Secret at version v
    pc,             \* the next step of the client's request, or "idle"
    req,            \* the request under way, or the last one
    outcome,        \* outcome: name, status and reason; status 0 while under way
    copy,           \* client: the last body it received, with its ETag
    delivered,      \* history: the newest version delivered per exposure
    floor,          \* history: delivered, when the request was received
    valid           \* history: the credentials in the cache since then

clientVars == <<pc, req, outcome, copy, floor>>
vars == <<abstractVars, data, clientVars, delivered, valid>>

Pending == [name |-> NoRoute, status |-> 0, reason |-> "none"]
-----------------------------------------------------------------------------
(* Secrets, as the handler reads them.                                     *)

\* The data of the snapshot h.secrets.Secret(r), which must be present.
Data(r) == data[r][cache[r].rv]

\* Which incarnation of the Secret version v belongs to.
UID(r, v) == Cardinality({w \in 1..v : hist[r][w] /\ (w = 1 \/ ~hist[r][w - 1])})

\* auth.NewBasic fails for data without a non-empty username and password.
NewBasic(d) == \A k \in {"username", "password"} : k \in DOMAIN d /\ d[k] # Empty

\* Basic.Verify.
Verify(d, creds) == creds = <<d["username"], d["password"]>>

\* exposureBody: the configured keys, and nothing else of the Secret.
exposureBody(d, keys) == [k \in keys |-> d[k]]

\* Mutant of ETag: every new version has a new tag.
ETagOfVersion(e, v) ==
    <<v, exposureBody(data[Source[e]][v], Keys[e])>>

\* ETag: the body, keyed with the UID.
ETag(e, v) ==
    <<UID(Source[e], v), exposureBody(data[Source[e]][v], Keys[e])>>

\* The credentials the gateway accepts for e with the snapshot s of its
\* authentication Secret.
Accepts(e, s) ==
    IF s.present /\ NewBasic(data[AuthRef[e]][s.rv])
    THEN {c \in Credentials : Verify(data[AuthRef[e]][s.rv], c)}
    ELSE {}

Contents(r) == Payloads[r] \cup {NoData}

Init ==
    /\ AInit
    /\ data \in [Refs -> {<<d>> : d \in UNION {Contents(r) : r \in Refs}}]
    /\ \A r \in Refs : data[r][1] \in IF hist[r][1] THEN Payloads[r] ELSE {NoData}
    /\ pc = [c \in Clients |-> "idle"]
    /\ req = [c \in Clients |-> CHOOSE q \in Requests : TRUE]
    /\ outcome = [c \in Clients |-> Pending]
    /\ copy = [c \in Clients |-> Nothing]
    /\ delivered = [e \in Exposures |-> 0]
    /\ floor = [c \in Clients |-> 0]
    /\ valid = [c \in Clients |-> {}]
-----------------------------------------------------------------------------
(* The Secrets and the manager.                                            *)

\* A writer creates, updates or deletes the Secret.
Change(r) ==
    /\ Latest(r) < MaxVersion[r]
    /\ AChange(r)
    /\ \E d \in IF hist'[r][Latest(r)'] THEN Payloads[r] ELSE {NoData} :
        data' = [data EXCEPT ![r] = Append(@, d)]
    /\ UNCHANGED <<clientVars, delivered, valid>>

\* The manager replaces the snapshot.
Observe(r) ==
    /\ AObserve(r)
    /\ valid' = [c \in Clients |->
         IF pc[c] # "idle" /\ req[c].name \in Exposures /\ AuthRef[req[c].name] = r
         THEN valid[c] \cup Accepts(req[c].name, cache'[r])
         ELSE valid[c]]
    /\ UNCHANGED <<data, clientVars, delivered>>
-----------------------------------------------------------------------------
(* The request pipeline.                                                   *)

\* The request arrives; the rest is history.
Receive(c) ==
    /\ pc[c] = "idle"
    /\ \E q \in Requests :
        /\ q.cond = "held" => copy[c].name = q.name
        /\ req' = [req EXCEPT ![c] = q]
        /\ floor' = [floor EXCEPT ![c] =
                        IF q.name \in Exposures THEN delivered[q.name] ELSE 0]
        /\ valid' = [valid EXCEPT ![c] =
                        IF q.name \in Exposures
                        THEN Accepts(q.name, cache[AuthRef[q.name]]) ELSE {}]
    /\ pc' = [pc EXCEPT ![c] = "screen"]
    /\ outcome' = [outcome EXCEPT ![c] = Pending]
    /\ UNCHANGED <<abstractVars, data, copy, delivered>>

\* fail and finish: the status is sent, logged and counted under the name of the
\* exposure, once that has been looked up.
Answer(c, name, status, reason) ==
    /\ pc' = [pc EXCEPT ![c] = "idle"]
    /\ outcome' = [outcome EXCEPT ![c] =
                     [name |-> name, status |-> status, reason |-> reason]]

Reject(c, status, reason)  == Answer(c, NoRoute, status, reason)
Respond(c, status, reason) == Answer(c, req[c].name, status, reason)

Proceed(c, step) ==
    /\ pc' = [pc EXCEPT ![c] = step]
    /\ UNCHANGED outcome

\* Exposure.AllowsClient.  Clients are told apart by their normalized addresses.
AllowsClient(e, c) == c \in Allowed[e]

\* Mutant of Screen: the network check comes after the authentication's 503.
ScreenLate(c) ==
    LET q == req[c] IN
    /\ pc[c] = "screen"
    /\ CASE q.method = "POST" -> Reject(c, 405, "method_not_allowed")
         [] q.method # "POST" /\ q.name = NoRoute -> Reject(c, 404, "no_route")
         [] q.method # "POST" /\ q.name = Unknown -> Reject(c, 404, "unknown_exposure")
         [] OTHER -> IF ~cache[AuthRef[q.name]].present
                     THEN Respond(c, 503, "auth_secret_unavailable")
                     ELSE IF ~q.resolved \/ ~AllowsClient(q.name, c)
                     THEN Respond(c, 404, "client_not_allowed")
                     ELSE Proceed(c, "auth")
    /\ UNCHANGED <<abstractVars, data, req, copy, delivered, floor, valid>>

\* The checks that need no Secret, in their order.
Screen(c) ==
    LET q == req[c] IN
    /\ pc[c] = "screen"
    /\ \/ q.method = "POST" /\ Reject(c, 405, "method_not_allowed")
       \/ /\ q.method # "POST"
          /\ \/ q.name = NoRoute /\ Reject(c, 404, "no_route")
             \/ q.name = Unknown /\ Reject(c, 404, "unknown_exposure")
             \/ /\ q.name \in Exposures
                /\ \/ ~q.resolved /\ Respond(c, 404, "client_address_unresolved")
                   \/ /\ q.resolved /\ ~AllowsClient(q.name, c)
                      /\ Respond(c, 404, "client_not_allowed")
                   \/ q.resolved /\ AllowsClient(q.name, c) /\ Proceed(c, "auth")
    /\ UNCHANGED <<abstractVars, data, req, copy, delivered, floor, valid>>

\* Mutant of Authenticate: no return after the 401.
AuthenticateFallsThrough(c) ==
    LET r == AuthRef[req[c].name] IN
    /\ pc[c] = "auth"
    /\ \/ ~cache[r].present /\ Respond(c, 503, "auth_secret_unavailable")
       \/ /\ cache[r].present
          /\ \/ ~NewBasic(Data(r)) /\ Respond(c, 503, "auth_secret_malformed")
             \/ /\ NewBasic(Data(r))
                /\ pc' = [pc EXCEPT ![c] = "serve"]
                /\ outcome' = IF Verify(Data(r), req[c].creds) THEN outcome
                              ELSE [outcome EXCEPT ![c].status = 401]
    /\ UNCHANGED <<abstractVars, data, req, copy, delivered, floor, valid>>

\* Mutant of Authenticate: the credentials of the first version are kept.
AuthenticateOnce(c) ==
    LET r == AuthRef[req[c].name] IN
    /\ pc[c] = "auth"
    /\ \/ ~cache[r].present /\ Respond(c, 503, "auth_secret_unavailable")
       \/ /\ cache[r].present
          /\ IF NewBasic(data[r][1]) /\ Verify(data[r][1], req[c].creds)
             THEN Proceed(c, "serve") ELSE Respond(c, 401, "unauthorized")
    /\ UNCHANGED <<abstractVars, data, req, copy, delivered, floor, valid>>

\* Mutant of Authenticate: the request waits for the Secret.
AuthenticateWaits(c) ==
    LET r == AuthRef[req[c].name] IN
    /\ pc[c] = "auth"
    /\ cache[r].present
    /\ IF NewBasic(Data(r)) /\ Verify(Data(r), req[c].creds)
       THEN Proceed(c, "serve") ELSE Respond(c, 401, "unauthorized")
    /\ UNCHANGED <<abstractVars, data, req, copy, delivered, floor, valid>>

\* The authentication Secret is read, and the credentials checked against it.
Authenticate(c) ==
    LET r == AuthRef[req[c].name] IN
    /\ pc[c] = "auth"
    /\ \/ ~cache[r].present /\ Respond(c, 503, "auth_secret_unavailable")
       \/ /\ cache[r].present
          /\ \/ ~NewBasic(Data(r)) /\ Respond(c, 503, "auth_secret_malformed")
             \/ /\ NewBasic(Data(r))
                /\ IF Verify(Data(r), req[c].creds)
                   THEN Proceed(c, "serve") ELSE Respond(c, 401, "unauthorized")
    /\ UNCHANGED <<abstractVars, data, req, copy, delivered, floor, valid>>

\* etagMatches.
etagMatches(c, tag) ==
    \/ req[c].cond = "any"
    \/ req[c].cond = "held" /\ copy[c].tag = tag

\* writeBody with the version v of the source: 304, or the body unless HEAD.
writeBody(c, e, v) ==
    /\ IF etagMatches(c, ETag(e, v))
       THEN Respond(c, 304, "not_modified") /\ UNCHANGED copy
       ELSE /\ Respond(c, 200, "served")
            /\ copy' = IF req[c].method = "HEAD" THEN copy
                       ELSE [copy EXCEPT ![c] = [name |-> e, tag |-> ETag(e, v)]]
    /\ delivered' = [delivered EXCEPT ![e] = IF v > @ THEN v ELSE @]

\* The refusals of the source Secret: it is absent, or lacks a configured key.
Refuse(c, e) ==
    LET s == Source[e] IN
    /\ \/ ~cache[s].present /\ Respond(c, 503, "source_secret_unavailable")
       \/ /\ cache[s].present
          /\ ~(Keys[e] \subseteq DOMAIN Data(s))
          /\ Respond(c, 503, "configured_key_missing")
    /\ UNCHANGED <<copy, delivered>>

\* The source Secret is read, once, and delivered.
Serve(c) ==
    LET e == req[c].name  s == Source[e] IN
    /\ pc[c] = "serve"
    /\ \/ Refuse(c, e)
       \/ /\ cache[s].present
          /\ Keys[e] \subseteq DOMAIN Data(s)
          /\ writeBody(c, e, cache[s].rv)
    /\ UNCHANGED <<abstractVars, data, req, floor, valid>>

\* serveRequest recovers from a panic before the response has started.
Panic(c) ==
    /\ pc[c] # "idle"
    /\ \/ req[c].name \in Exposures /\ Respond(c, 500, "internal_error")
       \/ pc[c] = "screen" /\ Reject(c, 500, "internal_error")
    /\ UNCHANGED <<abstractVars, data, req, copy, delivered, floor, valid>>
-----------------------------------------------------------------------------
Handle(c) == Screen(c) \/ Authenticate(c) \/ Serve(c)

Next ==
    \/ \E r \in Refs : Change(r) \/ Observe(r)
    \/ \E c \in Clients : Receive(c) \/ Handle(c) \/ Panic(c)

Spec == Init /\ [][Next]_vars

\* Fairness: the handler runs.  Nothing is assumed of Kubernetes or the manager,
\* and no request needs a panic to end.
FairSpec == Spec /\ \A c \in Clients : WF_vars(Handle(c))
-----------------------------------------------------------------------------
(* Properties.                                                             *)

\* Every variable stays in its range; a request that goes on has no answer yet.
TypeOK ==
    /\ \A r \in Refs : Len(data[r]) = Latest(r) /\ cache[r].rv \in 0..Latest(r)
    /\ pc \in [Clients -> {"idle", "screen", "auth", "serve"}]
    /\ req \in [Clients -> Requests]
    /\ \A c \in Clients :
        /\ outcome[c].name \in Exposures \cup {NoRoute}
        /\ outcome[c].status \in {0, 200, 304, 401, 404, 405, 500, 503}
        /\ pc[c] # "idle" => outcome[c].status = 0
        /\ pc[c] \in {"auth", "serve"} => req[c].name \in Exposures
    /\ DOMAIN copy = Clients
    /\ delivered \in [Exposures -> Nat]
    /\ floor \in [Clients -> Nat]
    /\ valid \in [Clients -> SUBSET Credentials]

Delivers(c) ==
    /\ pc[c] # "idle" /\ pc'[c] = "idle"
    /\ outcome'[c].status \in {200, 304}

\* Reads do not go back in time: whoever asks after a version has been delivered,
\* to anybody, ends up with the content of that or of a newer version, whether
\* the answer was a body (200) or the confirmation of the client's copy (304).
NeverOlder ==
    [][\A c \in Clients :
        Delivers(c) /\ req[c].method = "GET" /\ req[c].cond # "any" =>
            LET e == req[c].name  s == Source[e] IN
            \E v \in 1..Latest(s) :
                /\ v >= floor[c]
                /\ hist[s][v]
                /\ copy'[c] = [name |-> e, tag |-> ETag(e, v)]]_vars

\* The answers that tell something about the source Secret.
SourceReasons ==
    {"served", "not_modified", "source_secret_unavailable", "configured_key_missing"}

Reveals(c) ==
    /\ pc[c] # "idle" /\ pc'[c] = "idle"
    /\ outcome'[c].reason \in SourceReasons

\* "Credentials ... are read from the current, watched state of the
\* authentication Secret on every request" (auth.go), and "Without valid
\* credentials, no source or configured-key state is revealed" (REFERENCE.md):
\* whatever an answer tells of the source was asked for with credentials that the
\* cache held while the request ran; once a rotation has reached the cache, the old
\* ones open nothing to new requests.
CredentialsWereValid ==
    [][\A c \in Clients : Reveals(c) => req[c].creds \in valid[c]]_vars

\* "the tag changes exactly when any configured key changes" (server.go), within
\* one incarnation of the Secret: a client that sends the tag of its copy gets a
\* body if and only if the exposed values are no longer those of the copy.
ConditionalExact ==
    [][\A c \in Clients :
        Delivers(c) /\ req[c].cond = "held" =>
            LET e == req[c].name  s == Source[e]
                same == copy[c].tag[2] = exposureBody(Data(s), Keys[e])
            IN  /\ outcome'[c].status = 304 => same
                /\ same /\ outcome'[c].status = 200 =>
                     copy[c].tag[1] # UID(s, cache[s].rv)]_vars

\* The last request of c had nothing to do with an exposure c may use.
Outside(c) ==
    req[c].name \in Exposures => ~req[c].resolved \/ ~AllowsClient(req[c].name, c)

\* "From outside an allow-list, an existing exposure is indistinguishable from a
\* name that does not exist" (server.go): for one method all such requests are
\* answered alike, whatever state the Secrets are in.
Indistinguishable ==
    \A c, d \in Clients :
        /\ outcome[c].status \notin {0, 500} /\ outcome[d].status \notin {0, 500}
        /\ Outside(c) /\ Outside(d) /\ req[c].method = req[d].method
        => outcome[c].status = outcome[d].status

\* The handler answers from memory: every request is answered whatever Kubernetes
\* and the manager do.
Answered == \A c \in Clients : pc[c] # "idle" ~> pc[c] = "idle"
=============================================================================
