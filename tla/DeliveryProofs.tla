---------------------------- MODULE DeliveryProofs ----------------------------
(***************************************************************************)
(* For any number of clients, exposures and Secrets: reads do not go back  *)
(* in time, nothing is delivered for credentials that were not in the      *)
(* cache while the request ran, a conditional request gets a body exactly  *)
(* when the exposed values changed, and from outside an allow-list all     *)
(* exposures look alike.                                                   *)
(***************************************************************************)
EXTENDS Delivery, TLAPS

AllContents == UNION {Contents(r) : r \in Refs}

\* The ranges of the variables.
Types ==
    /\ hist \in [Refs -> Seq(BOOLEAN)]
    /\ data \in [Refs -> Seq(AllContents)]
    /\ \A r \in Refs : Len(data[r]) = Len(hist[r]) /\ Len(hist[r]) >= 1
    /\ cache \in [Refs -> [present : BOOLEAN, synced : BOOLEAN, rv : Nat]]
    /\ high \in [Refs -> Nat]
    /\ pc \in [Clients -> {"idle", "screen", "auth", "serve"}]
    /\ req \in [Clients -> Requests]
    /\ DOMAIN outcome = Clients
    /\ DOMAIN copy = Clients
    /\ \A c \in Clients : copy[c] = [name |-> copy[c].name, tag |-> copy[c].tag]
    /\ delivered \in [Exposures -> Nat]
    /\ floor \in [Clients -> Nat]
    /\ valid \in [Clients -> SUBSET Credentials]

\* A present snapshot is an existing version, the newest one ever in the cache.
CacheInv ==
    \A r \in Refs : cache[r].present =>
        /\ cache[r].rv = high[r]
        /\ cache[r].rv \in 1..Len(hist[r])
        /\ hist[r][cache[r].rv]

\* What was delivered has been in the cache.
OrderInv ==
    /\ \A e \in Exposures : delivered[e] <= high[Source[e]]
    /\ \A c \in Clients : pc[c] # "idle" /\ req[c].name \in Exposures =>
         floor[c] <= delivered[req[c].name]

\* A request past the screen is about an exposure, and the copy a condition is
\* about is one of that exposure.
RequestInv ==
    \A c \in Clients :
        /\ pc[c] \in {"auth", "serve"} => req[c].name \in Exposures
        /\ pc[c] # "idle" /\ req[c].cond = "held" => copy[c].name = req[c].name

\* valid keeps up with the cache, and holds what was accepted.
AuthInv ==
    \A c \in Clients :
        /\ pc[c] # "idle" /\ req[c].name \in Exposures =>
             Accepts(req[c].name, cache[AuthRef[req[c].name]]) \subseteq valid[c]
        /\ pc[c] = "serve" => req[c].creds \in valid[c]

IInv == Types /\ CacheInv /\ OrderInv /\ RequestInv /\ AuthInv

USE DEF abstractVars, clientVars

-----------------------------------------------------------------------------
\* Initially the invariant holds.
LEMMA InitIInv == Init => IInv
<1> SUFFICES ASSUME Init PROVE IInv
  OBVIOUS
<1>1. hist \in [Refs -> Seq(BOOLEAN)] /\ \A r \in Refs : Len(hist[r]) = 1
  <2>1. ASSUME NEW r \in Refs PROVE hist[r] \in Seq(BOOLEAN) /\ Len(hist[r]) = 1
    <3>1. PICK x \in BOOLEAN : hist[r] = <<x>>
      BY DEF Init, AInit
    <3> QED
      BY <3>1
  <2>2. hist = [r \in Refs |-> hist[r]]
    BY DEF Init, AInit
  <2> QED
    BY <2>1, <2>2
<1>2. data \in [Refs -> Seq(AllContents)] /\ \A r \in Refs : Len(data[r]) = 1
  <2>1. ASSUME NEW r \in Refs PROVE data[r] \in Seq(AllContents) /\ Len(data[r]) = 1
    <3>1. PICK d \in AllContents : data[r] = <<d>>
      BY DEF Init, AllContents
    <3> QED
      BY <3>1
  <2>2. data = [r \in Refs |-> data[r]]
    BY DEF Init
  <2> QED
    BY <2>1, <2>2
<1>3. cache \in [Refs -> [present : BOOLEAN, synced : BOOLEAN, rv : Nat]]
  BY DEF Init, AInit, Unsynced
<1>4. (CHOOSE q \in Requests : TRUE) \in Requests
  BY DeliveryAssumption
<1>5. Types
  BY <1>1, <1>2, <1>3, <1>4 DEF Init, AInit, Types, Nothing
<1>6. CacheInv
  BY DEF Init, AInit, Unsynced, CacheInv
<1>7. OrderInv
  BY DeliveryAssumption DEF Init, AInit, OrderInv
<1>8. RequestInv
  BY DEF Init, RequestInv
<1>9. AuthInv
  BY DEF Init, AuthInv
<1> QED
  BY <1>5, <1>6, <1>7, <1>8, <1>9 DEF IInv

-----------------------------------------------------------------------------
\* What the snapshot of a Secret says does not depend on later versions.
LEMMA AcceptsStable ==
    ASSUME Types, CacheInv, NEW e \in Exposures, NEW r \in Refs, NEW d \in AllContents,
           data' = [data EXCEPT ![r] = Append(@, d)], cache' = cache
    PROVE  Accepts(e, cache[AuthRef[e]])' = Accepts(e, cache[AuthRef[e]])
<1> DEFINE a == AuthRef[e]
<1>1. a \in Refs
  BY DeliveryAssumption
<1>2. ASSUME cache[a].present PROVE data'[a][cache[a].rv] = data[a][cache[a].rv]
  <2>1. cache[a].rv \in 1..Len(data[a])
    BY <1>1, <1>2 DEF Types, CacheInv
  <2>2. data[a] \in Seq(AllContents)
    BY <1>1 DEF Types
  <2> QED
    BY <1>1, <2>1, <2>2 DEF Types
<1> QED
  BY <1>2 DEF Accepts

\* A writer's step.
LEMMA ChangeStep == ASSUME IInv, NEW r \in Refs, Change(r) PROVE IInv'
<1> USE DEF IInv
<1>1. PICK x \in BOOLEAN : hist' = [hist EXCEPT ![r] = Append(@, x)]
  BY DEF Change, AChange
<1>2. PICK d \in AllContents : data' = [data EXCEPT ![r] = Append(@, d)]
  <2>1. PICK d \in IF hist'[r][Latest(r)'] THEN Payloads[r] ELSE {NoData} :
            data' = [data EXCEPT ![r] = Append(@, d)]
    BY DEF Change
  <2>2. d \in Contents(r)
    BY <2>1 DEF Contents
  <2> QED
    BY <2>1, <2>2 DEF AllContents
<1>3. /\ UNCHANGED <<cache, high, pc, req, outcome, copy, floor, delivered, valid>>
  BY DEF Change, AChange
<1>4. /\ hist' \in [Refs -> Seq(BOOLEAN)] /\ data' \in [Refs -> Seq(AllContents)]
      /\ \A q \in Refs : Len(data'[q]) = Len(hist'[q]) /\ Len(hist'[q]) >= Len(hist[q])
      /\ \A q \in Refs : \A v \in 1..Len(hist[q]) : hist'[q][v] = hist[q][v]
  BY <1>1, <1>2 DEF Types
<1>5. Types'
  BY <1>3, <1>4 DEF Types
<1>6. CacheInv'
  BY <1>3, <1>4 DEF Types, CacheInv
<1>7. OrderInv' /\ RequestInv'
  BY <1>3 DEF OrderInv, RequestInv
<1>8. \A e \in Exposures :
        Accepts(e, cache[AuthRef[e]])' = Accepts(e, cache[AuthRef[e]])
  BY <1>2, <1>3, AcceptsStable
<1>9. AuthInv'
  BY <1>3, <1>8 DEF AuthInv
<1> QED
  BY <1>5, <1>6, <1>7, <1>9

\* The manager's step: a present snapshot is never older than the last one.
LEMMA ObserveStep == ASSUME IInv, NEW r \in Refs, Observe(r) PROVE IInv'
<1> USE DEF IInv
<1>1. PICK v \in 1..Len(hist[r]) :
        /\ v >= high[r]
        /\ cache' = [cache EXCEPT ![r] = View(r, v)]
        /\ high' = [high EXCEPT ![r] = IF hist[r][v] THEN v ELSE @]
  BY DEF Observe, AObserve, Latest
<1>2. UNCHANGED <<hist, data, pc, req, outcome, copy, floor, delivered>>
  BY DEF Observe, AObserve
<1>3. hist[r][v] \in BOOLEAN /\ v \in Nat
  BY DEF Types
<1>4. View(r, v) \in [present : BOOLEAN, synced : BOOLEAN, rv : Nat]
  BY <1>3 DEF View
<1>5. \A e \in Exposures : Accepts(e, cache'[AuthRef[e]]) \subseteq Credentials
  BY DEF Accepts
<1>6. valid' \in [Clients -> SUBSET Credentials]
  BY <1>5 DEF Observe, Types
<1>7. Types'
  BY <1>1, <1>2, <1>3, <1>4, <1>6 DEF Types
<1>8. CacheInv'
  BY <1>1, <1>2, <1>3 DEF Types, CacheInv, View
<1>9. \A q \in Refs : high'[q] >= high[q] /\ high'[q] \in Nat
  BY <1>1, <1>3 DEF Types
<1>10. OrderInv'
  BY <1>2, <1>9, DeliveryAssumption DEF Types, OrderInv
<1>11. RequestInv'
  BY <1>2 DEF RequestInv
<1>12. AuthInv'
  <2> SUFFICES ASSUME NEW c \in Clients
               PROVE  /\ pc[c] # "idle" /\ req[c].name \in Exposures =>
                           Accepts(req[c].name, cache[AuthRef[req[c].name]])'
                                \subseteq valid'[c]
                      /\ pc[c] = "serve" => req[c].creds \in valid'[c]
    BY <1>2 DEF AuthInv
  <2>1. valid[c] \subseteq valid'[c]
    BY DEF Observe
  <2>2. ASSUME pc[c] # "idle", req[c].name \in Exposures
        PROVE  Accepts(req[c].name, cache[AuthRef[req[c].name]])' \subseteq valid'[c]
    <3> DEFINE e == req[c].name
    <3>1. CASE AuthRef[e] = r
      <4>1. valid'[c] = valid[c] \cup Accepts(e, cache'[r])
        BY <2>2, <3>1 DEF Observe
      <4>2. Accepts(e, cache[AuthRef[e]])' = Accepts(e, cache'[r])
        BY <1>2, <3>1 DEF Accepts
      <4> QED
        BY <4>1, <4>2
    <3>2. CASE AuthRef[e] # r
      <4>1. cache'[AuthRef[e]] = cache[AuthRef[e]]
        BY <1>1, <2>2, <3>2, DeliveryAssumption DEF Types
      <4>2. Accepts(e, cache[AuthRef[e]])' = Accepts(e, cache[AuthRef[e]])
        BY <1>2, <4>1 DEF Accepts
      <4> QED
        BY <2>1, <2>2, <4>2 DEF AuthInv
    <3> QED
      BY <3>1, <3>2
  <2> QED
    BY <2>1, <2>2 DEF AuthInv
<1> QED
  BY <1>7, <1>8, <1>10, <1>11, <1>12

\* A request arrives.
LEMMA ReceiveStep == ASSUME IInv, NEW c \in Clients, Receive(c) PROVE IInv'
<1> USE DEF IInv
<1>1. PICK q \in Requests :
        /\ q.cond = "held" => copy[c].name = q.name
        /\ req' = [req EXCEPT ![c] = q]
        /\ floor' = [floor EXCEPT ![c] =
                        IF q.name \in Exposures THEN delivered[q.name] ELSE 0]
        /\ valid' = [valid EXCEPT ![c] =
                        IF q.name \in Exposures
                        THEN Accepts(q.name, cache[AuthRef[q.name]]) ELSE {}]
  BY DEF Receive
<1>2. /\ UNCHANGED <<hist, cache, high, data, copy, delivered>>
      /\ pc' = [pc EXCEPT ![c] = "screen"]
      /\ outcome' = [outcome EXCEPT ![c] = Pending]
  BY DEF Receive
<1>3. \A e \in Exposures : Accepts(e, cache[AuthRef[e]]) \subseteq Credentials
  BY DEF Accepts
<1>4. valid' \in [Clients -> SUBSET Credentials]
  BY <1>1, <1>3 DEF Types
<1>5. floor' \in [Clients -> Nat]
  BY <1>1 DEF Types
<1>6. Types'
  BY <1>1, <1>2, <1>4, <1>5 DEF Types
<1>7. CacheInv'
  BY <1>2 DEF CacheInv
<1>8. OrderInv'
  BY <1>1, <1>2 DEF Types, OrderInv
<1>9. RequestInv'
  BY <1>1, <1>2 DEF Types, RequestInv
<1>10. \A e \in Exposures :
         Accepts(e, cache[AuthRef[e]])' = Accepts(e, cache[AuthRef[e]])
  BY <1>2 DEF Accepts
<1>11. AuthInv'
  BY <1>1, <1>2, <1>10 DEF Types, AuthInv
<1> QED
  BY <1>6, <1>7, <1>8, <1>9, <1>11

\* A step of the handler that only moves the request of c on to s.
Moves(c, s) ==
    /\ pc' = [pc EXCEPT ![c] = s]
    /\ DOMAIN outcome' = Clients
    /\ UNCHANGED <<abstractVars, data, req, floor, valid>>

\* Such a step keeps the invariant if it may move to s, and if what it delivers
\* has been in the cache.
LEMMA MoveStep ==
    ASSUME IInv, NEW c \in Clients, NEW s \in {"idle", "auth", "serve"}, Moves(c, s),
           s # "idle" => pc[c] # "idle" /\ req[c].name \in Exposures,
           s = "serve" => req[c].creds \in valid[c],
           DOMAIN copy' = Clients,
           copy'[c] = [name |-> copy'[c].name, tag |-> copy'[c].tag],
           s # "idle" => copy'[c] = copy[c],
           \A d \in Clients \ {c} : copy'[d] = copy[d],
           delivered' \in [Exposures -> Nat],
           \A e \in Exposures :
                delivered'[e] >= delivered[e] /\ delivered'[e] <= high[Source[e]]
    PROVE  IInv'
<1> USE DEF IInv, Moves
<1>1. Types'
  BY DEF Types
<1>2. CacheInv'
  BY DEF CacheInv
<1>3. OrderInv'
  <2>1. \A e \in Exposures : delivered'[e] <= high'[Source[e]]
    OBVIOUS
  <2>2. ASSUME NEW d \in Clients, pc'[d] # "idle", req[d].name \in Exposures
        PROVE  floor[d] <= delivered'[req[d].name]
    <3>1. pc[d] # "idle"
      BY <2>2 DEF Types
    <3>2. floor[d] <= delivered[req[d].name]
      BY <2>2, <3>1 DEF OrderInv
    <3>3. delivered[req[d].name] <= delivered'[req[d].name]
      BY <2>2
    <3>4. floor[d] \in Nat /\ delivered[req[d].name] \in Nat
          /\ delivered'[req[d].name] \in Nat
      BY <2>2 DEF Types
    <3> QED
      BY <3>2, <3>3, <3>4
  <2> QED
    BY <2>1, <2>2 DEF OrderInv
<1>4. RequestInv'
  BY DEF Types, RequestInv
<1>5. \A e \in Exposures :
        Accepts(e, cache[AuthRef[e]])' = Accepts(e, cache[AuthRef[e]])
  BY DEF Accepts
<1>6. AuthInv'
  BY <1>5 DEF Types, AuthInv
<1> QED
  BY <1>1, <1>2, <1>3, <1>4, <1>6

\* An answer ends the request.
LEMMA AnswerMoves ==
    ASSUME Types, NEW c \in Clients, NEW name, NEW status, NEW reason,
           Answer(c, name, status, reason),
           UNCHANGED <<abstractVars, data, req, floor, valid>>
    PROVE  Moves(c, "idle") /\ outcome'[c].status = status /\ outcome'[c].reason = reason
BY DEF Types, Answer, Moves

\* A step that delivers nothing keeps the invariant.
LEMMA QuietStep ==
    ASSUME IInv, NEW c \in Clients, NEW s \in {"idle", "auth", "serve"}, Moves(c, s),
           s # "idle" => pc[c] # "idle" /\ req[c].name \in Exposures,
           s = "serve" => req[c].creds \in valid[c],
           UNCHANGED <<copy, delivered>>
    PROVE  IInv'
<1>1. \A e \in Exposures :
        delivered'[e] >= delivered[e] /\ delivered'[e] <= high[Source[e]]
  BY DEF IInv, Types, OrderInv
<1>2. /\ DOMAIN copy' = Clients /\ copy'[c] = [name |-> copy'[c].name, tag |-> copy'[c].tag]
      /\ delivered' \in [Exposures -> Nat]
      /\ copy'[c] = copy[c] /\ \A d \in Clients \ {c} : copy'[d] = copy[d]
  BY DEF IInv, Types
<1> QED
  BY <1>1, <1>2, MoveStep

\* Only the request that is moved can be delivered to, by ending it.
LEMMA MoveDelivers ==
    ASSUME Types, NEW c \in Clients, NEW s \in {"idle", "auth", "serve"}, Moves(c, s),
           NEW d \in Clients, Delivers(d) \/ Reveals(d)
    PROVE  d = c /\ s = "idle"
BY DEF Types, Moves, Delivers, Reveals

\* Nobody is told anything of a source Secret.
Silent == \A d \in Clients : ~Delivers(d) /\ ~Reveals(d)

\* Screen delivers nothing and only lets requests for exposures pass.
LEMMA ScreenStep ==
    ASSUME IInv, NEW c \in Clients, Screen(c)
    PROVE  IInv' /\ Silent
<1>1. UNCHANGED <<abstractVars, data, req, floor, valid>> /\ UNCHANGED <<copy, delivered>>
      /\ pc[c] = "screen"
  BY DEF Screen
<1>2. CASE \E status \in {404, 405} : \E name, reason :
             Answer(c, name, status, reason) /\ reason \notin SourceReasons
  <2>1. PICK status \in {404, 405} : \E name, reason :
             Answer(c, name, status, reason) /\ reason \notin SourceReasons
    BY <1>2
  <2>2. Moves(c, "idle") /\ outcome'[c].status = status
        /\ outcome'[c].reason \notin SourceReasons
    BY <1>1, <2>1, AnswerMoves DEF IInv
  <2>3. IInv'
    BY <1>1, <2>2, QuietStep
  <2> QED
    BY <2>2, <2>3, MoveDelivers DEF Silent, Delivers, Reveals, IInv
<1>3. CASE req[c].name \in Exposures /\ Proceed(c, "auth")
  <2>1. Moves(c, "auth")
    BY <1>1, <1>3 DEF Proceed, Moves, IInv, Types
  <2>2. IInv'
    BY <1>1, <1>3, <2>1, QuietStep
  <2> QED
    BY <2>1, <2>2, MoveDelivers DEF Silent, IInv
<1> QED
  BY <1>2, <1>3 DEF Screen, Respond, Reject, SourceReasons

\* Authenticate delivers nothing, and whom it lets pass had valid credentials.
LEMMA AuthenticateStep ==
    ASSUME IInv, NEW c \in Clients, Authenticate(c)
    PROVE  IInv' /\ Silent
<1> DEFINE e == req[c].name
           r == AuthRef[e]
<1>1. UNCHANGED <<abstractVars, data, req, floor, valid>> /\ UNCHANGED <<copy, delivered>>
      /\ pc[c] = "auth"
  BY DEF Authenticate
<1>2. e \in Exposures
  BY <1>1 DEF IInv, RequestInv
<1>3. CASE \E status \in {401, 503} : \E name, reason :
             Answer(c, name, status, reason) /\ reason \notin SourceReasons
  <2>1. PICK status \in {401, 503} : \E name, reason :
             Answer(c, name, status, reason) /\ reason \notin SourceReasons
    BY <1>3
  <2>2. Moves(c, "idle") /\ outcome'[c].status = status
        /\ outcome'[c].reason \notin SourceReasons
    BY <1>1, <2>1, AnswerMoves DEF IInv
  <2>3. IInv'
    BY <1>1, <2>2, QuietStep
  <2> QED
    BY <2>2, <2>3, MoveDelivers DEF Silent, Delivers, Reveals, IInv
<1>4. CASE /\ cache[r].present /\ NewBasic(Data(r)) /\ Verify(Data(r), req[c].creds)
           /\ Proceed(c, "serve")
  <2>1. Moves(c, "serve")
    BY <1>1, <1>4 DEF Proceed, Moves, IInv, Types
  <2>2. req[c].creds \in Credentials
    <3>1. req[c] \in Request
      BY DeliveryAssumption DEF IInv, Types
    <3>2. req[c].creds # NoCredentials
      BY <1>4 DEF Verify, NoCredentials
    <3> QED
      BY <3>1, <3>2 DEF Request
  <2>3. req[c].creds \in Accepts(e, cache[r])
    BY <1>4, <2>2 DEF Accepts, Data
  <2>4. req[c].creds \in valid[c]
    BY <1>1, <1>2, <2>3 DEF IInv, AuthInv
  <2>5. IInv'
    BY <1>1, <1>2, <2>1, <2>4, QuietStep
  <2> QED
    BY <2>1, <2>5, MoveDelivers DEF Silent, IInv
<1> QED
  BY <1>3, <1>4 DEF Authenticate, Respond, SourceReasons

\* A recovered panic delivers nothing.
LEMMA PanicStep ==
    ASSUME IInv, NEW c \in Clients, Panic(c)
    PROVE  IInv' /\ Silent
<1>1. UNCHANGED <<abstractVars, data, req, floor, valid>> /\ UNCHANGED <<copy, delivered>>
  BY DEF Panic
<1>2. PICK name : Answer(c, name, 500, "internal_error")
  BY DEF Panic, Respond, Reject
<1>3. Moves(c, "idle") /\ outcome'[c].status = 500 /\ outcome'[c].reason \notin SourceReasons
  BY <1>1, <1>2, AnswerMoves DEF IInv, SourceReasons
<1>4. IInv'
  BY <1>1, <1>3, QuietStep
<1> QED
  BY <1>3, <1>4, MoveDelivers DEF Silent, Delivers, Reveals, IInv

\* What a step that delivers to d has to show, see NeverOlder.
Fresh(d) ==
    LET e == req[d].name  s == Source[e] IN
    \E v \in 1..Latest(s) :
        /\ v >= floor[d]
        /\ hist[s][v]
        /\ copy'[d] = [name |-> e, tag |-> ETag(e, v)]

\* Serve delivers the snapshot, which is at least as new as what was delivered
\* before the request arrived.
LEMMA ServeStep ==
    ASSUME IInv, NEW c \in Clients, Serve(c)
    PROVE  /\ IInv'
           /\ \A d \in Clients :
                /\ Reveals(d) => req[d].creds \in valid[d]
                /\ Delivers(d) /\ req[d].method = "GET" /\ req[d].cond # "any" => Fresh(d)
<1> DEFINE e == req[c].name
           s == Source[e]
           v == cache[s].rv
<1>1. UNCHANGED <<abstractVars, data, req, floor, valid>> /\ pc[c] = "serve"
  BY DEF Serve
<1>2. e \in Exposures /\ s \in Refs
  BY <1>1, DeliveryAssumption DEF IInv, RequestInv
<1>3. req[c].creds \in valid[c]
  BY <1>1 DEF IInv, AuthInv
<1>4. CASE Refuse(c, e)
  <2>1. UNCHANGED <<copy, delivered>>
    BY <1>4 DEF Refuse
  <2>2. PICK reason : Answer(c, e, 503, reason)
    BY <1>4 DEF Refuse, Respond
  <2>3. Moves(c, "idle") /\ outcome'[c].status = 503
    BY <1>1, <2>2, AnswerMoves DEF IInv
  <2>4. IInv'
    BY <2>1, <2>3, QuietStep
  <2> QED
    BY <1>3, <2>3, <2>4, MoveDelivers DEF Delivers, IInv
<1>5. CASE cache[s].present /\ writeBody(c, e, v)
  <2>1. v = high[s] /\ v \in 1..Latest(s) /\ hist[s][v] /\ v \in Nat
    BY <1>2, <1>5 DEF IInv, CacheInv, Latest, Types
  <2>2. PICK status, reason : Answer(c, e, status, reason)
    BY <1>5 DEF writeBody, Respond
  <2>3. Moves(c, "idle")
    BY <1>1, <2>2, AnswerMoves DEF IInv
  <2>4. delivered' = [delivered EXCEPT ![e] = IF v > @ THEN v ELSE @]
    BY <1>5 DEF writeBody
  <2>5. delivered' \in [Exposures -> Nat]
    BY <1>2, <2>1, <2>4 DEF IInv, Types
  <2>6. \A x \in Exposures :
          delivered'[x] >= delivered[x] /\ delivered'[x] <= high[Source[x]]
    BY <1>2, <2>1, <2>4 DEF IInv, Types, OrderInv
  <2>7. \/ copy' = copy
        \/ copy' = [copy EXCEPT ![c] = [name |-> e, tag |-> ETag(e, v)]]
    BY <1>5 DEF writeBody
  <2>8. /\ DOMAIN copy' = Clients
        /\ \A d \in Clients \ {c} : copy'[d] = copy[d]
        /\ copy'[c] = [name |-> copy'[c].name, tag |-> copy'[c].tag]
    BY <2>7 DEF IInv, Types
  <2>9. IInv'
    BY <2>3, <2>5, <2>6, <2>8, MoveStep
  <2>10. ASSUME req[c].method = "GET", req[c].cond # "any" PROVE Fresh(c)
    <3>1. copy'[c] = [name |-> e, tag |-> ETag(e, v)]
      <4>1. CASE etagMatches(c, ETag(e, v))
        <5>1. req[c].cond = "held" /\ copy[c].tag = ETag(e, v)
          BY <2>10, <4>1 DEF etagMatches
        <5>2. copy[c].name = e
          BY <1>1, <5>1 DEF IInv, RequestInv
        <5>3. copy[c] = [name |-> e, tag |-> ETag(e, v)]
          BY <5>1, <5>2 DEF IInv, Types
        <5>4. copy' = copy
          BY <1>5, <4>1 DEF writeBody
        <5> QED
          BY <5>3, <5>4
      <4>2. CASE ~etagMatches(c, ETag(e, v))
        <5>1. copy' = [copy EXCEPT ![c] = [name |-> e, tag |-> ETag(e, v)]]
          BY <1>5, <2>10, <4>2 DEF writeBody
        <5> QED
          BY <5>1 DEF IInv, Types
      <4> QED
        BY <4>1, <4>2
    <3>2. v >= floor[c]
      <4>1. floor[c] <= delivered[e] /\ delivered[e] <= high[s]
        BY <1>1, <1>2 DEF IInv, OrderInv
      <4>2. floor[c] \in Nat /\ delivered[e] \in Nat /\ high[s] \in Nat
        BY <1>2 DEF IInv, Types
      <4> QED
        BY <2>1, <4>1, <4>2
    <3> QED
      BY <2>1, <3>1, <3>2 DEF Fresh
  <2> QED
    BY <1>3, <2>3, <2>9, <2>10, MoveDelivers DEF IInv
<1> QED
  BY <1>4, <1>5 DEF Serve

-----------------------------------------------------------------------------
\* Every step keeps the invariant, and delivers only what is fresh and was asked
\* for with valid credentials.
LEMMA NextIInv ==
    ASSUME IInv, [Next]_vars
    PROVE  /\ IInv'
           /\ \A d \in Clients :
                /\ Reveals(d) => req[d].creds \in valid[d]
                /\ Delivers(d) /\ req[d].method = "GET" /\ req[d].cond # "any" => Fresh(d)
<1>1. CASE \E r \in Refs : Change(r)
  <2>1. pc' = pc
    BY <1>1 DEF Change
  <2> QED
    BY <1>1, <2>1, ChangeStep DEF Delivers, Reveals
<1>2. CASE \E r \in Refs : Observe(r)
  <2>1. pc' = pc
    BY <1>2 DEF Observe
  <2> QED
    BY <1>2, <2>1, ObserveStep DEF Delivers, Reveals
<1>3. ASSUME NEW c \in Clients, Receive(c)
      PROVE  IInv' /\ Silent
  <2>1. pc[c] = "idle" /\ pc' = [pc EXCEPT ![c] = "screen"]
    BY <1>3 DEF Receive
  <2> QED
    BY <1>3, <2>1, ReceiveStep DEF Silent, Delivers, Reveals, IInv, Types
<1>4. CASE \E c \in Clients : Handle(c) \/ Panic(c)
  BY <1>4, ScreenStep, AuthenticateStep, ServeStep, PanicStep DEF Handle, Silent
<1>5. CASE UNCHANGED vars
  <2>1. \A e \in Exposures :
          Accepts(e, cache[AuthRef[e]])' = Accepts(e, cache[AuthRef[e]])
    BY <1>5 DEF vars, Accepts
  <2>2. Types' /\ CacheInv' /\ OrderInv' /\ RequestInv'
    BY <1>5 DEF vars, IInv, Types, CacheInv, OrderInv, RequestInv
  <2>3. AuthInv'
    BY <1>5, <2>1 DEF vars, IInv, AuthInv
  <2> QED
    BY <1>5, <2>2, <2>3 DEF vars, IInv, Delivers, Reveals
<1> QED
  BY <1>1, <1>2, <1>3, <1>4, <1>5 DEF Next, Silent

\* The invariant holds throughout.
LEMMA Invariance == Spec => []IInv
BY InitIInv, NextIInv, PTL DEF Spec

\* However requests, rotations and snapshots interleave, a client that asks after
\* a version was delivered ends up with the content of that or a newer version.
THEOREM ReadsNeverGoBack == Spec => NeverOlder
<1>1. IInv /\ [Next]_vars => [\A c \in Clients :
        Delivers(c) /\ req[c].method = "GET" /\ req[c].cond # "any" =>
            LET e == req[c].name  s == Source[e] IN
            \E v \in 1..Latest(s) :
                /\ v >= floor[c]
                /\ hist[s][v]
                /\ copy'[c] = [name |-> e, tag |-> ETag(e, v)]]_vars
  BY NextIInv DEF Fresh
<1> QED
  BY <1>1, Invariance, PTL DEF Spec, NeverOlder

\* Nothing of a source Secret is revealed for credentials the cache did not hold
\* while the request ran.
THEOREM OnlyValidCredentials == Spec => CredentialsWereValid
<1>1. IInv /\ [Next]_vars =>
        [\A c \in Clients : Reveals(c) => req[c].creds \in valid[c]]_vars
  BY NextIInv
<1> QED
  BY <1>1, Invariance, PTL DEF Spec, CredentialsWereValid

-----------------------------------------------------------------------------
(* What clients are told.                                                  *)

\* The answer to c: none while the request runs, and for a request from outside an
\* allow-list one that depends on the method alone.  Whoever is past the screen is
\* not outside.
Told(c) ==
    /\ outcome[c].name \in Exposures \cup {NoRoute}
    /\ outcome[c].status \in {0, 200, 304, 401, 404, 405, 500, 503}
    /\ pc[c] # "idle" => outcome[c].status = 0
    /\ pc[c] \in {"auth", "serve"} => ~Outside(c)
    /\ outcome[c].status \notin {0, 500} /\ Outside(c) =>
         outcome[c].status = IF req[c].method = "POST" THEN 405 ELSE 404

ToldInv == \A c \in Clients : Told(c)

\* A step that leaves the request of c alone.
LEMMA StaysTold ==
    ASSUME NEW c \in Clients, Told(c), pc'[c] = pc[c], req'[c] = req[c],
           outcome'[c] = outcome[c]
    PROVE  Told(c)'
BY DEF Told, Outside, AllowsClient

\* An answer that fits ends the request of c.
LEMMA AnswerTold ==
    ASSUME Types, ToldInv, NEW c \in Clients, NEW name \in Exposures \cup {NoRoute},
           NEW status \in {200, 304, 401, 404, 405, 500, 503}, NEW reason,
           Answer(c, name, status, reason), req' = req,
           Outside(c) =>
              status = 500 \/ status = IF req[c].method = "POST" THEN 405 ELSE 404
    PROVE  ToldInv'
<1>1. /\ pc'[c] = "idle" /\ outcome'[c].name = name /\ outcome'[c].status = status
      /\ \A d \in Clients \ {c} : pc'[d] = pc[d] /\ outcome'[d] = outcome[d]
  BY DEF Types, Answer
<1>2. Told(c)'
  BY <1>1 DEF Told, Outside, AllowsClient
<1>3. \A d \in Clients \ {c} : Told(d)'
  BY <1>1, StaysTold DEF ToldInv
<1> QED
  BY <1>2, <1>3 DEF ToldInv

\* The request of c, which is not outside, goes on.
LEMMA ProceedTold ==
    ASSUME Types, ToldInv, NEW c \in Clients, NEW step \in {"auth", "serve"},
           Proceed(c, step), req' = req, pc[c] # "idle", ~Outside(c)
    PROVE  ToldInv'
<1>1. /\ pc'[c] = step /\ outcome' = outcome
      /\ \A d \in Clients \ {c} : pc'[d] = pc[d]
  BY DEF Types, Proceed
<1>2. Told(c)'
  BY <1>1 DEF Told, Outside, AllowsClient, ToldInv
<1>3. \A d \in Clients \ {c} : Told(d)'
  BY <1>1, StaysTold DEF ToldInv
<1> QED
  BY <1>2, <1>3 DEF ToldInv

\* A new request has been told nothing.
LEMMA ReceiveTold ==
    ASSUME Types, ToldInv, NEW c \in Clients, Receive(c)
    PROVE  ToldInv'
<1>1. /\ pc'[c] = "screen" /\ outcome'[c] = Pending
      /\ \A d \in Clients \ {c} :
            pc'[d] = pc[d] /\ outcome'[d] = outcome[d] /\ req'[d] = req[d]
  BY DEF Types, Receive
<1>2. Told(c)'
  BY <1>1 DEF Told, Pending
<1>3. \A d \in Clients \ {c} : Told(d)'
  BY <1>1, StaysTold DEF ToldInv
<1> QED
  BY <1>2, <1>3 DEF ToldInv

\* What Screen refuses gets the one answer of the refusals.
LEMMA ScreenTold ==
    ASSUME Types, ToldInv, NEW c \in Clients, Screen(c)
    PROVE  ToldInv'
<1>1. req' = req /\ pc[c] = "screen"
  BY DEF Screen
<1>2. CASE req[c].method = "POST" /\ Reject(c, 405, "method_not_allowed")
  BY <1>1, <1>2, AnswerTold DEF Reject
<1>3. CASE req[c].method # "POST" /\ \E reason : Reject(c, 404, reason)
  BY <1>1, <1>3, AnswerTold DEF Reject
<1>4. CASE /\ req[c].method # "POST" /\ req[c].name \in Exposures
           /\ \E reason : Respond(c, 404, reason)
  BY <1>1, <1>4, AnswerTold DEF Respond
<1>5. CASE /\ req[c].name \in Exposures /\ req[c].resolved
           /\ AllowsClient(req[c].name, c) /\ Proceed(c, "auth")
  BY <1>1, <1>5, ProceedTold DEF Outside
<1> QED
  BY <1>2, <1>3, <1>4, <1>5 DEF Screen

\* Authenticate answers only requests that Screen let through.
LEMMA AuthenticateTold ==
    ASSUME IInv, ToldInv, NEW c \in Clients, Authenticate(c)
    PROVE  ToldInv'
<1>1. req' = req /\ pc[c] = "auth" /\ req[c].name \in Exposures /\ ~Outside(c)
  BY DEF Authenticate, IInv, RequestInv, ToldInv, Told
<1>2. CASE \E status \in {401, 503} : \E reason : Respond(c, status, reason)
  BY <1>1, <1>2, AnswerTold DEF Respond, IInv
<1>3. CASE Proceed(c, "serve")
  BY <1>1, <1>3, ProceedTold DEF IInv
<1> QED
  BY <1>2, <1>3 DEF Authenticate

\* Serve answers only requests that were authenticated.
LEMMA ServeTold ==
    ASSUME IInv, ToldInv, NEW c \in Clients, Serve(c)
    PROVE  ToldInv'
<1>1. req' = req /\ pc[c] = "serve" /\ req[c].name \in Exposures /\ ~Outside(c)
  BY DEF Serve, IInv, RequestInv, ToldInv, Told
<1>2. \E status \in {200, 304, 503} : \E reason : Respond(c, status, reason)
  BY DEF Serve, Refuse, writeBody
<1> QED
  BY <1>1, <1>2, AnswerTold DEF Respond, IInv

\* A panic is answered with 500, whatever the request asks for.
LEMMA PanicTold ==
    ASSUME Types, ToldInv, NEW c \in Clients, Panic(c)
    PROVE  ToldInv'
<1>1. req' = req
  BY DEF Panic
<1>2. PICK name \in Exposures \cup {NoRoute} : Answer(c, name, 500, "internal_error")
  BY DEF Panic, Respond, Reject
<1> QED
  BY <1>1, <1>2, AnswerTold

\* Every step preserves ToldInv.
LEMMA ToldStep ==
    ASSUME IInv, ToldInv, [Next]_vars
    PROVE  ToldInv'
<1>1. CASE UNCHANGED <<pc, req, outcome>>
  BY <1>1, StaysTold DEF ToldInv
<1>2. ASSUME NEW c \in Clients, Receive(c) \/ Handle(c) \/ Panic(c) PROVE ToldInv'
  BY <1>2, ReceiveTold, ScreenTold, AuthenticateTold, ServeTold, PanicTold DEF Handle, IInv
<1> QED
  BY <1>1, <1>2 DEF Next, Change, Observe, vars

\* What c is told is as it should be, throughout.
LEMMA ToldInvariance == Spec => []ToldInv
<1>1. Init => ToldInv
  BY DEF Init, ToldInv, Told, Pending
<1> QED
  BY <1>1, ToldStep, Invariance, PTL DEF Spec

(***************************************************************************)
(* "From outside an allow-list, an existing exposure is indistinguishable  *)
(* from a name that does not exist" (server.go), for any configuration and *)
(* any state of the Secrets: two requests with one method, each for a name *)
(* that does not exist or from an address that is not allowed or cannot be *)
(* resolved, have the same status.                                         *)
(***************************************************************************)
THEOREM OutsideAllIsAlike == Spec => []Indistinguishable
<1>1. ToldInv => Indistinguishable
  BY DEF ToldInv, Told, Indistinguishable
<1> QED
  BY <1>1, ToldInvariance, PTL

-----------------------------------------------------------------------------
(* Types and conditional requests.                                         *)

\* Every snapshot is of a version that exists or of none; the tag of a copy is a
\* pair.
CopyInv ==
    /\ \A r \in Refs : cache[r].rv \in 0..Latest(r)
    /\ \A c \in Clients : copy[c].name \in Exposures =>
         copy[c].tag = <<copy[c].tag[1], copy[c].tag[2]>>

\* Every step preserves CopyInv.
LEMMA CopyStep ==
    ASSUME IInv, CopyInv, [Next]_vars
    PROVE  CopyInv'
<1>1. \A r \in Refs : cache'[r].rv \in 0..Latest(r)'
  <2>1. CASE UNCHANGED <<hist, cache>>
    BY <2>1 DEF CopyInv, Latest
  <2>2. ASSUME NEW q \in Refs, Change(q) PROVE \A r \in Refs : cache'[r].rv \in 0..Latest(r)'
    <3>1. PICK x \in BOOLEAN : hist' = [hist EXCEPT ![q] = Append(@, x)]
      BY <2>2 DEF Change, AChange
    <3>2. \A r \in Refs : Len(hist'[r]) \in Nat /\ Len(hist'[r]) >= Len(hist[r])
      BY <3>1 DEF IInv, Types
    <3>3. cache' = cache
      BY <2>2 DEF Change, AChange
    <3> QED
      BY <3>2, <3>3 DEF CopyInv, Latest, IInv, Types
  <2>3. ASSUME NEW q \in Refs, Observe(q) PROVE \A r \in Refs : cache'[r].rv \in 0..Latest(r)'
    <3>1. PICK v \in 1..Len(hist[q]) : cache' = [cache EXCEPT ![q] = View(q, v)]
      BY <2>3 DEF Observe, AObserve, Latest
    <3>2. View(q, v).rv \in 0..Len(hist[q])
      BY DEF View, IInv, Types
    <3>3. hist' = hist
      BY <2>3 DEF Observe, AObserve
    <3> QED
      BY <3>1, <3>2, <3>3 DEF CopyInv, Latest, IInv, Types
  <2> QED
    BY <2>1, <2>2, <2>3
    DEF Next, Receive, Handle, Screen, Authenticate, Serve, Panic, vars
<1>2. ASSUME NEW c \in Clients, copy'[c].name \in Exposures
      PROVE  copy'[c].tag = <<copy'[c].tag[1], copy'[c].tag[2]>>
  <2>1. CASE copy'[c] = copy[c]
    BY <1>2, <2>1 DEF CopyInv
  <2>2. ASSUME NEW d \in Clients, Serve(d), copy'[c] # copy[c]
        PROVE  copy'[c].tag = <<copy'[c].tag[1], copy'[c].tag[2]>>
    <3>1. PICK e, v : copy' = [copy EXCEPT ![d] = [name |-> e, tag |-> ETag(e, v)]]
      BY <2>2 DEF Serve, Refuse, writeBody
    <3>2. copy'[c].tag = ETag(e, v)
      BY <2>2, <3>1 DEF IInv, Types
    <3> QED
      BY <3>2 DEF ETag
  <2> QED
    BY <2>1, <2>2
    DEF Next, Change, Observe, Receive, Handle, Screen, Authenticate, Panic, vars
<1> QED
  BY <1>1, <1>2 DEF CopyInv

\* CopyInv is an invariant.
LEMMA CopyInvariance == Spec => []CopyInv
<1>1. Init => CopyInv
  <2> SUFFICES ASSUME Init PROVE CopyInv
    OBVIOUS
  <2>1. \A r \in Refs : cache[r].rv = 0 /\ Latest(r) \in Nat
    <3>1. hist \in [Refs -> Seq(BOOLEAN)]
      BY InitIInv DEF IInv, Types
    <3>2. \A r \in Refs : cache[r].rv = 0
      BY DEF Init, AInit, Unsynced
    <3>3. \A r \in Refs : Latest(r) \in Nat
      BY <3>1 DEF Latest
    <3> QED
      BY <3>2, <3>3
  <2> QED
    BY <2>1, DeliveryAssumption DEF CopyInv, Init, Nothing
<1> QED
  BY <1>1, CopyStep, Invariance, PTL DEF Spec

\* Every variable stays in its range, and a request that goes on has no answer yet.
THEOREM TypeCorrect == Spec => []TypeOK
<1>1. IInv /\ ToldInv /\ CopyInv => TypeOK
  BY DEF IInv, Types, RequestInv, ToldInv, Told, CopyInv, TypeOK, Latest
<1> QED
  BY <1>1, Invariance, ToldInvariance, CopyInvariance, PTL

\* Only the last step of Serve delivers.
LEMMA DeliversServes ==
    ASSUME IInv, [Next]_vars, NEW c \in Clients, Delivers(c)
    PROVE  Serve(c)
<1>1. pc' # pc
  BY DEF Delivers
<1>2. ASSUME NEW d \in Clients, Receive(d) PROVE FALSE
  BY <1>2 DEF Receive, Delivers, IInv, Types
<1>3. ASSUME NEW d \in Clients, Screen(d) \/ Authenticate(d) \/ Panic(d) PROVE FALSE
  BY <1>3, ScreenStep, AuthenticateStep, PanicStep DEF Silent
<1>4. ASSUME NEW d \in Clients, Serve(d) PROVE d = c
  <2>1. PICK status, reason : Answer(d, req[d].name, status, reason)
    BY <1>4 DEF Serve, Refuse, writeBody, Respond
  <2> QED
    BY <2>1 DEF Answer, Delivers, IInv, Types
<1> QED
  BY <1>1, <1>2, <1>3, <1>4 DEF Next, Change, Observe, Handle, vars

(***************************************************************************)
(* "the tag changes exactly when any configured key changes" (server.go),  *)
(* within one incarnation of the Secret: a client that sends the tag of    *)
(* its copy gets a body if and only if the exposed values are no longer    *)
(* those of the copy, whatever was rotated meanwhile.                      *)
(***************************************************************************)
THEOREM BodyOnlyIfChanged == Spec => ConditionalExact
<1> DEFINE Exact(c) ==
        LET e == req[c].name  s == Source[e]
            same == copy[c].tag[2] = exposureBody(Data(s), Keys[e])
        IN  /\ outcome'[c].status = 304 => same
            /\ same /\ outcome'[c].status = 200 => copy[c].tag[1] # UID(s, cache[s].rv)
<1>1. ASSUME IInv, CopyInv, [Next]_vars, NEW c \in Clients, Delivers(c),
             req[c].cond = "held"
      PROVE  Exact(c)
  <2> DEFINE e == req[c].name
             s == Source[e]
             v == cache[s].rv
  <2>1. pc[c] = "serve" /\ e \in Exposures /\ copy[c].name = e
    BY <1>1, DeliversServes DEF Serve, IInv, RequestInv
  <2>2. \A reason : Respond(c, 503, reason) => FALSE
    BY <1>1 DEF Respond, Answer, Delivers, IInv, Types
  <2>3. writeBody(c, e, v)
    BY <1>1, <2>2, DeliversServes DEF Serve, Refuse
  <2>4. copy[c].tag = <<copy[c].tag[1], copy[c].tag[2]>>
    BY <1>1, <2>1 DEF CopyInv
  <2>5. ETag(e, v) = <<UID(s, v), exposureBody(Data(s), Keys[e])>>
    BY DEF ETag, Data
  <2>6. CASE etagMatches(c, ETag(e, v))
    <3>1. outcome'[c].status = 304
      BY <1>1, <2>3, <2>6 DEF writeBody, Respond, Answer, IInv, Types
    <3>2. copy[c].tag = ETag(e, v)
      BY <1>1, <2>6 DEF etagMatches
    <3> QED
      BY <2>5, <3>1, <3>2
  <2>7. CASE ~etagMatches(c, ETag(e, v))
    <3>1. outcome'[c].status = 200
      BY <1>1, <2>3, <2>7 DEF writeBody, Respond, Answer, IInv, Types
    <3>2. copy[c].tag # ETag(e, v)
      BY <1>1, <2>7 DEF etagMatches
    <3> QED
      BY <2>4, <2>5, <3>1, <3>2
  <2> QED
    BY <2>6, <2>7
<1>2. IInv /\ CopyInv /\ [Next]_vars =>
        [\A c \in Clients : Delivers(c) /\ req[c].cond = "held" => Exact(c)]_vars
  BY <1>1
<1> QED
  BY <1>2, Invariance, CopyInvariance, PTL DEF Spec, ConditionalExact
=============================================================================
