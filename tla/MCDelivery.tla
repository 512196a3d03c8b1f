------------------------------ MODULE MCDelivery ------------------------------
(* Delivery with one exposure of one key, authenticated by another Secret.    *)
EXTENDS Delivery

MCRefs      == {"src", "auth"}
MCExposures == {"exp"}
MCSource    == [e \in MCExposures |-> "src"]
MCAuthRef   == [e \in MCExposures |-> "auth"]
MCKeys      == [e \in MCExposures |-> {"key"}]
MCCredentials == {<<"u", "p">>, <<"u", "q">>}
Login(p)    == [username |-> "u", password |-> p]

(* delivery_order: the exposed value changes, or only a key that is not exposed. *)
OrderPayloads ==
    [src  |-> {[key |-> "x", other |-> "1"], [key |-> "x", other |-> "2"],
               [key |-> "y", other |-> "1"]},
     auth |-> {Login("p")}]
OrderVersions == [src |-> 3, auth |-> 1]
OrderRequests ==
    {q \in Request : /\ q.method = "GET" /\ q.name = "exp" /\ q.resolved
                     /\ q.creds = <<"u", "p">> /\ q.cond # "any"}

(* delivery_access: the credentials are replaced by an empty password or       *)
(* deleted, the exposed key may be missing, and one of two clients is outside   *)
(* the allow-list.                                                              *)
AccessPayloads ==
    [src  |-> {[key |-> "x"], [other |-> "x"]},
     auth |-> {Login("p"), Login("empty")}]
AccessVersions == [src |-> 1, auth |-> 2]
AccessRequests ==
    {q \in Request :
        /\ q.creds # <<"u", "q">>
        /\ q.creds = NoCredentials => q.name = "exp" /\ q.resolved /\ q.method = "GET"
        /\ q.method # "GET" => q.name = "exp" /\ q.resolved
        /\ q.name # "exp" => q.resolved
        /\ q.cond = IF q.method = "HEAD" THEN "any" ELSE "none"}

AllAllowed == [e \in MCExposures |-> Clients]
OneAllowed == [e \in MCExposures |-> {CHOOSE c \in Clients : TRUE}]
=============================================================================
