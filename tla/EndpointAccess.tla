--------------------------- MODULE EndpointAccess ---------------------------
(***************************************************************************)
(* Who is served: the data plane's authentication of a live endpoint       *)
(* (backend/app/services/data.py) while administrators change the auth     *)
(* methods (services/auth_method.py), the endpoint (services/endpoint.py)  *)
(* and its Oracle connection (services/connection.py) under it.            *)
(*                                                                         *)
(* An auth method keeps its credentials in one JSON column, config_json:   *)
(* here [secret, label], the signing secret and expire_minutes of a bearer *)
(* method, the password and username of a basic one, the key of an api_key *)
(* one.  PUT and rotate read the row, change a copy of the config and      *)
(* write it back whole; of the other columns they write those that differ  *)
(* (RowSession).  A request's flush locks the row until its commit and     *)
(* nothing it awaits in between reads or writes anything else, so the      *)
(* write is one step, the commit; what is split is the read before it.     *)
(*                                                                         *)
(* Every secret is generated once and is a number here.  Hashing, signing, *)
(* token expiry (a refusal more) and the snapshot strategy (SnapshotServe) *)
(* are left out.                                                           *)
(***************************************************************************)
EXTENDS Naturals, FiniteSets, RowSession

CONSTANTS
    AdminToken,       \* a valid token of the platform administrator
    Methods,          \* ids of auth method rows, each used once
    Labels,           \* values of expire_minutes or username
    Admins,           \* admin requests that may be in flight together
    Clients,          \* data requests that may be in flight together
    MethodRows,       \* the rows POST /auth may create, without a secret
    MethodUpdates,    \* payloads of PUT /auth/{id}: column -> value
    EndpointRows,     \* the endpoint rows the administrator starts from
    EndpointUpdates,  \* payloads of PUT /endpoints/{id}
    MaxRequests,      \* bound: admin requests sent
    MaxSecrets        \* bound: secrets generated

Kinds == {"bearer", "basic", "api_key"}
NewMethods == [kind : Kinds, active : BOOLEAN, label : Labels]
MethodTable == [kind : Kinds, active : BOOLEAN, label : Labels, secret : Nat]
EndpointTable == [active : BOOLEAN, method : Methods \cup {None}, fallback : BOOLEAN]

(* An endpoint row keeps an authentication path: a method of its own, or the *)
(* platform administrator's token.                                           *)
HasPath(row) == row.method # None \/ row.fallback

PartOf(changes, table) ==
    \E row \in table :
        DOMAIN changes \subseteq DOMAIN row /\ \A c \in DOMAIN changes : changes[c] = row[c]

ASSUME IdsAssumption ==
    /\ None \notin Methods /\ None \notin Labels /\ AdminToken # None
    /\ None \notin EndpointTable /\ None \notin MethodTable
    /\ AdminToken \notin [method : Methods, secret : Nat, label : Labels]
    /\ None \notin [method : Methods, secret : Nat, label : Labels]
ASSUME AccessRowsAssumption ==
    /\ MethodRows \subseteq NewMethods
    /\ \A u \in MethodUpdates : DOMAIN u \subseteq {"active", "label"} /\ PartOf(u, NewMethods)
    /\ EndpointRows \subseteq EndpointTable
    /\ \A row \in EndpointRows : row.method = None /\ row.fallback
    /\ \A u \in EndpointUpdates : PartOf(u, EndpointTable)
ASSUME AccessBoundsAssumption == MaxRequests \in Nat /\ MaxSecrets \in Nat

VARIABLES
    methods,     \* the committed auth_methods rows, None before and after their life
    retired,     \* ids already used
    endpoint,    \* the committed endpoints row, None once it is deleted
    connection,  \* is_active of its connections row, None once that is deleted
    admin,       \* what the session of each admin request holds
    client,      \* where each data request is and what it holds
    handed,      \* the credentials the administrators were given
    secrets,     \* secrets generated (bounded by MaxSecrets)
    sent,        \* admin requests sent (bounded by MaxRequests)
    revoked,     \* history: secrets replaced by a rotation or a new password
    undone,      \* history: those a session had read and was about to write back
    pathLost     \* history: the endpoint's path was taken from under it

tables == <<methods, retired, endpoint, connection>>
history == <<revoked, undone, pathLost>>
vars == <<methods, retired, endpoint, connection, admin, client, handed, secrets, sent,
          revoked, undone, pathLost>>

-----------------------------------------------------------------------------
(***************************************************************************)
(* Sessions and credentials.                                               *)
(***************************************************************************)
(* Mutant: a change inside the JSON document goes unnoticed. *)
WritesConfigInPlace(q) == FALSE

(* The UPDATE of an auth method: config_json is one column. *)
ConfigColumns == {"secret", "label"}
WritesConfig(q) == \E c \in ConfigColumns : Overlay(q.set, q.read)[c] # q.read[c]

(* Mutant: is_active is written as it was loaded. *)
MergedMethodActiveToo(q, row) ==
    [c \in DOMAIN row |->
        IF c \in ConfigColumns /\ ~WritesConfig(q) THEN row[c] ELSE Overlay(q.set, q.read)[c]]

MergedMethod(q, row) ==
    [c \in DOMAIN row |->
        IF c \notin ConfigColumns THEN Merged(q, row)[c]
        ELSE IF WritesConfig(q) THEN Overlay(q.set, q.read)[c] ELSE row[c]]

Credential(m, row) == [method |-> m, secret |-> row.secret, label |-> row.label]

(* A session that is about to write back the secret s of method m. *)
Rewrites(q, m, s) ==
    /\ q.op = "method" /\ q.id = m /\ q.read.secret = s
    /\ "secret" \notin DOMAIN q.set /\ WritesConfig(q)

Waiting == [at |-> "idle", cred |-> None, ep |-> None, by |-> None, status |-> 0,
            stale |-> FALSE, shut |-> {}]

Init ==
    /\ methods = [m \in Methods |-> None] /\ retired = {}
    /\ endpoint \in EndpointRows /\ connection \in BOOLEAN
    /\ admin = [a \in Admins |-> Idle]
    /\ client = [c \in Clients |-> Waiting]
    /\ handed = {} /\ secrets = 0 /\ sent = 0
    /\ revoked = {} /\ undone = {} /\ pathLost = FALSE

-----------------------------------------------------------------------------
(***************************************************************************)
(* Administration.                                                         *)
(***************************************************************************)
Send == sent < MaxRequests /\ sent' = sent + 1

(* A method that is activated, or created active, is open to requests that   *)
(* arrived while it was not.                                                 *)
Reopen(m, row) ==
    client' = IF row.active
              THEN [c \in Clients |-> [client[c] EXCEPT !.shut = @ \ {m}]]
              ELSE client

(* create_auth_method: a password or key is handed out with the row. *)
CreateMethod(m) ==
    /\ Send
    /\ m \notin retired /\ secrets < MaxSecrets
    /\ \E new \in MethodRows :
          LET row == [kind |-> new.kind, active |-> new.active, label |-> new.label,
                      secret |-> secrets + 1]
          IN  /\ methods' = [methods EXCEPT ![m] = row]
              /\ handed' = IF row.kind = "bearer" THEN handed
                           ELSE handed \cup {Credential(m, row)}
              /\ Reopen(m, row)
    /\ retired' = retired \cup {m} /\ secrets' = secrets + 1
    /\ UNCHANGED <<endpoint, connection, admin, history>>

(* issue_token: signed with the secret it read; an inactive method signs too. *)
IssueToken(m) ==
    /\ methods[m] # None /\ methods[m].kind = "bearer"
    /\ handed' = handed \cup {Credential(m, methods[m])}
    /\ UNCHANGED <<tables, admin, client, secrets, sent, history>>

(* update_auth_method reads the row; expire_minutes and username are the     *)
(* labels, which an api_key method does not have.                            *)
ReadForUpdate(a, m) ==
    /\ Send
    /\ admin[a].op = "idle" /\ methods[m] # None
    /\ \E u \in MethodUpdates :
          /\ methods[m].kind = "api_key" => "label" \notin DOMAIN u
          /\ admin' = [admin EXCEPT ![a] = Session("method", m, u, methods[m])]
    /\ UNCHANGED <<tables, client, handed, secrets, history>>

(* rotate_credentials, or a PUT with a new password, reads the row. *)
ReadForRotation(a, m) ==
    /\ Send
    /\ admin[a].op = "idle" /\ methods[m] # None /\ secrets < MaxSecrets
    /\ secrets' = secrets + 1
    /\ admin' = [admin EXCEPT
                    ![a] = Session("method", m, [c \in {"secret"} |-> secrets + 1], methods[m])]
    /\ UNCHANGED <<tables, client, handed, history>>

(* The UPDATE and the commit; a row that is gone is an error.  The new       *)
(* password or key is known from here on.                                    *)
WriteMethod(a) ==
    LET q == admin[a]
        row == methods[q.id]
        new == MergedMethod(q, row)
    IN  /\ q.op = "method"
        /\ admin' = [admin EXCEPT ![a] = Idle]
        /\ IF row = None THEN UNCHANGED <<methods, handed, client, revoked, undone>>
           ELSE /\ methods' = [methods EXCEPT ![q.id] = new]
                /\ handed' = IF row.kind = "bearer" THEN handed
                             ELSE handed \cup {Credential(q.id, new)}
                /\ Reopen(q.id, Overlay(q.set, [active |-> FALSE]))
                /\ IF "secret" \in DOMAIN q.set
                   THEN /\ revoked' = revoked \cup {row.secret}
                        /\ undone' = IF \E b \in Admins \ {a} : Rewrites(admin[b], q.id, row.secret)
                                     THEN undone \cup {row.secret} ELSE undone
                   ELSE UNCHANGED <<revoked, undone>>
        /\ UNCHANGED <<retired, endpoint, connection, secrets, sent, pathLost>>

(* Mutant: the foreign key of the endpoint is left dangling. *)
DeleteMethodDangling(m) ==
    /\ Send
    /\ methods[m] # None /\ methods' = [methods EXCEPT ![m] = None]
    /\ UNCHANGED <<retired, endpoint, connection, admin, client, handed, secrets, history>>

(* delete_auth_method; the foreign key of the endpoint is set to NULL. *)
DeleteMethod(m) ==
    /\ Send
    /\ methods[m] # None /\ methods' = [methods EXCEPT ![m] = None]
    /\ IF endpoint # None /\ endpoint.method = m
       THEN /\ endpoint' = [endpoint EXCEPT !.method = None]
            /\ pathLost' = (pathLost \/ ~endpoint.fallback)
       ELSE UNCHANGED <<endpoint, pathLost>>
    /\ UNCHANGED <<retired, connection, admin, client, handed, secrets, revoked, undone>>

(* Mutant: the payload alone is looked at. *)
KeepsPathOfPayload(u, row) ==
    {"method", "fallback"} \subseteq DOMAIN u => u.method # None \/ u.fallback

(* update_endpoint's rule on the row it would make. *)
KeepsPath(u, row) == HasPath(Overlay(u, row))

ReadEndpoint(a) ==
    /\ Send
    /\ admin[a].op = "idle" /\ endpoint # None
    /\ \E u \in EndpointUpdates :
          /\ KeepsPath(u, endpoint)
          /\ admin' = [admin EXCEPT ![a] = Session("endpoint", None, u, endpoint)]
    /\ UNCHANGED <<tables, client, handed, secrets, history>>

(* The UPDATE and the commit; a row that is gone and a method that is gone   *)
(* are errors.                                                               *)
WriteEndpoint(a) ==
    LET q == admin[a]
        new == Merged(q, endpoint)
    IN  /\ q.op = "endpoint"
        /\ admin' = [admin EXCEPT ![a] = Idle]
        /\ IF \/ endpoint = None
              \/ new.method # endpoint.method /\ new.method # None /\ methods[new.method] = None
           THEN UNCHANGED <<endpoint, pathLost>>
           ELSE endpoint' = new /\ pathLost' = (q.read # endpoint)
        /\ UNCHANGED <<methods, retired, connection, client, handed, secrets, sent,
                       revoked, undone>>

DeleteEndpoint ==
    /\ Send
    /\ endpoint # None /\ endpoint' = None
    /\ UNCHANGED <<methods, retired, connection, admin, client, handed, secrets, history>>

(* update_connection of is_active. *)
UpdateConnection ==
    /\ Send
    /\ connection # None /\ connection' = ~connection
    /\ UNCHANGED <<methods, retired, endpoint, admin, client, handed, secrets, history>>

(* delete_connection; an endpoint that references it forbids it. *)
DeleteConnection ==
    /\ Send
    /\ connection # None /\ endpoint = None /\ connection' = None
    /\ UNCHANGED <<methods, retired, endpoint, admin, client, handed, secrets, history>>

-----------------------------------------------------------------------------
(***************************************************************************)
(* A data request.                                                         *)
(***************************************************************************)
Closed(m) == methods[m] = None \/ ~methods[m].active

Goto(c, step) == client' = [client EXCEPT ![c].at = step]
Answer(c, status) == client' = [client EXCEPT ![c].at = "idle", ![c].status = status]
Grant(c, method) == client' = [client EXCEPT ![c].at = "granted", ![c].by = method]

(* A request arrives with a credential, the administrator's token or none.   *)
(* It keeps, for the properties, whether its secret had been replaced for    *)
(* good and which methods were closed.                                       *)
Receive(c) ==
    /\ client[c].at = "idle"
    /\ \E cred \in handed \cup {AdminToken, None} :
          client' = [client EXCEPT ![c] =
              [Waiting EXCEPT !.at = "resolve", !.cred = cred,
                              !.stale = cred \in handed /\ cred.secret \in revoked \ undone,
                              !.shut = {m \in Methods : Closed(m)}]]
    /\ UNCHANGED <<tables, admin, handed, secrets, sent, history>>

(* _resolve_endpoint, and the choice of the authentication. *)
Resolve(c) ==
    /\ client[c].at = "resolve"
    /\ IF endpoint = None \/ ~endpoint.active THEN Answer(c, 404)
       ELSE IF endpoint.method # None
       THEN client' = [client EXCEPT ![c].ep = endpoint, ![c].at = "dispatch"]
       ELSE IF endpoint.fallback /\ client[c].cred = AdminToken
       THEN client' = [client EXCEPT ![c].ep = endpoint, ![c].at = "granted"]
       ELSE Answer(c, 401)
    /\ UNCHANGED <<tables, admin, handed, secrets, sent, history>>

(* Mutant: an unavailable method falls back to the administrator's token. *)
DispatchFallsBack(c) ==
    LET m == client[c].ep.method
    IN  /\ client[c].at = "dispatch"
        /\ IF Closed(m)
           THEN IF client[c].cred = AdminToken THEN Grant(c, m) ELSE Answer(c, 401)
           ELSE IF client[c].cred = None THEN Answer(c, 401)
           ELSE Goto(c, "verify")
        /\ UNCHANGED <<tables, admin, handed, secrets, sent, history>>

(* _enforce_auth: the first read of the method. *)
Dispatch(c) ==
    LET m == client[c].ep.method
    IN  /\ client[c].at = "dispatch"
        /\ IF Closed(m) \/ client[c].cred = None THEN Answer(c, 401) ELSE Goto(c, "verify")
        /\ UNCHANGED <<tables, admin, handed, secrets, sent, history>>

(* verify_bearer, verify_basic, verify_api_key: of the three kinds only a    *)
(* basic credential carries its label.                                       *)
Verifies(row, cred) ==
    /\ cred \in handed /\ cred.secret = row.secret
    /\ row.kind = "basic" => cred.label = row.label

(* Mutant: a credential is taken for what it was signed with. *)
VerifyOld(c) ==
    LET m == client[c].ep.method
    IN  /\ client[c].at = "verify"
        /\ IF methods[m] # None /\ client[c].cred \in handed /\ client[c].cred.method = m
           THEN Grant(c, m) ELSE Answer(c, 401)
        /\ UNCHANGED <<tables, admin, handed, secrets, sent, history>>

(* The second read: the session does not keep the row of the first one. *)
Verify(c) ==
    LET m == client[c].ep.method
    IN  /\ client[c].at = "verify"
        /\ IF methods[m] # None /\ Verifies(methods[m], client[c].cred)
           THEN Grant(c, m) ELSE Answer(c, 401)
        /\ UNCHANGED <<tables, admin, handed, secrets, sent, history>>

(* _serve_live: parameters that do not coerce (422), a connection that is    *)
(* gone or inactive (503), a query that fails (500) or is answered (200).    *)
Serve(c) ==
    /\ client[c].at = "granted"
    /\ \/ Answer(c, 422)
       \/ /\ connection # TRUE
          /\ Answer(c, 503)
       \/ /\ connection = TRUE
          /\ \E status \in {200, 500} : Answer(c, status)
    /\ UNCHANGED <<tables, admin, handed, secrets, sent, history>>

Administer ==
    \/ \E m \in Methods : CreateMethod(m) \/ IssueToken(m) \/ DeleteMethod(m)
    \/ \E a \in Admins, m \in Methods : ReadForUpdate(a, m) \/ ReadForRotation(a, m)
    \/ \E a \in Admins : WriteMethod(a) \/ ReadEndpoint(a) \/ WriteEndpoint(a)
    \/ DeleteEndpoint \/ UpdateConnection \/ DeleteConnection

Request(c) == Receive(c) \/ Resolve(c) \/ Dispatch(c) \/ Verify(c) \/ Serve(c)

Next == Administer \/ \E c \in Clients : Request(c)

Spec == Init /\ [][Next]_vars

-----------------------------------------------------------------------------
(***************************************************************************)
(* Properties.                                                             *)
(***************************************************************************)

(* Every row, session and request is well formed: no method row before its   *)
(* id is used, no credential of a secret never generated, and an endpoint's  *)
(* auth_method_id names an existing row (ON DELETE SET NULL).                *)
TypeOK ==
    /\ methods \in [Methods -> MethodTable \cup {None}]
    /\ retired \subseteq Methods /\ \A m \in Methods : methods[m] # None => m \in retired
    /\ endpoint \in EndpointTable \cup {None} /\ connection \in BOOLEAN \cup {None}
    /\ endpoint # None /\ endpoint.method # None => methods[endpoint.method] # None
    /\ handed \subseteq [method : retired, secret : 1..secrets, label : Labels]
    /\ secrets \in 0..MaxSecrets /\ sent \in 0..MaxRequests
    /\ undone \subseteq revoked /\ revoked \subseteq 1..secrets
    /\ pathLost \in BOOLEAN
    /\ \A a \in Admins : admin[a].op \in {"idle", "method", "endpoint"}
    /\ \A c \in Clients : client[c].at \in {"idle", "resolve", "dispatch", "verify", "granted"}

(* The data plane never serves anonymous requests: what is let through       *)
(* carries a credential handed out for the very method the endpoint names,   *)
(* or the administrator's token on an endpoint that names none and opted in, *)
(* whatever happened to the method or the endpoint while the request was     *)
(* being authenticated (models/endpoint.py:56-58).                           *)
GrantHasProof ==
    \A c \in Clients : client[c].at = "granted" =>
        IF client[c].by = None
        THEN client[c].cred = AdminToken /\ client[c].ep.method = None /\ client[c].ep.fallback
        ELSE /\ client[c].cred \in handed /\ client[c].cred.method = client[c].by
             /\ client[c].ep.method = client[c].by

(* A request that arrives after a rotation or a new password is refused with *)
(* what it replaced ("All previously issued tokens are now invalid"), unless *)
(* another PUT of the method was between its read and its write when the     *)
(* rotation was committed.                                                   *)
RevokedIsRefused ==
    \A c \in Clients : client[c].at = "granted" => ~client[c].stale

(* A request that arrives while a method is inactive or gone is not let      *)
(* through by it, unless a PUT that asks for is_active came in between: no   *)
(* concurrent PUT of other fields and no rotation undoes a deactivation.     *)
InactiveIsRefused ==
    \A c \in Clients : client[c].at = "granted" => client[c].by \notin client[c].shut

(* A key an api_key method has replaced never works again, whatever runs     *)
(* concurrently: no PUT writes its config.                                   *)
KeyRotationIsFinal ==
    \A m \in Methods : methods[m] # None /\ methods[m].kind = "api_key"
                           => methods[m].secret \notin revoked

(* "Always preserve an authentication path in the merged state": an endpoint *)
(* has none only if its method was deleted or if a PUT of it was committed    *)
(* over a row that had changed since it was read.                            *)
PathIsKept == endpoint # None /\ ~HasPath(endpoint) => pathLost

(* "Token and API-key rotation invalidates all previously issued             *)
(* credentials" (SECURITY.md:87): the secret a rotation replaced is not the  *)
(* method's again.                                                           *)
RotationIsFinal ==
    \A m \in Methods : methods[m] # None => methods[m].secret \notin revoked
=============================================================================
