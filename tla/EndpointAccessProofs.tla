------------------------ MODULE EndpointAccessProofs ------------------------
(***************************************************************************)
(* Proofs about EndpointAccess, for any number of methods, administrators  *)
(* and requests, any payloads and any bounds: what is let through has      *)
(* proof, replaced credentials and closed methods are refused, the         *)
(* endpoint keeps an authentication path.                                  *)
(***************************************************************************)
EXTENDS EndpointAccess, TLAPS

-----------------------------------------------------------------------------
(***************************************************************************)
(* The inductive invariant.  A PUT writes back a config it read earlier,   *)
(* so what the properties say of the rows needs what each session still    *)
(* holds of them: which secrets, of which method, and whether a rotation   *)
(* committed meanwhile has counted the secret as undone.                   *)
(***************************************************************************)
Secrets == 1 .. secrets

(* The sessions. *)
Payload(set) == DOMAIN set \subseteq {"active", "label"} /\ PartOf(set, NewMethods)
Rotates(q) == q.op = "method" /\ "secret" \in DOMAIN q.set

MethodSession(q) ==
    /\ q = Session("method", q.id, q.set, q.read)
    /\ q.id \in retired
    /\ q.read \in MethodTable /\ q.read.secret \in Secrets
    /\ \/ Payload(q.set) /\ (q.read.kind = "api_key" => "label" \notin DOMAIN q.set)
       \/ DOMAIN q.set = {"secret"} /\ q.set.secret \in Secrets

EndpointSession(q) ==
    /\ q = Session("endpoint", None, q.set, q.read)
    /\ q.read \in EndpointTable /\ PartOf(q.set, EndpointTable)
    /\ KeepsPath(q.set, q.read)

SessionOK(a) ==
    /\ admin[a].op = "idle" => admin[a] = Idle
    /\ admin[a].op = "method" => MethodSession(admin[a])
    /\ admin[a].op = "endpoint" => EndpointSession(admin[a])

Tables ==
    /\ methods \in [Methods -> MethodTable \cup {None}]
    /\ retired \subseteq Methods
    /\ \A m \in Methods : methods[m] # None => m \in retired /\ methods[m].secret \in Secrets
    /\ endpoint \in EndpointTable \cup {None} /\ connection \in BOOLEAN \cup {None}
    /\ endpoint # None /\ endpoint.method # None => methods[endpoint.method] # None

Counters ==
    /\ handed \subseteq [method : retired, secret : Secrets, label : Labels]
    /\ secrets \in 0..MaxSecrets /\ sent \in 0..MaxRequests
    /\ undone \subseteq revoked /\ revoked \subseteq Secrets
    /\ pathLost \in BOOLEAN

Sessions ==
    /\ DOMAIN admin = Admins
    /\ \A a \in Admins : admin[a].op \in {"idle", "method", "endpoint"} /\ SessionOK(a)

(* A method's kind never changes. *)
KindStays ==
    \A a \in Admins : admin[a].op = "method" /\ methods[admin[a].id] # None
                          => admin[a].read.kind = methods[admin[a].id].kind

(* Every secret is one method's. *)
Holds(m, s) ==
    \/ methods[m] # None /\ methods[m].secret = s
    \/ \E a \in Admins : admin[a].op = "method" /\ admin[a].id = m /\ admin[a].read.secret = s
    \/ \E a \in Admins : Rotates(admin[a]) /\ admin[a].id = m /\ admin[a].set.secret = s
    \/ \E cred \in handed : cred.method = m /\ cred.secret = s
Owned == \A m, n \in Methods : \A s \in Secrets : Holds(m, s) /\ Holds(n, s) => m = n

(* The secret a rotation is about to write is new to all but itself. *)
Fresh(a) ==
    Rotates(admin[a]) =>
        /\ admin[a].set.secret \notin revoked
        /\ \A m \in Methods : methods[m] # None => methods[m].secret # admin[a].set.secret
        /\ \A b \in Admins : admin[b].op = "method" => admin[b].read.secret # admin[a].set.secret
        /\ \A b \in Admins \ {a} : Rotates(admin[b]) => admin[b].set.secret # admin[a].set.secret
Freshness == \A a \in Admins : Fresh(a)

(* A replaced secret is a row's again, or about to be, only as undone. *)
BackIsUndone ==
    /\ \A m \in Methods : methods[m] # None /\ methods[m].secret \in revoked
                              => methods[m].secret \in undone
    /\ \A a \in Admins, m \in Methods, s \in revoked : Rewrites(admin[a], m, s) => s \in undone

RowsInv ==
    /\ Tables /\ Counters /\ Sessions /\ KindStays /\ Owned /\ Freshness
    /\ BackIsUndone /\ KeyRotationIsFinal /\ PathIsKept

(* The requests. *)
Steps == {"idle", "resolve", "dispatch", "verify", "granted"}
Requests == [at : Steps, cred : [method : Methods, secret : Nat, label : Labels] \cup {AdminToken, None},
             ep : EndpointTable \cup {None}, by : Methods \cup {None}, status : Nat,
             stale : BOOLEAN, shut : SUBSET Methods]

RequestOK(c) ==
    /\ client[c].stale => client[c].cred \in handed /\ client[c].cred.secret \in revoked \ undone
    /\ \A m \in client[c].shut : Closed(m)
    /\ client[c].at \in {"resolve", "dispatch", "verify"} => client[c].by = None
    /\ client[c].at \in {"dispatch", "verify"} =>
           client[c].ep \in EndpointTable /\ client[c].ep.method # None
    /\ client[c].at = "verify" => client[c].ep.method \notin client[c].shut

RequestsInv ==
    /\ client \in [Clients -> Requests]
    /\ \A c \in Clients : RequestOK(c)
    /\ GrantHasProof /\ RevokedIsRefused /\ InactiveIsRefused

IInv == RowsInv /\ RequestsInv

-----------------------------------------------------------------------------
(***************************************************************************)
(* What an UPDATE makes of a row.                                          *)
(***************************************************************************)

(* The row of a PUT or a rotation is a row of its kind; config_json is       *)
(* written whole or not at all, is_active only by a PUT that asks for it.    *)
LEMMA MethodUpdate ==
    ASSUME NEW q, MethodSession(q), NEW row \in MethodTable,
           "secret" \in DOMAIN q.set => q.set.secret # q.read.secret,
           secrets \in Nat
    PROVE  LET new == MergedMethod(q, row)
           IN  /\ new \in MethodTable /\ new.kind = row.kind
               /\ "secret" \in DOMAIN q.set => new.secret = q.set.secret
               /\ "secret" \notin DOMAIN q.set =>
                      new.secret = IF WritesConfig(q) THEN q.read.secret ELSE row.secret
               /\ new.active /\ ~row.active => "active" \in DOMAIN q.set /\ q.set.active
<1> DEFINE made == Overlay(q.set, q.read)
           new == MergedMethod(q, row)
<1>1. DOMAIN q.read = {"kind", "active", "label", "secret"} /\ DOMAIN row = DOMAIN q.read
  BY DEF MethodSession, MethodTable
<1>2. /\ "kind" \notin DOMAIN q.set
      /\ "active" \in DOMAIN q.set => q.set["active"] \in BOOLEAN
      /\ "label" \in DOMAIN q.set => q.set["label"] \in Labels
      /\ "secret" \in DOMAIN q.set => q.set["secret"] \in Nat
  BY DEF MethodSession, Payload, PartOf, NewMethods, Secrets
<1>3. made = [kind |-> q.read.kind,
              active |-> IF "active" \in DOMAIN q.set THEN q.set["active"] ELSE q.read.active,
              label |-> IF "label" \in DOMAIN q.set THEN q.set["label"] ELSE q.read.label,
              secret |-> IF "secret" \in DOMAIN q.set THEN q.set["secret"] ELSE q.read.secret]
  BY <1>1, <1>2 DEF Overlay
<1>4. Merged(q, row) = [kind |-> IF q.read.kind # q.read.kind THEN q.read.kind ELSE row.kind,
                        active |-> IF made.active # q.read.active THEN made.active ELSE row.active,
                        label |-> IF made.label # q.read.label THEN made.label ELSE row.label,
                        secret |-> IF made.secret # q.read.secret THEN made.secret ELSE row.secret]
  BY <1>1, <1>3 DEF Merged
<1>5. new = [kind |-> row.kind,
             active |-> IF made.active # q.read.active THEN made.active ELSE row.active,
             label |-> IF WritesConfig(q) THEN made.label ELSE row.label,
             secret |-> IF WritesConfig(q) THEN made.secret ELSE row.secret]
  <2> HIDE DEF made
  <2>1. DOMAIN new = {"kind", "active", "label", "secret"}
    BY <1>1 DEF MergedMethod
  <2>2. new["kind"] = row.kind /\ new["active"] = Merged(q, row)["active"]
    BY <1>1, <1>4 DEF MergedMethod, ConfigColumns
  <2>3. /\ new["label"] = IF WritesConfig(q) THEN made.label ELSE row.label
        /\ new["secret"] = IF WritesConfig(q) THEN made.secret ELSE row.secret
    BY <1>1 DEF MergedMethod, ConfigColumns, made
  <2>4. new = [c \in {"kind", "active", "label", "secret"} |-> new[c]]
    BY <1>1 DEF MergedMethod
  <2> HIDE DEF new
  <2> QED  BY <1>4, <2>2, <2>3, <2>4
<1>6. "secret" \in DOMAIN q.set => WritesConfig(q)
  BY <1>3 DEF WritesConfig, ConfigColumns
<1>7. made \in MethodTable
  BY <1>2, <1>3 DEF MethodSession, MethodTable
<1>8. new \in MethodTable
  <2> HIDE DEF made
  <2> QED  BY <1>5, <1>7 DEF MethodTable
<1> QED
  <2>1. /\ "secret" \in DOMAIN q.set => made.secret = q.set.secret
        /\ "secret" \notin DOMAIN q.set => made.secret = q.read.secret
        /\ made.active # q.read.active => "active" \in DOMAIN q.set /\ made.active = q.set.active
    BY <1>3
  <2> HIDE DEF made
  <2> QED  BY <1>5, <1>6, <1>8, <2>1

LEMMA EndpointUpdate ==
    ASSUME NEW q, EndpointSession(q), NEW row \in EndpointTable
    PROVE  LET new == Merged(q, row)
           IN  /\ new \in EndpointTable
               /\ q.read = row => HasPath(new)
<1> DEFINE made == Overlay(q.set, q.read)
           new == Merged(q, row)
<1>1. DOMAIN q.read = {"active", "method", "fallback"} /\ DOMAIN row = DOMAIN q.read
  BY DEF EndpointSession, EndpointTable
<1>2. /\ "active" \in DOMAIN q.set => q.set["active"] \in BOOLEAN
      /\ "method" \in DOMAIN q.set => q.set["method"] \in Methods \cup {None}
      /\ "fallback" \in DOMAIN q.set => q.set["fallback"] \in BOOLEAN
  BY DEF EndpointSession, PartOf, EndpointTable
<1>3. made = [active |-> IF "active" \in DOMAIN q.set THEN q.set["active"] ELSE q.read.active,
              method |-> IF "method" \in DOMAIN q.set THEN q.set["method"] ELSE q.read.method,
              fallback |-> IF "fallback" \in DOMAIN q.set THEN q.set["fallback"] ELSE q.read.fallback]
  BY <1>1 DEF Overlay
<1>4. made \in EndpointTable
  BY <1>2, <1>3 DEF EndpointSession, EndpointTable
<1> HIDE DEF made
<1>5. new = [active |-> IF made.active # q.read.active THEN made.active ELSE row.active,
             method |-> IF made.method # q.read.method THEN made.method ELSE row.method,
             fallback |-> IF made.fallback # q.read.fallback THEN made.fallback ELSE row.fallback]
  BY <1>1 DEF Merged, made
<1>6. new \in EndpointTable
  BY <1>4, <1>5 DEF EndpointTable
<1>7. q.read = row => new.method = made.method /\ new.fallback = made.fallback
  BY <1>4, <1>5 DEF EndpointTable
<1>8. HasPath(made)
  BY DEF EndpointSession, KeepsPath, made
<1> QED
  BY <1>6, <1>7, <1>8 DEF HasPath

-----------------------------------------------------------------------------
(***************************************************************************)
(* The administrators' steps, on the rows and the sessions.                *)
(***************************************************************************)
LEMMA Bounded == Tables /\ Counters => MaxSecrets \in Nat /\ secrets \in Nat /\ sent \in Nat
BY AccessBoundsAssumption DEF Tables, Counters

(* What a session or a credential holds was generated. *)
LEMMA HeldIsGenerated ==
    ASSUME RowsInv, NEW m \in Methods, NEW s, Holds(m, s)
    PROVE  s \in Secrets
BY DEF RowsInv, Tables, Counters, Sessions, SessionOK, MethodSession, Payload, Rotates, Holds, Secrets

LEMMA SessionsAreTyped ==
    ASSUME RowsInv, NEW a \in Admins
    PROVE  /\ admin[a].op = "idle" => admin[a] = Idle
           /\ admin[a].op = "method" => MethodSession(admin[a]) /\ admin[a].id \in Methods
           /\ admin[a].op = "endpoint" => EndpointSession(admin[a])
           /\ admin[a].op \in {"idle", "method", "endpoint"}
BY DEF RowsInv, Tables, Sessions, SessionOK, MethodSession

LEMMA NoneIsNoRow == None \notin MethodTable /\ None \notin EndpointTable
BY IdsAssumption

(* A step after which no method holds a secret it did not hold, but one of   *)
(* them the next secret.                                                     *)
LEMMA OwnedStays ==
    ASSUME RowsInv, NEW m0 \in Methods, secrets' \in {secrets, secrets + 1},
           \A m \in Methods : \A s \in Secrets' :
               Holds(m, s)' => Holds(m, s) \/ (m = m0 /\ s = secrets + 1)
    PROVE  Owned'
<1> SUFFICES ASSUME NEW m \in Methods, NEW n \in Methods, NEW s \in Secrets',
                    Holds(m, s)', Holds(n, s)'
             PROVE  m = n
  BY DEF Owned
<1>1. secrets \in Nat
  BY Bounded DEF RowsInv
<1>2. Holds(m, s) \/ Holds(n, s) => s \in Secrets
  BY HeldIsGenerated
<1>3. CASE s = secrets + 1
  BY <1>1, <1>2, <1>3 DEF Secrets
<1>4. CASE s # secrets + 1
  BY <1>2, <1>4 DEF RowsInv, Owned
<1> QED  BY <1>3, <1>4

LEMMA CreateKeepsRows ==
    ASSUME RowsInv, NEW m \in Methods, CreateMethod(m)
    PROVE  RowsInv'
<1>1. PICK new \in MethodRows :
          LET row == [kind |-> new.kind, active |-> new.active, label |-> new.label,
                      secret |-> secrets + 1]
          IN  /\ methods' = [methods EXCEPT ![m] = row]
              /\ handed' = IF row.kind = "bearer" THEN handed
                           ELSE handed \cup {Credential(m, row)}
  BY DEF CreateMethod
<1> DEFINE row == [kind |-> new.kind, active |-> new.active, label |-> new.label,
                   secret |-> secrets + 1]
<1>2. /\ m \notin retired /\ retired' = retired \cup {m}
      /\ secrets < MaxSecrets /\ secrets' = secrets + 1
      /\ UNCHANGED <<endpoint, connection, admin, history>>
      /\ sent < MaxRequests /\ sent' = sent + 1
  BY DEF CreateMethod, Send
<1>3. /\ secrets \in Nat /\ MaxSecrets \in Nat /\ sent \in Nat /\ MaxRequests \in Nat
      /\ Secrets \subseteq Secrets' /\ secrets + 1 \in Secrets' /\ secrets + 1 \notin Secrets
  BY <1>2, Bounded, AccessBoundsAssumption DEF RowsInv, Secrets
<1>4. row \in MethodTable /\ row # None
  BY <1>3, NoneIsNoRow, AccessRowsAssumption DEF MethodTable, NewMethods
<1>5. /\ methods' = [methods EXCEPT ![m] = row] /\ DOMAIN methods = Methods
      /\ handed' \subseteq handed \cup {Credential(m, row)}
      /\ methods'[m] = row /\ \A n \in Methods \ {m} : methods'[n] = methods[n]
  BY <1>1 DEF RowsInv, Tables
<1> HIDE DEF row
<1>6. row.secret = secrets + 1 /\ row.label \in Labels
  BY <1>4 DEF row, MethodTable
<1>7. Tables'
  BY <1>2, <1>3, <1>4, <1>5, <1>6 DEF RowsInv, Tables, history
<1>8. Counters'
  <2>1. Credential(m, row) \in [method : retired', secret : Secrets', label : Labels]
    BY <1>2, <1>3, <1>6 DEF Credential
  <2>2. handed \subseteq [method : retired', secret : Secrets', label : Labels]
    BY <1>2, <1>3 DEF RowsInv, Counters
  <2> QED  BY <1>2, <1>3, <1>5, <2>1, <2>2 DEF RowsInv, Counters, history
<1>9. Sessions'
  BY <1>2, <1>3 DEF RowsInv, Sessions, SessionOK, MethodSession, EndpointSession
<1>10. \A a \in Admins : admin[a].op = "method" => admin[a].id # m
  BY <1>2 DEF RowsInv, Sessions, SessionOK, MethodSession
<1>11. KindStays'
  BY <1>2, <1>5, <1>10, SessionsAreTyped DEF RowsInv, KindStays
<1>12. Owned'
  <2> SUFFICES ASSUME NEW n \in Methods, NEW s \in Secrets', Holds(n, s)'
               PROVE  Holds(n, s) \/ (n = m /\ s = secrets + 1)
    BY <1>2, OwnedStays
  <2> QED  BY <1>2, <1>5, <1>6 DEF Holds, Credential
<1>13. Freshness'
  <2>1. \A a \in Admins : Rotates(admin[a]) => admin[a].set.secret # secrets + 1
    BY <1>3 DEF RowsInv, Sessions, SessionOK, MethodSession, Rotates, Payload
  <2> QED  BY <1>2, <1>5, <1>6, <2>1 DEF RowsInv, Freshness, Fresh, history
<1>14. BackIsUndone'
  <2>1. secrets + 1 \notin revoked
    BY <1>3 DEF RowsInv, Counters
  <2> QED  BY <1>2, <1>5, <1>6, <2>1 DEF RowsInv, BackIsUndone, history
<1>15. KeyRotationIsFinal'
  <2>1. secrets + 1 \notin revoked
    BY <1>3 DEF RowsInv, Counters
  <2> QED  BY <1>2, <1>5, <1>6, <2>1 DEF RowsInv, KeyRotationIsFinal, history
<1>16. PathIsKept'
  BY <1>2 DEF RowsInv, PathIsKept, history
<1> QED
  BY <1>7, <1>8, <1>9, <1>11, <1>12, <1>13, <1>14, <1>15, <1>16 DEF RowsInv

LEMMA IssueKeepsRows ==
    ASSUME RowsInv, NEW m \in Methods, IssueToken(m)
    PROVE  RowsInv'
<1>1. /\ methods[m] # None /\ handed' = handed \cup {Credential(m, methods[m])}
      /\ UNCHANGED <<methods, retired, endpoint, connection, admin, secrets, sent, revoked,
                     undone, pathLost>>
  BY DEF IssueToken, tables, history
<1>2. methods[m] \in MethodTable /\ m \in retired /\ methods[m].secret \in Secrets
  BY <1>1 DEF RowsInv, Tables
<1>3. Credential(m, methods[m]) \in [method : retired, secret : Secrets, label : Labels]
  BY <1>2 DEF Credential, MethodTable
<1>4. Counters'
  BY <1>1, <1>3 DEF RowsInv, Counters, Secrets
<1>5. Owned'
  <2> SUFFICES ASSUME NEW n \in Methods, NEW s \in Secrets', Holds(n, s)'
               PROVE  Holds(n, s)
    BY <1>1, OwnedStays
  <2> QED  BY <1>1 DEF Holds, Credential
<1>6. Tables' /\ Sessions'
  BY <1>1 DEF RowsInv, Tables, Sessions, SessionOK, MethodSession, EndpointSession, Secrets
<1>7. KindStays' /\ Freshness' /\ BackIsUndone'
  BY <1>1 DEF RowsInv, KindStays, Freshness, Fresh, BackIsUndone
<1>8. KeyRotationIsFinal' /\ PathIsKept'
  BY <1>1 DEF RowsInv, KeyRotationIsFinal, PathIsKept
<1> QED
  BY <1>4, <1>5, <1>6, <1>7, <1>8 DEF RowsInv

(* A PUT or a rotation has read a row: of the rows nothing changes, and of   *)
(* the sessions one, that was idle.                                          *)
LEMMA ReadKeepsRows ==
    ASSUME RowsInv, NEW a \in Admins, NEW m \in Methods, ReadForUpdate(a, m) \/ ReadForRotation(a, m)
    PROVE  RowsInv'
<1>1. /\ admin[a].op = "idle" /\ methods[m] # None
      /\ UNCHANGED <<methods, retired, endpoint, connection, handed, revoked, undone, pathLost>>
      /\ sent < MaxRequests /\ sent' = sent + 1
  BY DEF ReadForUpdate, ReadForRotation, Send, tables, history
<1>2. PICK set : /\ admin' = [admin EXCEPT ![a] = Session("method", m, set, methods[m])]
                 /\ \/ /\ set \in MethodUpdates /\ secrets' = secrets
                       /\ methods[m].kind = "api_key" => "label" \notin DOMAIN set
                    \/ /\ set = [c \in {"secret"} |-> secrets + 1]
                       /\ secrets < MaxSecrets /\ secrets' = secrets + 1
  BY DEF ReadForUpdate, ReadForRotation
<1> DEFINE q == Session("method", m, set, methods[m])
<1>3. /\ secrets \in Nat /\ MaxSecrets \in Nat /\ sent \in Nat /\ MaxRequests \in Nat
      /\ secrets' \in 0..MaxSecrets /\ Secrets \subseteq Secrets' /\ secrets + 1 \notin Secrets
  BY <1>1, <1>2, Bounded, AccessBoundsAssumption DEF RowsInv, Counters, Secrets
<1>4. methods[m] \in MethodTable /\ m \in retired /\ methods[m].secret \in Secrets
  BY <1>1 DEF RowsInv, Tables
<1>5. /\ DOMAIN admin = Admins /\ admin'[a] = q /\ DOMAIN admin' = Admins
      /\ \A b \in Admins \ {a} : admin'[b] = admin[b]
  BY <1>2 DEF RowsInv, Sessions
<1>6. q.op = "method" /\ q.id = m /\ q.set = set /\ q.read = methods[m]
  BY DEF Session
<1>7. \/ Payload(set) /\ "secret" \notin DOMAIN set
      \/ DOMAIN set = {"secret"} /\ set.secret = secrets + 1 /\ secrets' = secrets + 1
  BY <1>2, AccessRowsAssumption DEF Payload
<1>8. MethodSession(admin[a])'
  <2>1. q = Session("method", q.id, q.set, q.read)
    BY <1>6
  <2>2. CASE "secret" \notin DOMAIN set
    BY <1>1, <1>2, <1>3, <1>4, <1>5, <1>6, <1>7, <2>1, <2>2 DEF MethodSession
  <2>3. CASE "secret" \in DOMAIN set
    <3>1. DOMAIN set = {"secret"} /\ set.secret \in Secrets'
      BY <1>3, <1>7, <2>3 DEF Payload, Secrets
    <3> QED  BY <1>1, <1>3, <1>4, <1>5, <1>6, <2>1, <3>1 DEF MethodSession
  <2> QED  BY <2>2, <2>3
<1> HIDE DEF q
<1>9. Tables'
  BY <1>1, <1>3 DEF RowsInv, Tables
<1>10. Counters'
  BY <1>1, <1>3 DEF RowsInv, Counters
<1>11. Sessions'
  <2>1. ASSUME NEW b \in Admins \ {a}
        PROVE  admin'[b].op \in {"idle", "method", "endpoint"} /\ SessionOK(b)'
    <3>1. admin'[b] = admin[b] /\ admin[b].op \in {"idle", "method", "endpoint"} /\ SessionOK(b)
      BY <1>5 DEF RowsInv, Sessions
    <3>2. MethodSession(admin[b]) => MethodSession(admin[b])'
      BY <1>1, <1>3, <3>1 DEF MethodSession
    <3>3. EndpointSession(admin[b]) => EndpointSession(admin[b])'
      BY <3>1 DEF EndpointSession
    <3> QED  BY <3>1, <3>2, <3>3 DEF SessionOK
  <2>2. SessionOK(a)' /\ admin'[a].op = "method"
    BY <1>5, <1>6, <1>8 DEF SessionOK
  <2> QED  BY <1>5, <2>1, <2>2 DEF Sessions
<1>12. KindStays'
  BY <1>1, <1>5, <1>6 DEF RowsInv, KindStays
<1>13. Owned'
  <2> SUFFICES ASSUME NEW n \in Methods, NEW s \in Secrets', Holds(n, s)'
               PROVE  Holds(n, s) \/ (n = m /\ s = secrets + 1)
    BY <1>2, OwnedStays
  <2> QED  BY <1>1, <1>5, <1>6, <1>7 DEF Holds, Rotates
<1>14. Freshness'
  <2>1. /\ \A n \in Methods : methods[n] # None => methods[n].secret # secrets + 1
        /\ \A b \in Admins : admin[b].op = "method" => admin[b].read.secret # secrets + 1
        /\ \A b \in Admins : Rotates(admin[b]) => admin[b].set.secret # secrets + 1
        /\ secrets + 1 \notin revoked
    BY <1>3 DEF RowsInv, Tables, Counters, Sessions, SessionOK, MethodSession, Rotates, Payload
  <2>2. \A b \in Admins : Rotates(admin[b]) => admin[b].set.secret # methods[m].secret
    BY <1>1 DEF RowsInv, Freshness, Fresh
  <2>3. ~Rotates(admin[a])
    BY <1>1 DEF Rotates
  <2>4. Rotates(q) => q.set.secret = secrets + 1
    BY <1>6, <1>7 DEF Rotates
  <2>5. Fresh(a)'
    BY <1>1, <1>4, <1>5, <1>6, <2>1, <2>4, <1>3 DEF Fresh
  <2>6. ASSUME NEW b \in Admins \ {a}  PROVE Fresh(b)'
    BY <1>1, <1>5, <1>6, <2>1, <2>2, <2>4 DEF RowsInv, Freshness, Fresh
  <2> QED  BY <2>5, <2>6 DEF Freshness
<1>15. BackIsUndone'
  BY <1>1, <1>5, <1>6 DEF RowsInv, BackIsUndone, Rewrites
<1>16. KeyRotationIsFinal' /\ PathIsKept'
  BY <1>1 DEF RowsInv, KeyRotationIsFinal, PathIsKept
<1> QED
  BY <1>9, <1>10, <1>11, <1>12, <1>13, <1>14, <1>15, <1>16 DEF RowsInv

(* The heart of it: an UPDATE that may write an old config back.             *)
LEMMA WriteMethodKeepsRows ==
    ASSUME RowsInv, NEW a \in Admins, WriteMethod(a)
    PROVE  RowsInv'
<1> DEFINE q == admin[a]
           m == q.id
           row == methods[m]
           new == MergedMethod(q, row)
           rewritten == \E b \in Admins \ {a} : Rewrites(admin[b], m, row.secret)
<1>1. /\ q.op = "method" /\ admin' = [admin EXCEPT ![a] = Idle]
      /\ UNCHANGED <<retired, endpoint, connection, secrets, sent, pathLost>>
      /\ IF row = None THEN UNCHANGED <<methods, handed, revoked, undone>>
         ELSE /\ methods' = [methods EXCEPT ![m] = new]
              /\ handed' = IF row.kind = "bearer" THEN handed
                           ELSE handed \cup {Credential(m, new)}
              /\ IF "secret" \in DOMAIN q.set
                 THEN /\ revoked' = revoked \cup {row.secret}
                      /\ undone' = IF rewritten THEN undone \cup {row.secret} ELSE undone
                 ELSE UNCHANGED <<revoked, undone>>
  BY DEF WriteMethod
<1>2. MethodSession(q) /\ m \in Methods /\ m \in retired
  BY <1>1, SessionsAreTyped DEF MethodSession
<1>3. /\ DOMAIN admin = Admins /\ admin'[a] = Idle /\ DOMAIN admin' = Admins
      /\ \A b \in Admins \ {a} : admin'[b] = admin[b]
      /\ Idle.op = "idle"
  BY <1>1 DEF RowsInv, Sessions, Idle
<1>4. Sessions'
  <2>1. ASSUME NEW b \in Admins \ {a}
        PROVE  admin'[b].op \in {"idle", "method", "endpoint"} /\ SessionOK(b)'
    BY <1>1, <1>3 DEF RowsInv, Sessions, SessionOK, MethodSession, EndpointSession, Secrets
  <2>2. SessionOK(a)'
    BY <1>3 DEF SessionOK
  <2> QED  BY <1>3, <2>1, <2>2 DEF Sessions
<1>5. CASE row = None
  <2>1. Tables' /\ Counters'
    BY <1>1, <1>5 DEF RowsInv, Tables, Counters, Secrets
  <2>2. KindStays' /\ Freshness'
    BY <1>1, <1>3, <1>5 DEF RowsInv, KindStays, Freshness, Fresh, Rotates
  <2>3. Owned'
    <3> SUFFICES ASSUME NEW n \in Methods, NEW s \in Secrets', Holds(n, s)'
                 PROVE  Holds(n, s)
      BY <1>1, <1>2, OwnedStays
    <3> QED  BY <1>1, <1>3, <1>5 DEF Holds, Rotates
  <2>4. BackIsUndone'
    BY <1>1, <1>3, <1>5 DEF RowsInv, BackIsUndone, Rewrites
  <2>5. KeyRotationIsFinal' /\ PathIsKept'
    BY <1>1, <1>5 DEF RowsInv, KeyRotationIsFinal, PathIsKept
  <2> QED  BY <1>4, <2>1, <2>2, <2>3, <2>4, <2>5 DEF RowsInv
<1>6. CASE row # None
  <2>1. row \in MethodTable /\ row.secret \in Secrets
    BY <1>2, <1>6 DEF RowsInv, Tables
  <2>2. "secret" \in DOMAIN q.set =>
            /\ q.set.secret \in Secrets /\ q.set.secret # q.read.secret
            /\ q.set.secret \notin revoked /\ q.set.secret # row.secret
    BY <1>1, <1>2, <1>6 DEF RowsInv, Freshness, Fresh, Rotates, MethodSession, Payload
  <2>3. /\ new \in MethodTable /\ new.kind = row.kind
        /\ "secret" \in DOMAIN q.set => new.secret = q.set.secret
        /\ "secret" \notin DOMAIN q.set =>
               new.secret = IF WritesConfig(q) THEN q.read.secret ELSE row.secret
    BY <1>2, <2>1, <2>2, MethodUpdate, Bounded DEF RowsInv
  <2>4. q.read.kind = row.kind /\ q.read.secret \in Secrets /\ q.read \in MethodTable
    BY <1>1, <1>2, <1>6 DEF RowsInv, KindStays, MethodSession
  <2>5. new.secret \in Secrets
    BY <2>1, <2>2, <2>3, <2>4
  <2> HIDE DEF new
  <2>6. /\ methods' = [methods EXCEPT ![m] = new] /\ DOMAIN methods = Methods
        /\ methods'[m] = new /\ new # None
        /\ \A n \in Methods \ {m} : methods'[n] = methods[n]
        /\ handed' \subseteq handed \cup {Credential(m, new)}
        /\ UNCHANGED <<retired, secrets>>
    BY <1>1, <1>2, <1>6, <2>3, NoneIsNoRow DEF RowsInv, Tables
  <2>7. Tables'
    BY <1>1, <1>2, <2>3, <2>5, <2>6 DEF RowsInv, Tables, Secrets
  <2>8. Counters'
    <3>1. Credential(m, new) \in [method : retired, secret : Secrets, label : Labels]
      BY <1>2, <2>3, <2>5 DEF Credential, MethodTable
    <3>2. handed' \subseteq [method : retired', secret : Secrets', label : Labels]
      BY <2>6, <3>1 DEF RowsInv, Counters, Secrets
    <3>3. undone' \subseteq revoked' /\ revoked' \subseteq Secrets'
      BY <1>1, <1>6, <2>1, <2>6 DEF RowsInv, Counters, Secrets
    <3> QED  BY <1>1, <3>2, <3>3 DEF RowsInv, Counters
  <2>9. KindStays'
    <3> SUFFICES ASSUME NEW b \in Admins \ {a}, admin[b].op = "method", methods'[admin[b].id] # None
                 PROVE  admin[b].read.kind = methods'[admin[b].id].kind
      BY <1>3 DEF KindStays
    <3>1. admin[b].id \in Methods
      BY SessionsAreTyped
    <3> QED  BY <1>6, <2>3, <2>6, <3>1 DEF RowsInv, KindStays
  <2>10. Owned'
    <3>1. Holds(m, new.secret)
      BY <1>1, <1>2, <1>6, <2>3 DEF Holds, Rotates
    <3> SUFFICES ASSUME NEW n \in Methods, NEW s \in Secrets', Holds(n, s)'
                 PROVE  Holds(n, s)
      BY <1>2, <2>6, OwnedStays
    <3> QED  BY <1>3, <2>6, <3>1 DEF Holds, Rotates, Credential
  <2>11. Freshness'
    <3> SUFFICES ASSUME NEW b \in Admins \ {a}, Rotates(admin[b])
                 PROVE  Fresh(b)'
      BY <1>3 DEF Freshness, Fresh, Rotates
    <3>1. Fresh(b)
      BY DEF RowsInv, Freshness
    <3>2. admin[b].set.secret \notin revoked'
      BY <1>1, <1>2, <1>6, <3>1 DEF Fresh
    <3>3. new.secret # admin[b].set.secret
      BY <1>1, <1>2, <1>6, <2>3, <3>1 DEF Fresh, Rotates
    <3> QED  BY <1>3, <2>6, <3>1, <3>2, <3>3 DEF Fresh, Rotates
  <2>12. BackIsUndone'
    <3>1. ASSUME NEW n \in Methods, methods'[n] # None, methods'[n].secret \in revoked'
          PROVE  methods'[n].secret \in undone'
      <4>1. CASE n = m
        <5>1. "secret" \notin DOMAIN q.set
          BY <1>1, <1>6, <2>2, <2>3, <2>6, <3>1, <4>1
        <5>2. WritesConfig(q) => Rewrites(q, m, q.read.secret)
          BY <1>1, <5>1 DEF Rewrites
        <5> QED
          BY <1>1, <1>2, <1>6, <2>3, <2>6, <3>1, <4>1, <5>1, <5>2 DEF RowsInv, BackIsUndone
      <4>2. CASE n # m
        <5>1. methods[n].secret # row.secret
          BY <1>2, <1>6, <2>1, <2>6, <3>1, <4>2 DEF RowsInv, Owned, Holds
        <5> QED  BY <1>1, <1>6, <2>6, <3>1, <4>2, <5>1 DEF RowsInv, BackIsUndone
      <4> QED  BY <4>1, <4>2
    <3>2. ASSUME NEW b \in Admins, NEW n \in Methods, NEW s \in revoked', Rewrites(admin'[b], n, s)
          PROVE  s \in undone'
      <4>1. b # a /\ admin'[b] = admin[b] /\ Rewrites(admin[b], n, s)
        BY <1>3, <3>2 DEF Rewrites
      <4>2. CASE s \in revoked
        BY <1>1, <1>6, <4>1, <4>2 DEF RowsInv, BackIsUndone
      <4>3. CASE s \notin revoked
        <5>1. s = row.secret /\ "secret" \in DOMAIN q.set
          BY <1>1, <1>6, <4>3
        <5>2. n = m
          BY <1>2, <1>6, <2>1, <4>1, <5>1 DEF RowsInv, Owned, Holds, Rewrites
        <5> QED  BY <1>1, <1>6, <4>1, <5>1, <5>2
      <4> QED  BY <4>2, <4>3
    <3> QED  BY <3>1, <3>2 DEF BackIsUndone
  <2>13. KeyRotationIsFinal'
    <3> SUFFICES ASSUME NEW n \in Methods, methods'[n] # None, methods'[n].kind = "api_key"
                 PROVE  methods'[n].secret \notin revoked'
      BY DEF KeyRotationIsFinal
    <3>1. CASE n = m
      <4>1. "secret" \notin DOMAIN q.set => ~WritesConfig(q)
        <5>1. DOMAIN q.read = {"kind", "active", "label", "secret"}
          BY <2>4 DEF MethodTable
        <5>2. "label" \notin DOMAIN q.set \/ DOMAIN q.set = {"secret"}
          BY <1>2, <2>3, <2>4, <2>6, <3>1 DEF MethodSession
        <5> QED  BY <5>1, <5>2 DEF WritesConfig, ConfigColumns, Overlay
      <4> QED
        BY <1>1, <1>2, <1>6, <2>2, <2>3, <2>6, <3>1, <4>1 DEF RowsInv, KeyRotationIsFinal
    <3>2. CASE n # m
      <4>1. methods[n].secret # row.secret
        BY <1>2, <1>6, <2>1, <2>6, <3>2 DEF RowsInv, Owned, Holds
      <4> QED  BY <1>1, <1>6, <2>6, <3>2, <4>1 DEF RowsInv, KeyRotationIsFinal
    <3> QED  BY <3>1, <3>2
  <2>14. PathIsKept'
    BY <1>1 DEF RowsInv, PathIsKept
  <2> QED
    BY <1>4, <2>7, <2>8, <2>9, <2>10, <2>11, <2>12, <2>13, <2>14 DEF RowsInv
<1> QED  BY <1>5, <1>6

LEMMA DeleteMethodKeepsRows ==
    ASSUME RowsInv, NEW m \in Methods, DeleteMethod(m)
    PROVE  RowsInv'
<1>1. /\ methods' = [methods EXCEPT ![m] = None]
      /\ sent < MaxRequests /\ sent' = sent + 1
      /\ UNCHANGED <<retired, connection, admin, handed, secrets, revoked, undone>>
      /\ IF endpoint # None /\ endpoint.method = m
         THEN /\ endpoint' = [endpoint EXCEPT !.method = None]
              /\ pathLost' = (pathLost \/ ~endpoint.fallback)
         ELSE UNCHANGED <<endpoint, pathLost>>
  BY DEF DeleteMethod, Send
<1>2. /\ DOMAIN methods = Methods /\ methods'[m] = None
      /\ \A n \in Methods \ {m} : methods'[n] = methods[n]
  BY <1>1 DEF RowsInv, Tables
<1>3. /\ endpoint' \in EndpointTable \cup {None} /\ pathLost' \in BOOLEAN
      /\ endpoint' # None /\ endpoint'.method # None => methods'[endpoint'.method] # None
      /\ PathIsKept'
  <2>1. CASE endpoint # None /\ endpoint.method = m
    <3>1. endpoint \in EndpointTable
      BY <2>1 DEF RowsInv, Tables
    <3>2. endpoint' \in EndpointTable /\ endpoint'.method = None
          /\ endpoint'.fallback = endpoint.fallback
      BY <1>1, <2>1, <3>1 DEF EndpointTable
    <3> QED  BY <1>1, <2>1, <3>1, <3>2 DEF RowsInv, Counters, PathIsKept, HasPath, EndpointTable
  <2>2. CASE ~(endpoint # None /\ endpoint.method = m)
    <3>1. UNCHANGED <<endpoint, pathLost>>
      BY <1>1, <2>2
    <3>2. endpoint # None /\ endpoint.method # None => endpoint.method \in Methods \ {m}
      BY <2>2 DEF RowsInv, Tables, EndpointTable
    <3>3. PathIsKept'
      BY <3>1 DEF RowsInv, PathIsKept
    <3> QED  BY <1>2, <3>1, <3>2, <3>3 DEF RowsInv, Tables, Counters
  <2> QED  BY <2>1, <2>2
<1>4. Tables'
  BY <1>1, <1>2, <1>3 DEF RowsInv, Tables, Secrets
<1>5. Counters'
  BY <1>1, <1>3, Bounded, AccessBoundsAssumption DEF RowsInv, Counters, Secrets
<1>6. Sessions'
  <2>1. \A a \in Admins : SessionOK(a) => SessionOK(a)'
    BY <1>1 DEF SessionOK, MethodSession, EndpointSession, Secrets
  <2> QED  BY <1>1, <2>1 DEF RowsInv, Sessions
<1>7. KindStays'
  BY <1>1, <1>2, SessionsAreTyped DEF RowsInv, KindStays
<1>8. Owned'
  <2> SUFFICES ASSUME NEW n \in Methods, NEW s \in Secrets', Holds(n, s)'
               PROVE  Holds(n, s)
    BY <1>1, OwnedStays
  <2> QED  BY <1>1, <1>2 DEF Holds
<1>9. Freshness' /\ BackIsUndone' /\ KeyRotationIsFinal'
  BY <1>1, <1>2 DEF RowsInv, Freshness, Fresh, BackIsUndone, KeyRotationIsFinal
<1> QED
  BY <1>3, <1>4, <1>5, <1>6, <1>7, <1>8, <1>9 DEF RowsInv

(* What concerns the methods and their secrets stays while they do; the rest *)
(* is the endpoint, its connection and who is editing it.                    *)
LEMMA MethodsKeepRows ==
    ASSUME RowsInv, Sessions', PathIsKept', UNCHANGED <<methods, retired, handed, secrets, revoked, undone>>,
           \A a \in Admins : admin'[a] = admin[a]
                              \/ admin'[a].op # "method",
           endpoint' \in EndpointTable \cup {None}, connection' \in BOOLEAN \cup {None},
           endpoint' # None /\ endpoint'.method # None => methods[endpoint'.method] # None,
           sent' \in 0..MaxRequests, pathLost' \in BOOLEAN
    PROVE  RowsInv'
<1>1. Tables' /\ Counters'
  BY DEF RowsInv, Tables, Counters, Secrets
<1>2. KindStays' /\ KeyRotationIsFinal'
  BY DEF RowsInv, KindStays, KeyRotationIsFinal
<1>3. Freshness'
  BY DEF RowsInv, Freshness, Fresh, Rotates
<1>4. BackIsUndone'
  BY DEF RowsInv, BackIsUndone, Rewrites
<1>5. Owned'
  BY DEF RowsInv, Owned, Holds, Rotates, Secrets
<1> QED
  BY <1>1, <1>2, <1>3, <1>4, <1>5 DEF RowsInv

LEMMA ReadEndpointKeepsRows ==
    ASSUME RowsInv, NEW a \in Admins, ReadEndpoint(a)
    PROVE  RowsInv'
<1>1. /\ sent < MaxRequests /\ sent' = sent + 1
      /\ admin[a].op = "idle" /\ endpoint # None
      /\ UNCHANGED <<methods, retired, endpoint, connection, handed, secrets, revoked, undone, pathLost>>
  BY DEF ReadEndpoint, Send, tables, history
<1>2. PICK u \in EndpointUpdates :
          /\ KeepsPath(u, endpoint)
          /\ admin' = [admin EXCEPT ![a] = Session("endpoint", None, u, endpoint)]
  BY DEF ReadEndpoint
<1>3. /\ DOMAIN admin = Admins /\ DOMAIN admin' = Admins
      /\ admin'[a] = Session("endpoint", None, u, endpoint)
      /\ \A b \in Admins \ {a} : admin'[b] = admin[b]
  BY <1>2 DEF RowsInv, Sessions
<1>4. EndpointSession(admin'[a]) /\ admin'[a].op = "endpoint"
  BY <1>1, <1>2, <1>3, AccessRowsAssumption DEF RowsInv, Tables, EndpointSession, Session
<1>5. Sessions'
  <2>1. ASSUME NEW b \in Admins \ {a}
        PROVE  admin'[b].op \in {"idle", "method", "endpoint"} /\ SessionOK(b)'
    BY <1>1, <1>3 DEF RowsInv, Sessions, SessionOK, MethodSession, EndpointSession, Secrets
  <2>2. SessionOK(a)'
    BY <1>4 DEF SessionOK, EndpointSession
  <2> QED  BY <1>3, <1>4, <2>1, <2>2 DEF Sessions
<1>6. PathIsKept'
  BY <1>1 DEF RowsInv, PathIsKept
<1>7. sent' \in 0..MaxRequests
  BY <1>1, Bounded, AccessBoundsAssumption DEF RowsInv
<1> QED
  BY <1>1, <1>3, <1>4, <1>5, <1>6, <1>7, MethodsKeepRows DEF RowsInv, Tables, Counters

LEMMA WriteEndpointKeepsRows ==
    ASSUME RowsInv, NEW a \in Admins, WriteEndpoint(a)
    PROVE  RowsInv'
<1> DEFINE q == admin[a]
           new == Merged(q, endpoint)
<1>1. /\ q.op = "endpoint" /\ admin' = [admin EXCEPT ![a] = Idle]
      /\ UNCHANGED <<methods, retired, connection, handed, secrets, sent, revoked, undone>>
      /\ IF \/ endpoint = None
            \/ new.method # endpoint.method /\ new.method # None /\ methods[new.method] = None
         THEN UNCHANGED <<endpoint, pathLost>>
         ELSE endpoint' = new /\ pathLost' = (q.read # endpoint)
  BY DEF WriteEndpoint
<1>2. EndpointSession(q)
  BY <1>1, SessionsAreTyped
<1>3. /\ DOMAIN admin = Admins /\ admin'[a] = Idle /\ DOMAIN admin' = Admins
      /\ \A b \in Admins \ {a} : admin'[b] = admin[b]
      /\ Idle.op = "idle"
  BY <1>1 DEF RowsInv, Sessions, Idle
<1>4. Sessions'
  <2>1. ASSUME NEW b \in Admins \ {a}
        PROVE  admin'[b].op \in {"idle", "method", "endpoint"} /\ SessionOK(b)'
    BY <1>1, <1>3 DEF RowsInv, Sessions, SessionOK, MethodSession, EndpointSession, Secrets
  <2>2. SessionOK(a)'
    BY <1>3 DEF SessionOK
  <2> QED  BY <1>3, <2>1, <2>2 DEF Sessions
<1>5. /\ endpoint' \in EndpointTable \cup {None} /\ pathLost' \in BOOLEAN
      /\ endpoint' # None /\ endpoint'.method # None => methods[endpoint'.method] # None
      /\ PathIsKept'
  <2>1. CASE UNCHANGED <<endpoint, pathLost>>
    BY <2>1 DEF RowsInv, Tables, Counters, PathIsKept
  <2>2. CASE ~UNCHANGED <<endpoint, pathLost>>
    <3>1. /\ endpoint # None /\ endpoint' = new /\ pathLost' = (q.read # endpoint)
          /\ new.method = endpoint.method \/ new.method = None \/ methods[new.method] # None
      BY <1>1, <2>2
    <3>2. endpoint \in EndpointTable
      BY <3>1 DEF RowsInv, Tables
    <3>3. new \in EndpointTable /\ (q.read = endpoint => HasPath(new))
      BY <1>2, <3>2, EndpointUpdate
    <3> QED  BY <3>1, <3>2, <3>3 DEF RowsInv, Tables, PathIsKept
  <2> QED  BY <2>1, <2>2
<1> QED
  BY <1>1, <1>3, <1>4, <1>5, MethodsKeepRows DEF RowsInv, Tables, Counters

LEMMA OtherStepsKeepRows ==
    ASSUME RowsInv, DeleteEndpoint \/ UpdateConnection \/ DeleteConnection
    PROVE  RowsInv'
<1>1. /\ sent < MaxRequests /\ sent' = sent + 1
      /\ UNCHANGED <<methods, retired, admin, handed, secrets, revoked, undone, pathLost>>
      /\ endpoint' = None \/ endpoint' = endpoint
      /\ connection' = connection \/ connection' = None \/ (connection # None /\ connection' = ~connection)
  BY DEF DeleteEndpoint, UpdateConnection, DeleteConnection, Send, history
<1>2. connection' \in BOOLEAN \cup {None}
  <2>1. connection # None => connection \in BOOLEAN
    BY DEF RowsInv, Tables
  <2> QED  BY <1>1, <2>1, Zenon DEF RowsInv, Tables
<1>3. Sessions'
  <2>1. \A a \in Admins : SessionOK(a) => SessionOK(a)'
    BY <1>1 DEF SessionOK, MethodSession, EndpointSession, Secrets
  <2> QED  BY <1>1, <2>1 DEF RowsInv, Sessions
<1>4. PathIsKept'
  BY <1>1 DEF RowsInv, PathIsKept
<1>5. sent' \in 0..MaxRequests
  BY <1>1, Bounded, AccessBoundsAssumption DEF RowsInv
<1> QED
  BY <1>1, <1>2, <1>3, <1>4, <1>5, MethodsKeepRows DEF RowsInv, Tables, Counters

LEMMA AdministerKeepsRows == RowsInv /\ Administer => RowsInv'
BY CreateKeepsRows, IssueKeepsRows, DeleteMethodKeepsRows, ReadKeepsRows, WriteMethodKeepsRows,
   ReadEndpointKeepsRows, WriteEndpointKeepsRows, OtherStepsKeepRows DEF Administer

-----------------------------------------------------------------------------
(***************************************************************************)
(* The administrators' steps, on the requests in progress.                 *)
(***************************************************************************)

(* A step that takes no credential back, replaces secrets for good or not at *)
(* all, and closes methods, or opens one while no request keeps it as shut.  *)
LEMMA RequestsStay ==
    ASSUME RequestsInv, handed \subseteq handed',
           \A s \in revoked \ undone : s \in revoked' \ undone',
           NEW opened,
           client' = [c \in Clients |-> [client[c] EXCEPT !.shut = @ \ opened]],
           \A m \in Methods \ opened : Closed(m) => Closed(m)'
    PROVE  RequestsInv'
<1>1. /\ client \in [Clients -> Requests] /\ DOMAIN client' = Clients
      /\ \A c \in Clients : RequestOK(c)
  BY DEF RequestsInv
<1>2. ASSUME NEW c \in Clients
      PROVE  /\ client'[c] \in Requests
             /\ client'[c].shut = client[c].shut \ opened /\ client'[c].at = client[c].at
             /\ client'[c].cred = client[c].cred /\ client'[c].ep = client[c].ep
             /\ client'[c].by = client[c].by /\ client'[c].stale = client[c].stale
             /\ client[c].shut \subseteq Methods
  BY <1>1 DEF Requests
<1>3. client' \in [Clients -> Requests]
  BY <1>1, <1>2
<1>4. ASSUME NEW c \in Clients
      PROVE  RequestOK(c)'
  <2>1. RequestOK(c)
    BY <1>1
  <2>2. (client[c].stale => client[c].cred \in handed /\ client[c].cred.secret \in revoked \ undone)'
    BY <1>2, <2>1 DEF RequestOK
  <2>3. (\A m \in client[c].shut : Closed(m))'
    BY <1>2, <2>1 DEF RequestOK
  <2>4. /\ (client[c].at \in {"resolve", "dispatch", "verify"} => client[c].by = None)'
        /\ (client[c].at \in {"dispatch", "verify"} =>
               client[c].ep \in EndpointTable /\ client[c].ep.method # None)'
        /\ (client[c].at = "verify" => client[c].ep.method \notin client[c].shut)'
    BY <1>2, <2>1 DEF RequestOK
  <2> QED  BY <2>2, <2>3, <2>4 DEF RequestOK
<1>5. GrantHasProof'
  BY <1>1, <1>2 DEF RequestsInv, GrantHasProof
<1>6. RevokedIsRefused'
  BY <1>1, <1>2 DEF RequestsInv, RevokedIsRefused
<1>7. InactiveIsRefused'
  BY <1>1, <1>2 DEF RequestsInv, InactiveIsRefused
<1> QED
  BY <1>3, <1>4, <1>5, <1>6, <1>7 DEF RequestsInv

LEMMA RequestsIgnore ==
    ASSUME RequestsInv, UNCHANGED <<client, revoked, undone>>, handed \subseteq handed',
           \A m \in Methods : Closed(m) => Closed(m)'
    PROVE  RequestsInv'
<1>1. client' = [c \in Clients |-> [client[c] EXCEPT !.shut = @ \ {}]]
  BY DEF RequestsInv, Requests
<1> QED
  BY <1>1, RequestsStay

LEMMA CreateKeepsRequests ==
    ASSUME IInv, NEW m \in Methods, CreateMethod(m)
    PROVE  RequestsInv'
<1>1. PICK new \in MethodRows :
          LET row == [kind |-> new.kind, active |-> new.active, label |-> new.label,
                      secret |-> secrets + 1]
          IN  /\ methods' = [methods EXCEPT ![m] = row]
              /\ handed \subseteq handed'
              /\ Reopen(m, row)
  BY DEF CreateMethod
<1> DEFINE row == [kind |-> new.kind, active |-> new.active, label |-> new.label,
                   secret |-> secrets + 1]
           opened == IF row.active THEN {m} ELSE {}
<1>2. /\ DOMAIN methods = Methods /\ methods'[m] = row
      /\ \A n \in Methods \ {m} : methods'[n] = methods[n]
      /\ UNCHANGED <<revoked, undone>>
  BY <1>1 DEF IInv, RowsInv, Tables, CreateMethod, history
<1>3. client' = [c \in Clients |-> [client[c] EXCEPT !.shut = @ \ opened]]
  BY <1>1 DEF Reopen, IInv, RequestsInv, Requests
<1>4. \A n \in Methods \ opened : Closed(n) => Closed(n)'
  BY <1>2 DEF Closed
<1> QED
  BY <1>1, <1>2, <1>3, <1>4, RequestsStay DEF IInv

LEMMA WriteMethodKeepsRequests ==
    ASSUME IInv, NEW a \in Admins, WriteMethod(a)
    PROVE  RequestsInv'
<1> DEFINE q == admin[a]
           m == q.id
           row == methods[m]
           new == MergedMethod(q, row)
           rewritten == \E b \in Admins \ {a} : Rewrites(admin[b], m, row.secret)
           reopens == Overlay(q.set, [active |-> FALSE])
           opened == IF reopens.active THEN {m} ELSE {}
<1>1. /\ q.op = "method"
      /\ IF row = None THEN UNCHANGED <<methods, handed, client, revoked, undone>>
         ELSE /\ methods' = [methods EXCEPT ![m] = new]
              /\ handed \subseteq handed'
              /\ Reopen(m, reopens)
              /\ IF "secret" \in DOMAIN q.set
                 THEN /\ revoked' = revoked \cup {row.secret}
                      /\ undone' = IF rewritten THEN undone \cup {row.secret} ELSE undone
                 ELSE UNCHANGED <<revoked, undone>>
  BY DEF WriteMethod
<1>2. CASE row = None
  BY <1>1, <1>2, RequestsIgnore DEF IInv, Closed
<1>3. CASE row # None
  <2>1. MethodSession(q) /\ m \in Methods
    BY <1>1, SessionsAreTyped DEF IInv
  <2>2. row \in MethodTable /\ (row.secret \in revoked => row.secret \in undone)
    BY <1>3, <2>1 DEF IInv, RowsInv, Tables, BackIsUndone
  <2>3. "secret" \in DOMAIN q.set => q.set.secret # q.read.secret
    BY <1>1 DEF IInv, RowsInv, Freshness, Fresh, Rotates
  <2>4. new \in MethodTable /\ (new.active /\ ~row.active => "active" \in DOMAIN q.set /\ q.set.active)
    BY <2>1, <2>2, <2>3, MethodUpdate, Bounded DEF IInv, RowsInv
  <2>5. reopens.active = IF "active" \in DOMAIN q.set THEN q.set.active ELSE FALSE
    BY DEF Overlay
  <2> HIDE DEF new, reopens
  <2>6. /\ DOMAIN methods = Methods /\ methods'[m] = new
        /\ \A n \in Methods \ {m} : methods'[n] = methods[n]
    BY <1>1, <1>3, <2>1 DEF IInv, RowsInv, Tables
  <2>7. client' = [c \in Clients |-> [client[c] EXCEPT !.shut = @ \ opened]]
    BY <1>1, <1>3 DEF Reopen, IInv, RequestsInv, Requests
  <2>8. \A n \in Methods \ opened : Closed(n) => Closed(n)'
    BY <1>3, <2>4, <2>5, <2>6 DEF Closed
  <2>9. \A s \in revoked \ undone : s \in revoked' \ undone'
    BY <1>1, <1>3, <2>2
  <2> QED
    BY <1>1, <1>3, <2>7, <2>8, <2>9, RequestsStay DEF IInv
<1> QED  BY <1>2, <1>3

LEMMA AdministerKeepsRequests ==
    ASSUME IInv, Administer
    PROVE  RequestsInv'
<1>1. ASSUME NEW m \in Methods, IssueToken(m) \/ DeleteMethod(m)
      PROVE  RequestsInv'
  <2>1. UNCHANGED <<client, revoked, undone>> /\ handed \subseteq handed'
        /\ (methods' = methods \/ methods' = [methods EXCEPT ![m] = None])
    BY <1>1 DEF IssueToken, DeleteMethod, tables, history
  <2> QED  BY <2>1, RequestsIgnore DEF IInv, RowsInv, Tables, Closed
<1>2. ASSUME NEW a \in Admins, NEW m \in Methods, ReadForUpdate(a, m) \/ ReadForRotation(a, m)
      PROVE  RequestsInv'
  BY <1>2, RequestsIgnore DEF IInv, ReadForUpdate, ReadForRotation, tables, history, Closed
<1>3. ASSUME NEW a \in Admins, ReadEndpoint(a) \/ WriteEndpoint(a)
      PROVE  RequestsInv'
  BY <1>3, RequestsIgnore DEF IInv, ReadEndpoint, WriteEndpoint, tables, history, Closed
<1>4. ASSUME DeleteEndpoint \/ UpdateConnection \/ DeleteConnection
      PROVE  RequestsInv'
  BY <1>4, RequestsIgnore DEF IInv, DeleteEndpoint, UpdateConnection, DeleteConnection, history, Closed
<1> QED
  BY <1>1, <1>2, <1>3, <1>4, CreateKeepsRequests, WriteMethodKeepsRequests DEF Administer

-----------------------------------------------------------------------------
(***************************************************************************)
(* The requests' own steps.                                                *)
(***************************************************************************)
LEMMA RequestKeepsRows ==
    ASSUME RowsInv, NEW c \in Clients, Request(c)
    PROVE  RowsInv' /\ UNCHANGED <<methods, endpoint, handed, revoked, undone>>
<1>1. UNCHANGED <<methods, retired, endpoint, connection, admin, handed, secrets, sent,
                  revoked, undone, pathLost>>
  BY DEF Request, Receive, Resolve, Dispatch, Verify, Serve, tables, history
<1>2. Sessions'
  <2>1. \A a \in Admins : SessionOK(a) => SessionOK(a)'
    BY <1>1 DEF SessionOK, MethodSession, EndpointSession, Secrets
  <2> QED  BY <1>1, <2>1 DEF RowsInv, Sessions
<1>3. PathIsKept'
  BY <1>1 DEF RowsInv, PathIsKept
<1> QED
  BY <1>1, <1>2, <1>3, MethodsKeepRows DEF RowsInv, Tables, Counters

(* What must be shown of the request that took the step. *)
LEMMA OneRequestSteps ==
    ASSUME RequestsInv, NEW c \in Clients, NEW next \in Requests,
           UNCHANGED <<methods, handed, revoked, undone>>,
           client' = [client EXCEPT ![c] = next],
           RequestOK(c)',
           next.at = "granted" =>
               /\ IF next.by = None
                  THEN next.cred = AdminToken /\ next.ep.method = None /\ next.ep.fallback
                  ELSE /\ next.cred \in handed /\ next.cred.method = next.by
                       /\ next.ep.method = next.by
               /\ ~next.stale /\ next.by \notin next.shut
    PROVE  RequestsInv'
<1>1. /\ client \in [Clients -> Requests] /\ client' \in [Clients -> Requests] /\ client'[c] = next
      /\ \A d \in Clients \ {c} : client'[d] = client[d]
  BY DEF RequestsInv
<1>2. \A d \in Clients : RequestOK(d)'
  BY <1>1 DEF RequestsInv, RequestOK, Closed
<1>3. GrantHasProof'
  BY <1>1 DEF RequestsInv, GrantHasProof
<1>4. RevokedIsRefused' /\ InactiveIsRefused'
  BY <1>1 DEF RequestsInv, RevokedIsRefused, InactiveIsRefused
<1> QED
  BY <1>1, <1>2, <1>3, <1>4 DEF RequestsInv

LEMMA Arrives ==
    ASSUME NEW cred \in [method : Methods, secret : Nat, label : Labels] \cup {AdminToken, None},
           NEW old \in BOOLEAN, NEW shut \in SUBSET Methods
    PROVE  LET next == [Waiting EXCEPT !.at = "resolve", !.cred = cred, !.stale = old,
                                       !.shut = shut]
           IN  /\ next \in Requests
               /\ next.at = "resolve" /\ next.cred = cred /\ next.by = None
               /\ next.stale = old /\ next.shut = shut
BY DEF Waiting, Requests, Steps

LEMMA ReceiveKeepsRequests ==
    ASSUME IInv, NEW c \in Clients, Receive(c)
    PROVE  RequestsInv'
<1>1. PICK cred \in handed \cup {AdminToken, None}, old \in BOOLEAN, shut \in SUBSET Methods :
          /\ old => cred \in handed /\ cred.secret \in revoked \ undone
          /\ \A m \in shut : Closed(m)
          /\ client' = [client EXCEPT ![c] =
                 [Waiting EXCEPT !.at = "resolve", !.cred = cred, !.stale = old, !.shut = shut]]
  <2>1. PICK cred \in handed \cup {AdminToken, None} :
            client' = [client EXCEPT ![c] =
                [Waiting EXCEPT !.at = "resolve", !.cred = cred,
                                !.stale = cred \in handed /\ cred.secret \in revoked \ undone,
                                !.shut = {m \in Methods : Closed(m)}]]
    BY DEF Receive
  <2> DEFINE replaced == cred \in handed /\ cred.secret \in revoked \ undone
             closed == {m \in Methods : Closed(m)}
  <2>2. closed \in SUBSET Methods /\ \A m \in closed : Closed(m)
    OBVIOUS
  <2>3. replaced \in BOOLEAN /\ (replaced => cred \in handed /\ cred.secret \in revoked \ undone)
    OBVIOUS
  <2>4. client' = [client EXCEPT ![c] = [Waiting EXCEPT !.at = "resolve", !.cred = cred,
                                                        !.stale = replaced, !.shut = closed]]
    BY <2>1
  <2> HIDE DEF replaced, closed
  <2> QED  BY <2>2, <2>3, <2>4, Zenon
<1> DEFINE next == [Waiting EXCEPT !.at = "resolve", !.cred = cred, !.stale = old, !.shut = shut]
<1>2. UNCHANGED <<methods, handed, revoked, undone>>
  BY RequestKeepsRows DEF IInv, Request
<1>3. cred \in [method : Methods, secret : Nat, label : Labels] \cup {AdminToken, None}
  BY DEF IInv, RowsInv, Tables, Counters, Secrets
<1>4. client' = [client EXCEPT ![c] = next] /\ client'[c] = next
  BY <1>1 DEF IInv, RequestsInv
<1>5. /\ next \in Requests
      /\ next.at = "resolve" /\ next.cred = cred /\ next.by = None
      /\ next.stale = old /\ next.shut = shut
  BY <1>3 DEF Waiting, Requests, Steps
<1> HIDE DEF next
<1>6. RequestOK(c)'
  BY <1>1, <1>2, <1>4, <1>5 DEF RequestOK, Closed
<1> QED
  BY <1>2, <1>4, <1>5, <1>6, OneRequestSteps DEF IInv

(* A request that is answered keeps what it came with. *)
LEMMA AnswerKeepsRequests ==
    ASSUME RequestsInv, NEW c \in Clients, NEW status \in Nat, Answer(c, status),
           UNCHANGED <<methods, handed, revoked, undone>>
    PROVE  RequestsInv'
<1> DEFINE next == [client[c] EXCEPT !.at = "idle", !.status = status]
<1>1. client[c] \in Requests /\ RequestOK(c)
  BY DEF RequestsInv
<1>2. /\ next \in Requests /\ next.at = "idle" /\ next.shut = client[c].shut
      /\ next.cred = client[c].cred /\ next.stale = client[c].stale
  BY <1>1 DEF Requests, Steps
<1>3. client' = [client EXCEPT ![c] = next] /\ client'[c] = next
  BY DEF Answer, RequestsInv
<1> HIDE DEF next
<1>4. RequestOK(c)'
  BY <1>1, <1>2, <1>3 DEF RequestOK, Closed
<1> QED
  BY <1>2, <1>3, <1>4, OneRequestSteps

LEMMA StepKeepsRequests ==
    ASSUME IInv, NEW c \in Clients, Resolve(c) \/ Dispatch(c) \/ Verify(c) \/ Serve(c)
    PROVE  RequestsInv'
<1>1. UNCHANGED <<methods, endpoint, handed, revoked, undone>>
  BY RequestKeepsRows DEF IInv, Request
<1>2. /\ client \in [Clients -> Requests] /\ client[c] \in Requests /\ RequestOK(c)
      /\ RequestsInv
  BY DEF IInv, RequestsInv
<1>3. CASE \E status \in Nat : Answer(c, status)
  BY <1>1, <1>2, <1>3, AnswerKeepsRequests
<1>4. CASE Serve(c)
  <2>1. Answer(c, 422) \/ Answer(c, 503) \/ \E status \in {200, 500} : Answer(c, status)
    BY <1>4 DEF Serve
  <2> QED  BY <1>3, <2>1
<1>5. CASE Resolve(c)
  <2>1. endpoint \in EndpointTable \cup {None}
    BY DEF IInv, RowsInv, Tables
  <2>2. \/ \E status \in Nat : Answer(c, status)
        \/ /\ endpoint # None /\ endpoint.method # None
           /\ client' = [client EXCEPT ![c].ep = endpoint, ![c].at = "dispatch"]
        \/ /\ endpoint # None /\ endpoint.method = None /\ endpoint.fallback
           /\ client[c].cred = AdminToken
           /\ client' = [client EXCEPT ![c].ep = endpoint, ![c].at = "granted"]
    BY <1>5 DEF Resolve
  <2>3. client[c].at = "resolve" /\ client[c].by = None
    BY <1>2, <1>5 DEF Resolve, RequestOK
  <2>4. CASE /\ endpoint # None /\ endpoint.method # None
             /\ client' = [client EXCEPT ![c].ep = endpoint, ![c].at = "dispatch"]
    <3> DEFINE next == [client[c] EXCEPT !.ep = endpoint, !.at = "dispatch"]
    <3>1. /\ next \in Requests /\ next.at = "dispatch" /\ next.shut = client[c].shut
          /\ next.cred = client[c].cred /\ next.stale = client[c].stale
          /\ next.ep = endpoint /\ next.by = client[c].by
      BY <1>2, <2>1 DEF Requests, Steps
    <3>2. client' = [client EXCEPT ![c] = next] /\ client'[c] = next
      BY <1>2, <2>4
    <3> HIDE DEF next
    <3>3. RequestOK(c)'
      BY <1>1, <1>2, <2>1, <2>3, <2>4, <3>1, <3>2 DEF RequestOK, Closed
    <3> QED  BY <1>1, <1>2, <3>1, <3>2, <3>3, OneRequestSteps
  <2>5. CASE /\ endpoint # None /\ endpoint.method = None /\ endpoint.fallback
             /\ client[c].cred = AdminToken
             /\ client' = [client EXCEPT ![c].ep = endpoint, ![c].at = "granted"]
    <3> DEFINE next == [client[c] EXCEPT !.ep = endpoint, !.at = "granted"]
    <3>1. /\ next \in Requests /\ next.at = "granted" /\ next.shut = client[c].shut
          /\ next.cred = client[c].cred /\ next.stale = client[c].stale
          /\ next.ep = endpoint /\ next.by = client[c].by
      BY <1>2, <2>1 DEF Requests, Steps
    <3>2. client' = [client EXCEPT ![c] = next] /\ client'[c] = next
      BY <1>2, <2>5
    <3>3. ~client[c].stale
      <4>1. handed \subseteq [method : Methods, secret : Nat, label : Labels]
        BY DEF IInv, RowsInv, Tables, Counters, Secrets
      <4> QED  BY <1>2, <2>5, <4>1, IdsAssumption DEF RequestOK
    <3>4. None \notin client[c].shut
      BY <1>2, IdsAssumption DEF Requests
    <3> HIDE DEF next
    <3>5. RequestOK(c)'
      BY <1>1, <1>2, <2>3, <3>1, <3>2 DEF RequestOK, Closed
    <3>6. next.by = None /\ next.cred = AdminToken /\ next.ep.method = None /\ next.ep.fallback
      BY <2>3, <2>5, <3>1
    <3>7. ~next.stale /\ next.by \notin next.shut
      BY <3>1, <3>3, <3>4, <3>6
    <3> QED  BY <1>1, <1>2, <3>1, <3>2, <3>5, <3>6, <3>7, OneRequestSteps
  <2> QED  BY <1>3, <2>2, <2>4, <2>5
<1>6. CASE Dispatch(c)
  <2> DEFINE m == client[c].ep.method
             next == [client[c] EXCEPT !.at = "verify"]
  <2>1. \/ \E status \in Nat : Answer(c, status)
        \/ ~Closed(m) /\ client[c].at = "dispatch" /\ client' = [client EXCEPT ![c].at = "verify"]
    BY <1>6 DEF Dispatch, Goto
  <2>2. CASE ~Closed(m) /\ client[c].at = "dispatch" /\ client' = [client EXCEPT ![c].at = "verify"]
    <3>1. /\ next \in Requests /\ next.at = "verify" /\ next.shut = client[c].shut
          /\ next.cred = client[c].cred /\ next.stale = client[c].stale
          /\ next.ep = client[c].ep /\ next.by = client[c].by
      BY <1>2 DEF Requests, Steps
    <3>2. client' = [client EXCEPT ![c] = next] /\ client'[c] = next
      BY <1>2, <2>2
    <3>3. m \notin client[c].shut
      BY <1>2, <2>2 DEF RequestOK
    <3> HIDE DEF next
    <3>4. RequestOK(c)'
      BY <1>1, <1>2, <2>2, <3>1, <3>2, <3>3 DEF RequestOK, Closed
    <3> QED  BY <1>1, <1>2, <3>1, <3>2, <3>4, OneRequestSteps
  <2> QED  BY <1>3, <2>1, <2>2
<1>7. CASE Verify(c)
  <2> DEFINE m == client[c].ep.method
             cred == client[c].cred
             next == [client[c] EXCEPT !.at = "granted", !.by = m]
  <2>1. \/ \E status \in Nat : Answer(c, status)
        \/ /\ methods[m] # None /\ Verifies(methods[m], cred)
           /\ client[c].at = "verify"
           /\ client' = [client EXCEPT ![c].at = "granted", ![c].by = m]
    BY <1>7 DEF Verify, Grant
  <2>2. CASE /\ methods[m] # None /\ Verifies(methods[m], cred)
             /\ client[c].at = "verify"
             /\ client' = [client EXCEPT ![c].at = "granted", ![c].by = m]
    <3>1. m \in Methods /\ m # None /\ m \notin client[c].shut
      BY <1>2, <2>2, IdsAssumption DEF RequestOK, EndpointTable
    <3>2. cred \in handed /\ cred.secret = methods[m].secret
      BY <2>2 DEF Verifies
    <3>3. cred.method \in Methods /\ cred.secret \in Secrets
      BY <3>2 DEF IInv, RowsInv, Tables, Counters
    <3>4. cred.method = m
      <4>1. Holds(m, cred.secret) /\ Holds(cred.method, cred.secret)
        BY <2>2, <3>2 DEF Holds
      <4> QED  BY <3>1, <3>3, <4>1 DEF IInv, RowsInv, Owned
    <3>5. ~client[c].stale
      BY <1>2, <2>2, <3>1, <3>2 DEF IInv, RowsInv, BackIsUndone, RequestOK
    <3>6. /\ next \in Requests /\ next.at = "granted" /\ next.shut = client[c].shut
          /\ next.cred = cred /\ next.stale = client[c].stale
          /\ next.ep = client[c].ep /\ next.by = m
      BY <1>2, <3>1 DEF Requests, Steps
    <3>7. client' = [client EXCEPT ![c] = next] /\ client'[c] = next
      BY <1>2, <2>2
    <3> HIDE DEF next
    <3>8. RequestOK(c)'
      BY <1>1, <1>2, <3>6, <3>7 DEF RequestOK, Closed
    <3> QED  BY <1>1, <1>2, <3>1, <3>2, <3>4, <3>5, <3>6, <3>7, <3>8, OneRequestSteps
  <2> QED  BY <1>3, <2>1, <2>2
<1> QED  BY <1>4, <1>5, <1>6, <1>7

LEMMA RequestKeepsRequests ==
    ASSUME IInv, NEW c \in Clients, Request(c)
    PROVE  RequestsInv'
BY ReceiveKeepsRequests, StepKeepsRequests DEF Request

-----------------------------------------------------------------------------
(***************************************************************************)
(* The theorems.                                                           *)
(***************************************************************************)
LEMMA AccessStarts == Init => IInv
<1> SUFFICES ASSUME Init PROVE IInv
  OBVIOUS
<1>1. Tables
  BY AccessRowsAssumption DEF Init, Tables
<1>2. Counters
  <2>1. 0 \in 0..MaxSecrets /\ 0 \in 0..MaxRequests
    BY AccessBoundsAssumption
  <2>2. /\ handed = {} /\ secrets = 0 /\ sent = 0 /\ revoked = {} /\ undone = {}
        /\ pathLost = FALSE
    BY DEF Init
  <2>3. pathLost \in BOOLEAN
    BY <2>2
  <2> QED  BY <2>1, <2>2, <2>3 DEF Counters
<1>3. Sessions /\ KindStays /\ Freshness
  BY DEF Init, Sessions, SessionOK, Idle, KindStays, Freshness, Fresh, Rotates
<1>4. Owned
  BY DEF Init, Owned, Secrets
<1>5. BackIsUndone /\ KeyRotationIsFinal
  BY DEF Init, BackIsUndone, KeyRotationIsFinal
<1>6. PathIsKept
  BY AccessRowsAssumption DEF Init, PathIsKept, HasPath
<1>7. Waiting \in Requests /\ ~Waiting.stale /\ Waiting.shut = {} /\ Waiting.at = "idle"
  BY DEF Waiting, Requests, Steps
<1>8. /\ client \in [Clients -> Requests] /\ \A c \in Clients : client[c] = Waiting
  BY <1>7 DEF Init
<1>9. \A c \in Clients : RequestOK(c)
  BY <1>7, <1>8 DEF RequestOK
<1>10. GrantHasProof /\ RevokedIsRefused /\ InactiveIsRefused
  BY <1>7, <1>8 DEF GrantHasProof, RevokedIsRefused, InactiveIsRefused
<1> QED
  BY <1>1, <1>2, <1>3, <1>4, <1>5, <1>6, <1>8, <1>9, <1>10 DEF IInv, RowsInv, RequestsInv

LEMMA AccessSteps == IInv /\ [Next]_vars => IInv'
<1> SUFFICES ASSUME IInv, [Next]_vars PROVE IInv'
  OBVIOUS
<1>1. CASE Administer
  BY <1>1, AdministerKeepsRows, AdministerKeepsRequests DEF IInv
<1>2. ASSUME NEW c \in Clients, Request(c) PROVE IInv'
  BY <1>2, RequestKeepsRows, RequestKeepsRequests DEF IInv
<1>3. CASE UNCHANGED vars
  <2>1. UNCHANGED <<methods, retired, endpoint, connection, admin, client, handed, secrets,
                    sent, revoked, undone, pathLost>>
    BY <1>3 DEF vars
  <2>2. Sessions'
    <3>1. \A a \in Admins : SessionOK(a) => SessionOK(a)'
      BY <2>1 DEF SessionOK, MethodSession, EndpointSession, Secrets
    <3> QED  BY <2>1, <3>1 DEF IInv, RowsInv, Sessions
  <2>3. PathIsKept'
    BY <2>1 DEF IInv, RowsInv, PathIsKept
  <2>4. RowsInv'
    BY <2>1, <2>2, <2>3, MethodsKeepRows DEF IInv, RowsInv, Tables, Counters
  <2>5. RequestsInv'
    BY <2>1, RequestsIgnore DEF IInv, Closed
  <2> QED  BY <2>4, <2>5 DEF IInv
<1> QED
  BY <1>1, <1>2, <1>3 DEF Next

THEOREM AccessInvariant == Spec => []IInv
<1> QED  BY AccessStarts, AccessSteps, PTL DEF Spec

(* Every row, session and request is well formed, and an endpoint's method   *)
(* exists (ON DELETE SET NULL).                                              *)
THEOREM AccessTypeCorrect == Spec => []TypeOK
<1>1. IInv => TypeOK
  <2> SUFFICES ASSUME IInv PROVE TypeOK
    OBVIOUS
  <2>1. \A c \in Clients : client[c].at \in Steps
    BY DEF IInv, RequestsInv, Requests
  <2> QED
    BY <2>1 DEF IInv, RowsInv, Tables, Counters, Sessions, Secrets, Steps, TypeOK
<1> QED  BY <1>1, AccessInvariant, PTL

(* The data plane lets nothing through without a credential of the method    *)
(* the endpoint names, or the administrator's token where it opted in.       *)
THEOREM ProofOfGrant == Spec => []GrantHasProof
<1>1. IInv => GrantHasProof
  BY DEF IInv, RequestsInv
<1> QED  BY <1>1, AccessInvariant, PTL

(* What a rotation replaced for good is refused to every later request.      *)
THEOREM RevokedRefused == Spec => []RevokedIsRefused
<1>1. IInv => RevokedIsRefused
  BY DEF IInv, RequestsInv
<1> QED  BY <1>1, AccessInvariant, PTL

(* A method closed since the request arrived never lets it through.          *)
THEOREM InactiveRefused == Spec => []InactiveIsRefused
<1>1. IInv => InactiveIsRefused
  BY DEF IInv, RequestsInv
<1> QED  BY <1>1, AccessInvariant, PTL

(* The key an api_key method replaced is never its key again, whatever       *)
(* updates and rotations of it overlap.                                      *)
THEOREM KeysStayRotated == Spec => []KeyRotationIsFinal
<1>1. IInv => KeyRotationIsFinal
  BY DEF IInv, RowsInv
<1> QED  BY <1>1, AccessInvariant, PTL

(* An endpoint loses its authentication path only to the deletion of its     *)
(* method or to an update over a row that had changed since it was read.     *)
THEOREM PathKept == Spec => []PathIsKept
<1>1. IInv => PathIsKept
  BY DEF IInv, RowsInv
<1> QED  BY <1>1, AccessInvariant, PTL
=============================================================================
