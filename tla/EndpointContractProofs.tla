----------------------- MODULE EndpointContractProofs -----------------------
(***************************************************************************)
(* Proofs about EndpointContract, for any SQL texts, schemas, payloads and *)
(* query strings and any number of administrators: first how SQL, schema   *)
(* and strategy are kept together, whatever the scanner finds in a text    *)
(* (its definitions stay closed there), then that what it finds is what    *)
(* Oracle's lexical rules say, for every text.                             *)
(***************************************************************************)
EXTENDS EndpointContract, NaturalLemmas, TLAPS

-----------------------------------------------------------------------------
(***************************************************************************)
(* The inductive invariant: what is known of a row, and of a PUT between   *)
(* its read and its commit, when the row may be another one already.       *)
(***************************************************************************)
ValidRow(r) == r \in Rows /\ ValidSchema(r.schema)

Payload(u) ==
    /\ \E r \in Rows : DOMAIN u \subseteq DOMAIN r /\ \A c \in DOMAIN u : u[c] = r[c]
    /\ "schema" \in DOMAIN u => ValidSchema(u["schema"])
    /\ {"sql", "schema"} \subseteq DOMAIN u => Matches(u["sql"], u["schema"])

SessionOK(q) ==
    q.op # "idle" =>
        /\ q.op \in {"free", "matched"}
        /\ ValidRow(q.read) /\ Payload(q.set)
        /\ LET new == Overlay(q.set, q.read)
           IN  /\ FilterMappings(new.strategy, new.schema)
               /\ q.op = "matched" => Matches(new.sql, new.schema)

AnswerOK(answer) ==
    /\ answer.status \in {"none", "refused", "executed", "cached"}
    /\ answer.status \in {"none", "refused"} => answer.bound = {}

(* A session's own steps aside, the invariant is about the row, which most   *)
(* actions leave alone, and about the answers.                               *)
RowInv ==
    /\ row # None => ValidRow(row)
    /\ row # None /\ ~loose => Matches(row.sql, row.schema)
    /\ scheduled => row # None
    /\ loose \in BOOLEAN /\ raced \in BOOLEAN
    /\ SnapshotIsMapped
SessionsInv == DOMAIN admin = Admins /\ \A a \in Admins : SessionOK(admin[a])
AnswersInv == AnswerOK(served) /\ AnswerOK(preview) /\ BindsAreBound /\ RefusalIsExact

IInv == RowInv /\ SessionsInv /\ AnswersInv /\ sent \in 0..MaxRequests

LEMMA Counted ==
    ASSUME IInv, Send
    PROVE  sent' \in 0..MaxRequests
BY ContractBoundsAssumption DEF IInv, Send

-----------------------------------------------------------------------------
(***************************************************************************)
(* Rows.                                                                   *)
(***************************************************************************)
LEMMA OverlayIsValid ==
    ASSUME NEW u, Payload(u), NEW r, ValidRow(r)
    PROVE  /\ ValidRow(Overlay(u, r))
           /\ Overlay(u, r).sql = IF "sql" \in DOMAIN u THEN u["sql"] ELSE r.sql
           /\ Overlay(u, r).schema = IF "schema" \in DOMAIN u THEN u["schema"] ELSE r.schema
<1> DEFINE new == [sql |-> IF "sql" \in DOMAIN u THEN u["sql"] ELSE r.sql,
                   schema |-> IF "schema" \in DOMAIN u THEN u["schema"] ELSE r.schema,
                   strategy |-> IF "strategy" \in DOMAIN u THEN u["strategy"] ELSE r.strategy]
<1>1. PICK full \in Rows : DOMAIN u \subseteq DOMAIN full /\ \A c \in DOMAIN u : u[c] = full[c]
  BY DEF Payload
<1>2. DOMAIN r = {"sql", "schema", "strategy"} /\ r \in Rows
  BY DEF ValidRow, Rows
<1>3. Overlay(u, r) = new
  BY <1>2 DEF Overlay
<1>4. /\ "sql" \in DOMAIN u => u["sql"] = full.sql
      /\ "schema" \in DOMAIN u => u["schema"] = full.schema
      /\ "strategy" \in DOMAIN u => u["strategy"] = full.strategy
  BY <1>1
<1>5. new \in Rows
  BY <1>2, <1>4 DEF Rows
<1>6. ValidSchema(new.schema)
  BY DEF Payload, ValidRow
<1> QED  BY <1>3, <1>5, <1>6 DEF ValidRow

(* The row a PUT writes is valid even over a row that has changed: each      *)
(* column is written whole.                                                  *)
LEMMA MergedIsValid ==
    ASSUME NEW q, Payload(q.set), ValidRow(q.read), NEW r, ValidRow(r)
    PROVE  ValidRow(Merged(q, r))
<1> DEFINE new == Overlay(q.set, q.read)
<1>1. ValidRow(new)
  BY OverlayIsValid
<1> HIDE DEF new
<1>2. DOMAIN r = {"sql", "schema", "strategy"}
  BY DEF ValidRow, Rows
<1>3. Merged(q, r) = [sql |-> IF new.sql # q.read.sql THEN new.sql ELSE r.sql,
                      schema |-> IF new.schema # q.read.schema THEN new.schema ELSE r.schema,
                      strategy |-> IF new.strategy # q.read.strategy THEN new.strategy
                                   ELSE r.strategy]
  BY <1>2 DEF Merged, new
<1>4. Merged(q, r) \in Rows /\ Merged(q, r).schema \in {new.schema, r.schema}
  BY <1>1, <1>3 DEF ValidRow, Rows
<1> QED  BY <1>1, <1>4 DEF ValidRow

(* Over the row it read, it writes the row it was validated for. *)
LEMMA MergedUnraced ==
    ASSUME NEW q, q.read = row
    PROVE  Merged(q, row) = Overlay(q.set, row)
<1>1. DOMAIN Overlay(q.set, row) = DOMAIN row
  BY DEF Overlay
<1>2. Merged(q, row) = [c \in DOMAIN row |-> Overlay(q.set, row)[c]]
  BY DEF Merged
<1> QED  BY <1>1, <1>2 DEF Overlay

-----------------------------------------------------------------------------
(***************************************************************************)
(* Values: what a request is refused for.                                  *)
(***************************************************************************)

(* A parameter that is omitted is refused exactly when it is required: its   *)
(* default was tried when the descriptor was saved.                          *)
LEMMA OmittedIsRefused ==
    ASSUME NEW d \in Descriptors, ValidDescriptor(d)
    PROVE  (\/ FieldDefault(d, TRUE) = Missing
            \/ ~Accepts(d, FieldDefault(d, TRUE))) <=> d.required
<1>1. CASE d.required
  BY <1>1 DEF FieldDefault
<1>2. CASE ~d.required
  <2>1. FieldDefault(d, TRUE) = FieldDefault(d, FALSE)
    BY <1>2 DEF FieldDefault
  <2>2. FieldDefault(d, TRUE) \in {None, "isodate", d.default}
    BY <1>2 DEF FieldDefault
  <2>3. None # Missing /\ d.default # Missing
    BY ContractBoundsAssumption DEF Missing, Descriptors, JsonValues, StringValues
  <2>4. FieldDefault(d, TRUE) # Missing
    BY <2>2, <2>3 DEF Missing
  <2>5. CASE ConfiguredDefaults(d) # {}
    BY <1>2, <2>1, <2>4, <2>5 DEF ValidDescriptor
  <2>6. CASE ConfiguredDefaults(d) = {}
    <3>1. d.default = None /\ ~d.null /\ d.expression = None
      BY <2>6 DEF ConfiguredDefaults, Descriptors
    <3>2. FieldDefault(d, TRUE) = None
      BY <1>2, <3>1 DEF FieldDefault
    <3> QED  BY <1>2, <2>4, <3>2 DEF Accepts
  <2> QED  BY <2>5, <2>6
<1> QED  BY <1>1, <1>2

(* A value that is given is refused exactly when it is not accepted. *)
LEMMA MissingIsRefused ==
    ASSUME NEW d \in Descriptors
    PROVE  ~Accepts(d, Missing)
<1>1. Missing # None
  BY ContractBoundsAssumption DEF Missing
<1>2. d.type \in Types
  BY DEF Descriptors
<1>3. Missing \notin Coercible(d.type)
  BY <1>2 DEF Types, Coercible, StringValues, Missing
<1> QED  BY <1>1, <1>3 DEF Accepts

LEMMA RefusesExactly ==
    ASSUME NEW schema, ValidSchema(schema), \A n \in DOMAIN schema : schema[n] \in Descriptors,
           NEW given
    PROVE  Refuses(schema, given) <=>
               \E n \in DOMAIN schema : IF n \in DOMAIN given THEN ~Accepts(schema[n], given[n])
                                        ELSE schema[n].required
<1> SUFFICES ASSUME NEW n \in DOMAIN schema
             PROVE  (\/ ValueOf(schema, given, n) = Missing
                     \/ ~Accepts(schema[n], ValueOf(schema, given, n)))
                    <=> IF n \in DOMAIN given THEN ~Accepts(schema[n], given[n])
                        ELSE schema[n].required
  BY DEF Refuses
<1>1. schema[n] \in Descriptors /\ ValidDescriptor(schema[n])
  BY DEF ValidSchema
<1>2. CASE n \in DOMAIN given
  BY <1>1, <1>2, MissingIsRefused DEF ValueOf
<1>3. CASE n \notin DOMAIN given
  BY <1>1, <1>3, OmittedIsRefused DEF ValueOf
<1> QED  BY <1>2, <1>3

-----------------------------------------------------------------------------
(***************************************************************************)
(* The steps.                                                              *)
(***************************************************************************)
LEMMA PreviewKeeps ==
    ASSUME IInv, Preview \/ TakePreview
    PROVE  IInv'
<1>1. UNCHANGED <<row, scheduled, admin, served, sent, loose, raced>>
  BY DEF Preview, TakePreview
<1>2. /\ AnswerOK(preview')
      /\ preview'.status = "executed" /\ ~preview'.loose
             => preview'.bound = ExtractBindParams(preview'.sql)
  <2>1. CASE TakePreview
    BY <2>1 DEF TakePreview, NoAnswer, AnswerOK
  <2>2. CASE Preview
    <3>1. PICK p \in Previews :
              /\ Matches(p.sql, p.schema)
              /\ LET refused == Refuses(p.schema, p.given)
                     values == IF DOMAIN p.schema = {} THEN p.given ELSE Validate(p.schema, p.given)
                 IN  preview' = [status |-> IF refused THEN "refused" ELSE "executed", sql |-> p.sql,
                                 bound |-> IF refused THEN {} ELSE DOMAIN values,
                                 excused |-> FALSE, loose |-> DOMAIN p.schema = {}]
      BY <2>2 DEF Preview
    <3>2. AnswerOK(preview')
      BY <3>1 DEF AnswerOK
    <3>3. ASSUME preview'.status = "executed", ~preview'.loose
          PROVE  preview'.bound = ExtractBindParams(preview'.sql)
      <4>1. ~Refuses(p.schema, p.given) /\ DOMAIN p.schema # {}
        BY <3>1, <3>3
      <4>2. preview'.bound = DOMAIN Validate(p.schema, p.given) /\ preview'.sql = p.sql
        BY <3>1, <4>1
      <4> QED  BY <3>1, <4>2 DEF Validate, Matches
    <3> QED  BY <3>2, <3>3
  <2> QED  BY <2>1, <2>2
<1>3. RowInv' /\ SessionsInv'
  BY <1>1 DEF IInv, RowInv, SessionsInv, SnapshotIsMapped
<1>4. AnswersInv'
  BY <1>1, <1>2 DEF IInv, AnswersInv, AnswerOK, BindsAreBound, RefusalIsExact
<1> QED  BY <1>1, <1>3, <1>4 DEF IInv

(* What leaves the answers alone. *)
LEMMA AnswersStay ==
    ASSUME IInv, UNCHANGED <<served, preview>>, sent' \in 0..MaxRequests, RowInv', SessionsInv'
    PROVE  IInv'
<1>1. AnswersInv'
  BY DEF IInv, AnswersInv, AnswerOK, BindsAreBound, RefusalIsExact
<1> QED  BY <1>1 DEF IInv

LEMMA CreateKeeps ==
    ASSUME IInv, CreateEndpoint
    PROVE  IInv'
<1>1. PICK new \in NewEndpoints : ValidNew(new) /\ row' = new
  BY DEF CreateEndpoint
<1>2. ValidRow(new) /\ Matches(new.sql, new.schema) /\ FilterMappings(new.strategy, new.schema)
  BY <1>1, PayloadsAssumption DEF ValidNew, ValidRow
<1>3. UNCHANGED <<scheduled, admin, served, preview, loose, raced>> /\ Send
  BY DEF CreateEndpoint
<1>4. row' # None
  BY <1>1, <1>2, ContractBoundsAssumption DEF ValidRow
<1>5. RowInv' /\ SessionsInv'
  BY <1>1, <1>2, <1>3, <1>4 DEF IInv, RowInv, SessionsInv, SnapshotIsMapped
<1> QED  BY <1>3, <1>5, Counted, AnswersStay

LEMMA OthersKeep ==
    ASSUME IInv, DeleteEndpoint \/ Attach \/ Detach
    PROVE  IInv'
<1>1. /\ Send
      /\ UNCHANGED <<admin, served, preview, loose, raced>>
      /\ \/ row' = None /\ scheduled' = FALSE
         \/ row' = row /\ (scheduled' => row # None)
  BY DEF DeleteEndpoint, Attach, Detach, IInv, RowInv
<1>2. RowInv' /\ SessionsInv'
  BY <1>1 DEF IInv, RowInv, SessionsInv, SnapshotIsMapped
<1> QED  BY <1>1, <1>2, Counted, AnswersStay

LEMMA ServeKeeps ==
    ASSUME IInv, Serve
    PROVE  IInv'
<1>1. PICK given \in Givens :
          LET refused == Refuses(row.schema, given)
          IN  served' = [status |-> IF refused THEN "refused"
                                    ELSE IF row.strategy = "live" THEN "executed" ELSE "cached",
                         sql |-> row.sql,
                         bound |-> IF refused THEN {} ELSE DOMAIN Validate(row.schema, given),
                         excused |-> \E n \in DOMAIN row.schema :
                             IF n \in DOMAIN given THEN ~Accepts(row.schema[n], given[n])
                             ELSE row.schema[n].required,
                         loose |-> loose]
  BY DEF Serve
<1>2. row # None /\ UNCHANGED <<row, scheduled, admin, preview, sent, loose, raced>>
  BY DEF Serve
<1>3. ValidRow(row) /\ (~loose => Matches(row.sql, row.schema)) /\ loose \in BOOLEAN
  BY <1>2 DEF IInv, RowInv
<1> DEFINE excused == \E n \in DOMAIN row.schema :
                          IF n \in DOMAIN given THEN ~Accepts(row.schema[n], given[n])
                          ELSE row.schema[n].required
<1>4. Refuses(row.schema, given) <=> excused
  BY <1>3, PayloadsAssumption, RefusesExactly DEF ValidRow, Rows
<1> HIDE DEF excused
<1>5. /\ served'.status = IF Refuses(row.schema, given) THEN "refused"
                          ELSE IF row.strategy = "live" THEN "executed" ELSE "cached"
      /\ served'.sql = row.sql /\ served'.loose = loose
      /\ served'.bound = IF Refuses(row.schema, given) THEN {}
                         ELSE DOMAIN Validate(row.schema, given)
      /\ served'.excused <=> excused
  BY <1>1 DEF excused
<1>6. AnswerOK(served') /\ (served'.status = "refused" <=> served'.excused)
  BY <1>4, <1>5 DEF AnswerOK
<1>7. served'.status = "executed" /\ ~served'.loose
          => served'.bound = ExtractBindParams(served'.sql)
  BY <1>3, <1>5 DEF Validate, Matches
<1>8. RowInv' /\ SessionsInv'
  BY <1>2 DEF IInv, RowInv, SessionsInv, SnapshotIsMapped
<1>9. AnswersInv'
  BY <1>2, <1>6, <1>7 DEF IInv, AnswersInv, AnswerOK, BindsAreBound, RefusalIsExact
<1> QED  BY <1>2, <1>8, <1>9 DEF IInv

LEMMA ReadKeeps ==
    ASSUME IInv, NEW a \in Admins, ReadEndpoint(a)
    PROVE  IInv'
<1>1. PICK u \in Updates :
          /\ ValidUpdate(u) /\ FitsRow(u, row)
          /\ admin' = [admin EXCEPT
                ![a] = Session(IF scheduled THEN "matched" ELSE "free", None, u, row)]
  BY DEF ReadEndpoint
<1>2. /\ Send /\ row # None /\ ValidRow(row)
      /\ UNCHANGED <<row, scheduled, served, preview, loose, raced>>
  BY DEF ReadEndpoint, IInv, RowInv
<1> DEFINE q == Session(IF scheduled THEN "matched" ELSE "free", None, u, row)
<1>3. /\ q.op = (IF scheduled THEN "matched" ELSE "free") /\ q.set = u /\ q.read = row
  BY DEF Session
<1>4. Payload(u)
  BY <1>1, PayloadsAssumption DEF ValidUpdate, Payload
<1>5. /\ FilterMappings(Overlay(u, row).strategy, Overlay(u, row).schema)
      /\ scheduled => Matches(Overlay(u, row).sql, Overlay(u, row).schema)
  BY <1>1 DEF FitsRow
<1> HIDE DEF q
<1>6. SessionOK(q)
  BY <1>2, <1>3, <1>4, <1>5 DEF SessionOK
<1>7. SessionsInv'
  BY <1>1, <1>6 DEF q, SessionsInv, IInv
<1>8. RowInv'
  BY <1>2 DEF IInv, RowInv, SnapshotIsMapped
<1> QED  BY <1>2, <1>7, <1>8, Counted, AnswersStay

LEMMA WriteKeeps ==
    ASSUME IInv, NEW a \in Admins, WriteEndpoint(a)
    PROVE  IInv'
<1> DEFINE q == admin[a]
           contract == {"sql", "schema"} \cap DOMAIN q.set
           new == Overlay(q.set, q.read)
<1>1. /\ q.op # "idle" /\ admin' = [admin EXCEPT ![a] = Idle]
      /\ UNCHANGED <<scheduled, served, preview, sent>>
      /\ IF row = None THEN UNCHANGED <<row, loose, raced>>
         ELSE /\ row' = Merged(q, row)
              /\ raced' = (q.read # row)
              /\ loose' = IF q.read # row THEN TRUE
                          ELSE IF Cardinality(contract) = 2 \/ q.op = "matched" THEN FALSE
                          ELSE loose \/ contract # {}
  BY DEF WriteEndpoint
<1>2. /\ q.op \in {"free", "matched"} /\ ValidRow(q.read) /\ Payload(q.set)
      /\ FilterMappings(new.strategy, new.schema)
      /\ q.op = "matched" => Matches(new.sql, new.schema)
  BY <1>1 DEF IInv, SessionsInv, SessionOK
<1>3. SessionsInv'
  <2>1. SessionOK(Idle)
    BY DEF SessionOK, Idle
  <2> QED  BY <1>1, <2>1 DEF IInv, SessionsInv
<1>4. CASE row = None
  <2>1. RowInv'
    BY <1>1, <1>4 DEF IInv, RowInv, SnapshotIsMapped
  <2> QED  BY <1>1, <1>3, <2>1, AnswersStay DEF IInv
<1>5. CASE row # None /\ q.read # row
  <2>1. row' = Merged(q, row) /\ raced' = TRUE /\ loose' = TRUE
    BY <1>1, <1>5
  <2>2. ValidRow(row)
    BY <1>5 DEF IInv, RowInv
  <2>3. ValidRow(row')
    BY <1>2, <2>1, <2>2, MergedIsValid
  <2>4. row' # None
    BY <2>3, ContractBoundsAssumption DEF ValidRow
  <2>5. RowInv'
    BY <1>1, <2>1, <2>3, <2>4 DEF RowInv, SnapshotIsMapped
  <2> QED  BY <1>1, <1>3, <2>5, AnswersStay DEF IInv
<1>6. CASE row # None /\ q.read = row
  <2>1. /\ row' = new /\ raced' = FALSE
        /\ loose' = IF Cardinality(contract) = 2 \/ q.op = "matched" THEN FALSE
                    ELSE loose \/ contract # {}
    BY <1>1, <1>6, MergedUnraced
  <2>2. /\ ValidRow(new)
        /\ new.sql = IF "sql" \in DOMAIN q.set THEN q.set["sql"] ELSE row.sql
        /\ new.schema = IF "schema" \in DOMAIN q.set THEN q.set["schema"] ELSE row.schema
    BY <1>2, <1>6, OverlayIsValid
  <2>3. row' # None
    BY <2>1, <2>2, ContractBoundsAssumption DEF ValidRow
  <2>4. loose' \in BOOLEAN
    BY <2>1 DEF IInv, RowInv
  <2>5. ASSUME ~loose'
        PROVE  Matches(row'.sql, row'.schema)
    <3>1. CASE q.op = "matched"
      BY <1>2, <2>1, <3>1
    <3>2. CASE Cardinality(contract) = 2
      <4>1. {"sql", "schema"} \subseteq DOMAIN q.set
        <5> HIDE DEF contract
        <5>1. Cardinality({}) = 0 /\ Cardinality({"sql"}) = 1 /\ Cardinality({"schema"}) = 1
          BY FS_EmptySet, FS_Singleton
        <5>2. contract # {} /\ contract # {"sql"} /\ contract # {"schema"}
          BY <3>2, <5>1
        <5> QED  BY <5>2 DEF contract
      <4> QED  BY <1>2, <2>1, <2>2, <4>1 DEF Payload
    <3>3. CASE q.op # "matched" /\ Cardinality(contract) # 2
      <4>1. contract = {} /\ ~loose
        BY <2>1, <2>5, <3>3
      <4>2. row'.sql = row.sql /\ row'.schema = row.schema
        BY <2>1, <2>2, <4>1
      <4> QED  BY <1>6, <4>1, <4>2 DEF IInv, RowInv
    <3> QED  BY <3>1, <3>2, <3>3
  <2>6. RowInv'
    BY <1>1, <1>2, <2>1, <2>2, <2>3, <2>4, <2>5 DEF RowInv, SnapshotIsMapped
  <2> QED  BY <1>1, <1>3, <2>6, AnswersStay DEF IInv
<1> QED  BY <1>4, <1>5, <1>6

-----------------------------------------------------------------------------
(***************************************************************************)
(* The theorems.                                                           *)
(***************************************************************************)
LEMMA ContractStarts == Init => IInv
<1> SUFFICES ASSUME Init PROVE IInv
  OBVIOUS
<1>1. RowInv
  BY DEF Init, RowInv, SnapshotIsMapped
<1>2. SessionsInv
  BY DEF Init, SessionsInv, SessionOK, Idle
<1>3. AnswersInv
  BY DEF Init, AnswersInv, NoAnswer, AnswerOK, BindsAreBound, RefusalIsExact
<1>4. sent \in 0..MaxRequests
  BY ContractBoundsAssumption DEF Init
<1> QED  BY <1>1, <1>2, <1>3, <1>4 DEF IInv

LEMMA ContractSteps == IInv /\ [Next]_vars => IInv'
<1> SUFFICES ASSUME IInv, [Next]_vars PROVE IInv'
  OBVIOUS
<1>1. CASE UNCHANGED vars
  <2>1. UNCHANGED <<row, scheduled, admin, served, preview, sent, loose, raced>>
    BY <1>1 DEF vars
  <2>2. RowInv' /\ SessionsInv'
    BY <2>1 DEF IInv, RowInv, SessionsInv, SnapshotIsMapped
  <2> QED  BY <2>1, <2>2, AnswersStay DEF IInv
<1> QED
  BY <1>1, PreviewKeeps, CreateKeeps, OthersKeep, ServeKeeps, ReadKeeps, WriteKeeps DEF Next

THEOREM ContractInvariant == Spec => []IInv
<1> QED  BY ContractStarts, ContractSteps, PTL DEF Spec

(* Every stored row is one that was sent, column by column, with valid       *)
(* descriptors; a schedule has its endpoint.                                 *)
THEOREM ContractTypeCorrect == Spec => []TypeOK
<1>1. IInv => TypeOK
  <2> SUFFICES ASSUME IInv PROVE TypeOK
    OBVIOUS
  <2>1. \A a \in Admins : admin[a].op \in {"idle", "free", "matched"}
    BY DEF IInv, SessionsInv, SessionOK
  <2> QED  BY <2>1 DEF IInv, RowInv, AnswersInv, ValidRow, AnswerOK, TypeOK
<1> QED  BY <1>1, ContractInvariant, PTL

(* What is executed has exactly the binds of its text.                       *)
THEOREM BindsBound == Spec => []BindsAreBound
<1>1. IInv => BindsAreBound
  BY DEF IInv, AnswersInv
<1> QED  BY <1>1, ContractInvariant, PTL

(* A snapshot endpoint stays mapped, unless PUTs raced.                      *)
THEOREM SnapshotMapped == Spec => []SnapshotIsMapped
<1>1. IInv => SnapshotIsMapped
  BY DEF IInv, RowInv
<1> QED  BY <1>1, ContractInvariant, PTL

(* A request is refused for what it gives or leaves out, never for a stored  *)
(* default.                                                                  *)
THEOREM RefusedExactly == Spec => []RefusalIsExact
<1>1. IInv => RefusalIsExact
  BY DEF IInv, AnswersInv
<1> QED  BY <1>1, ContractInvariant, PTL

-----------------------------------------------------------------------------
(***************************************************************************)
(* The scanner.  What the code finds by walking a text from left to right, *)
(* region by region, the reference says of each position.  The recursive   *)
(* functions of both exist (NaturalLemmas); that they agree is shown from  *)
(* the end of the text backwards.                                          *)
(***************************************************************************)
(* A part of a text, character by character. *)
LEMMA OneCharacter ==
    ASSUME NEW sql \in Text, NEW p \in Nat, NEW x
    PROVE  StartsWith(sql, <<x>>, p) <=> p <= Len(sql) /\ sql[p] = x
<1>1. Len(sql) \in Nat /\ Len(<<x>>) = 1 /\ DOMAIN <<x>> = {1} /\ <<x>>[1] = x /\ p + 1 - 1 = p
  BY DEF Text
<1> QED  BY <1>1 DEF StartsWith

LEMMA TwoCharacters ==
    ASSUME NEW sql \in Text, NEW p \in Nat, NEW x, NEW y
    PROVE  StartsWith(sql, <<x, y>>, p) <=> p + 1 <= Len(sql) /\ sql[p] = x /\ sql[p + 1] = y
<1>1. /\ Len(sql) \in Nat /\ Len(<<x, y>>) = 2 /\ DOMAIN <<x, y>> = {1, 2}
      /\ <<x, y>>[1] = x /\ <<x, y>>[2] = y /\ p + 1 - 1 = p /\ p + 2 - 1 = p + 1
  BY DEF Text
<1> QED  BY <1>1 DEF StartsWith

LEMMA ThreeCharacters ==
    ASSUME NEW sql \in Text, NEW p \in Nat, NEW x, NEW y, NEW z
    PROVE  StartsWith(sql, <<x, y, z>>, p) <=>
               p + 2 <= Len(sql) /\ sql[p] = x /\ sql[p + 1] = y /\ sql[p + 2] = z
<1>1. /\ Len(sql) \in Nat /\ Len(<<x, y, z>>) = 3 /\ DOMAIN <<x, y, z>> = {1, 2, 3}
      /\ <<x, y, z>>[1] = x /\ <<x, y, z>>[2] = y /\ <<x, y, z>>[3] = z
      /\ p + 1 - 1 = p /\ p + 2 - 1 = p + 1 /\ p + 3 - 1 = p + 2
  BY DEF Text
<1> QED  BY <1>1 DEF StartsWith

(* The least of a set of positions. *)
LEMMA MinOfPositions ==
    ASSUME NEW S \in SUBSET Nat, S # {}
    PROVE  Min(S) \in S /\ \A x \in S : Min(S) <= x
BY LeastElement DEF Min

LEMMA MinIsUnique ==
    ASSUME NEW S \in SUBSET Nat, NEW m \in S, \A x \in S : m <= x
    PROVE  Min(S) = m
<1>1. Min(S) \in S /\ Min(S) <= m /\ m <= Min(S)
  BY MinOfPositions
<1>2. Min(S) \in Nat /\ m \in Nat
  BY <1>1
<1> QED  BY <1>1, <1>2

(* Where the first closer is, seen from its end or from its beginning. *)
Closes(sql, part, i, shift, closers) ==
    /\ \A j \in Nat : j \in closers <=>
           \E p \in i .. Len(sql) : StartsWith(sql, part, p) /\ j = p + shift
    /\ \A p \in i .. Len(sql) : StartsWith(sql, part, p) => p + shift \in Nat

LEMMA LastOrFind ==
    ASSUME NEW sql \in Text, NEW part, NEW i \in Nat, NEW shift \in Int,
           NEW closers \in SUBSET Nat, Closes(sql, part, i, shift, closers)
    PROVE  /\ Find(sql, part, i) = Len(sql) + 1 => LastOr(sql, closers) = Len(sql)
           /\ Find(sql, part, i) # Len(sql) + 1 =>
                /\ Find(sql, part, i) \in i .. Len(sql)
                /\ StartsWith(sql, part, Find(sql, part, i))
                /\ LastOr(sql, closers) = Find(sql, part, i) + shift
<1>1. Len(sql) \in Nat
  BY DEF Text
<1> DEFINE hits == {p \in i .. Len(sql) : StartsWith(sql, part, p)}
<1>2. Find(sql, part, i) = IF hits = {} THEN Len(sql) + 1 ELSE Min(hits)
  BY DEF Find
<1>3. hits \in SUBSET Nat
  OBVIOUS
<1>4. hits = {} <=> closers = {}
  BY DEF Closes
<1>5. CASE hits = {}
  <2> HIDE DEF hits
  <2> QED  BY <1>1, <1>2, <1>4, <1>5 DEF LastOr
<1>6. CASE hits # {}
  <2>1. Min(hits) \in hits /\ \A p \in hits : Min(hits) <= p
    <3> HIDE DEF hits
    <3> QED  BY <1>3, <1>6, MinOfPositions
  <2> DEFINE m == Min(hits)
  <2>2. m \in i .. Len(sql) /\ StartsWith(sql, part, m)
    BY <2>1
  <2>3. m + shift \in closers /\ m + shift \in Nat
    BY <2>2 DEF Closes
  <2>4. ASSUME NEW j \in closers PROVE m + shift <= j
    <3>1. PICK p \in i .. Len(sql) : StartsWith(sql, part, p) /\ j = p + shift
      BY DEF Closes
    <3>2. m <= p
      BY <2>1, <3>1
    <3> HIDE DEF m
    <3> QED  BY <2>2, <3>1, <3>2
  <2>5. Min(closers) = m + shift
    <3> HIDE DEF m
    <3> QED  BY <2>3, <2>4, MinIsUnique
  <2>6. Find(sql, part, i) = m /\ LastOr(sql, closers) = m + shift
    <3> HIDE DEF hits
    <3> QED  BY <1>2, <1>4, <1>6, <2>5 DEF LastOr
  <2> HIDE DEF m
  <2> QED  BY <1>1, <2>2, <2>6
<1> QED  BY <1>5, <1>6

(* A region ends behind the token that starts where it does. *)
EndsBehind(sql, region, token) == token \in 0 .. Len(sql) /\ region = token + 1

LEMMA LineComment ==
    ASSUME NEW sql \in Text, NEW i \in 1 .. Len(sql)
    PROVE  LET token == LastOr(sql, {j \in i + 1..Len(sql) - 1 : sql[j + 1] = "\n"})
           IN  i <= token /\ EndsBehind(sql, Find(sql, <<"\n">>, i + 2), token)
<1> DEFINE closers == {j \in i + 1..Len(sql) - 1 : sql[j + 1] = "\n"}
<1>1. Len(sql) \in Nat /\ i \in Nat /\ i + 2 \in Nat /\ -1 \in Int
  BY DEF Text
<1>2. \A p \in i + 2 .. Len(sql) : p \in Nat /\ p + (-1) \in Nat /\ (p + (-1)) + 1 = p
                                   /\ (StartsWith(sql, <<"\n">>, p) <=> sql[p] = "\n")
  BY <1>1, OneCharacter
<1>3. closers \in SUBSET Nat
  BY <1>1
<1>4. ASSUME NEW j \in Nat
      PROVE  j \in closers <=>
               \E p \in i + 2 .. Len(sql) : StartsWith(sql, <<"\n">>, p) /\ j = p + (-1)
  <2>1. ASSUME j \in closers
        PROVE  \E p \in i + 2 .. Len(sql) : StartsWith(sql, <<"\n">>, p) /\ j = p + (-1)
    <3>1. j + 1 \in i + 2 .. Len(sql) /\ sql[j + 1] = "\n" /\ j = (j + 1) + (-1)
      BY <1>1, <2>1
    <3> QED  BY <1>2, <3>1
  <2>2. ASSUME NEW p \in i + 2 .. Len(sql), StartsWith(sql, <<"\n">>, p), j = p + (-1)
        PROVE  j \in closers
    BY <1>1, <1>2, <2>2
  <2> QED  BY <2>1, <2>2
<1> DEFINE end == Find(sql, <<"\n">>, i + 2)
<1> HIDE DEF closers
<1>7. Closes(sql, <<"\n">>, i + 2, -1, closers)
  BY <1>2, <1>4 DEF Closes
<1>5. /\ end = Len(sql) + 1 => LastOr(sql, closers) = Len(sql)
      /\ end # Len(sql) + 1 => end \in i + 2 .. Len(sql) /\ LastOr(sql, closers) = end + (-1)
  BY <1>1, <1>3, <1>7, LastOrFind
<1>6. i <= LastOr(sql, closers) /\ EndsBehind(sql, end, LastOr(sql, closers))
  <2> HIDE DEF end
  <2> QED  BY <1>1, <1>5 DEF EndsBehind
<1> QED  BY <1>6 DEF closers

(* A region that ends with two given characters, the first of them not       *)
(* before position i.                                                        *)
LEMMA ClosedByTwo ==
    ASSUME NEW sql \in Text, NEW i \in Nat, i >= 1, NEW x, NEW y,
           NEW closers \in SUBSET Nat,
           \A j \in Nat : j \in closers <=>
               j \in i + 1 .. Len(sql) /\ sql[j - 1] = x /\ sql[j] = y
    PROVE  /\ EndsBehind(sql, EndOf(sql, <<x, y>>, i), LastOr(sql, closers))
           /\ i - 2 < Len(sql) => LastOr(sql, closers) > i - 2
<1>1. Len(sql) \in Nat
  BY DEF Text
<1>2. \A p \in i .. Len(sql) : /\ p \in Nat /\ p + 1 \in Nat
                               /\ StartsWith(sql, <<x, y>>, p) <=>
                                    p + 1 <= Len(sql) /\ sql[p] = x /\ sql[p + 1] = y
  BY <1>1, TwoCharacters
<1>3. ASSUME NEW j \in Nat
      PROVE  j \in closers <=> \E p \in i .. Len(sql) : StartsWith(sql, <<x, y>>, p) /\ j = p + 1
  <2>1. ASSUME j \in closers
        PROVE  \E p \in i .. Len(sql) : StartsWith(sql, <<x, y>>, p) /\ j = p + 1
    <3>1. j - 1 \in i .. Len(sql) /\ (j - 1) + 1 = j /\ j <= Len(sql) /\ sql[j - 1] = x /\ sql[j] = y
      BY <1>1, <2>1
    <3> QED  BY <1>2, <3>1
  <2>2. ASSUME NEW p \in i .. Len(sql), StartsWith(sql, <<x, y>>, p), j = p + 1
        PROVE  j \in closers
    <3>1. p + 1 \in i + 1 .. Len(sql) /\ (p + 1) - 1 = p
      BY <1>1, <1>2, <2>2
    <3> QED  BY <1>2, <2>2, <3>1
  <2> QED  BY <2>1, <2>2
<1>7. Closes(sql, <<x, y>>, i, 1, closers)
  BY <1>2, <1>3 DEF Closes
<1> DEFINE first == Find(sql, <<x, y>>, i)
<1>4. /\ first = Len(sql) + 1 => LastOr(sql, closers) = Len(sql)
      /\ first # Len(sql) + 1 => /\ first \in i .. Len(sql) /\ StartsWith(sql, <<x, y>>, first)
                                 /\ LastOr(sql, closers) = first + 1
  BY <1>7, LastOrFind
<1>5. EndOf(sql, <<x, y>>, i) = IF first > Len(sql) THEN Len(sql) + 1 ELSE first + 2
  BY DEF EndOf
<1>6. first # Len(sql) + 1 => first + 1 <= Len(sql)
  BY <1>2, <1>4
<1> HIDE DEF first
<1> QED  BY <1>1, <1>4, <1>5, <1>6 DEF EndsBehind

LEMMA BlockComment ==
    ASSUME NEW sql \in Text, NEW i \in 1 .. Len(sql)
    PROVE  LET token == LastOr(sql, {j \in i + 3..Len(sql) : sql[j - 1] = "*" /\ sql[j] = "/"})
           IN  i <= token /\ EndsBehind(sql, EndOf(sql, <<"*", "/">>, i + 2), token)
<1> DEFINE closers == {j \in i + 3..Len(sql) : sql[j - 1] = "*" /\ sql[j] = "/"}
<1>1. Len(sql) \in Nat /\ i \in Nat /\ i + 2 \in Nat /\ i + 2 >= 1 /\ (i + 2) + 1 = i + 3
      /\ (i + 2) - 2 = i
  BY DEF Text
<1>2. /\ closers \in SUBSET Nat
      /\ \A j \in Nat : j \in closers <=>
             j \in (i + 2) + 1 .. Len(sql) /\ sql[j - 1] = "*" /\ sql[j] = "/"
  BY <1>1
<1> HIDE DEF closers
<1>3. /\ EndsBehind(sql, EndOf(sql, <<"*", "/">>, i + 2), LastOr(sql, closers))
      /\ (i + 2) - 2 < Len(sql) => LastOr(sql, closers) > (i + 2) - 2
  BY <1>1, <1>2, ClosedByTwo
<1>4. i <= LastOr(sql, closers)
  <2>1. LastOr(sql, closers) \in Nat
    BY <1>1, <1>3 DEF EndsBehind
  <2>2. CASE i < Len(sql)
    BY <1>1, <1>3, <2>1, <2>2
  <2>3. CASE i = Len(sql)
    <3>1. closers = {}
      BY <1>1, <2>3 DEF closers
    <3> QED  BY <1>1, <2>3, <3>1 DEF LastOr
  <2> QED  BY <1>1, <2>2, <2>3
<1> QED  BY <1>3, <1>4 DEF closers

(* The quotes q from a to j, counted from the left.                          *)
Quotes(sql, q, a, j) == Cardinality({k \in a..j : sql[k] = q})

LEMMA QuotesCounted ==
    ASSUME NEW sql, NEW q, NEW a \in Nat, NEW j \in Nat
    PROVE  /\ Quotes(sql, q, a, j) \in Nat
           /\ a > j => Quotes(sql, q, a, j) = 0
           /\ a <= j /\ sql[a] = q => Quotes(sql, q, a, j) = Quotes(sql, q, a + 1, j) + 1
           /\ a <= j /\ sql[a] # q => Quotes(sql, q, a, j) = Quotes(sql, q, a + 1, j)
<1> DEFINE S(b) == {k \in b..j : sql[k] = q}
<1>1. \A b \in Nat : IsFiniteSet(S(b)) /\ Cardinality(S(b)) \in Nat
  <2>1. ASSUME NEW b \in Nat PROVE IsFiniteSet(S(b)) /\ Cardinality(S(b)) \in Nat
    <3>1. IsFiniteSet(b .. j)
      BY FS_Interval
    <3>2. S(b) \subseteq b .. j
      OBVIOUS
    <3> HIDE DEF S
    <3> QED  BY <3>1, <3>2, FS_Subset, FS_CardinalityType
  <2> QED  BY <2>1
<1>2. a > j => Cardinality(S(a)) = 0
  <2>1. SUFFICES ASSUME a > j PROVE S(a) = {}
    BY FS_EmptySet
  <2> QED  BY <2>1
<1>3. ASSUME a <= j
      PROVE  Cardinality(S(a)) = Cardinality(S(a + 1)) + (IF sql[a] = q THEN 1 ELSE 0)
  <2>1. a \notin S(a + 1) /\ a + 1 \in Nat
    OBVIOUS
  <2>2. CASE sql[a] = q
    <3>1. S(a) = S(a + 1) \cup {a}
      BY <1>3, <2>2
    <3> HIDE DEF S
    <3> QED  BY <1>1, <2>1, <2>2, <3>1, FS_AddElement
  <2>3. CASE sql[a] # q
    <3>1. S(a) = S(a + 1)
      BY <1>3, <2>3
    <3> HIDE DEF S
    <3> QED  BY <1>1, <2>1, <2>3, <3>1
  <2> QED  BY <2>2, <2>3
<1> QED  BY <1>1, <1>2, <1>3 DEF Quotes

(* Where a quoted region that is open at position a closes. *)
ClosingQuotes(sql, q, a) ==
    {j \in a..Len(sql) : /\ sql[j] = q /\ Quotes(sql, q, a, j) % 2 = 1
                         /\ j < Len(sql) => sql[j + 1] # q}
QuoteEnd(sql, q, a) == LastOr(sql, ClosingQuotes(sql, q, a)) + 1

LEMMA QuoteEndSteps ==
    ASSUME NEW sql \in Text, NEW q, NEW a \in 1 .. Len(sql) + 2
    PROVE  /\ QuoteEnd(sql, q, a) \in Nat
           /\ a > Len(sql) => QuoteEnd(sql, q, a) = Len(sql) + 1
           /\ a <= Len(sql) => /\ QuoteEnd(sql, q, a) \in a + 1 .. Len(sql) + 1
                               /\ QuoteEnd(sql, q, a) =
                                    IF sql[a] # q THEN QuoteEnd(sql, q, a + 1)
                                    ELSE IF StartsWith(sql, <<q, q>>, a)
                                         THEN QuoteEnd(sql, q, a + 2) ELSE a + 1
<1>1. Len(sql) \in Nat /\ a \in Nat
  BY DEF Text
<1>2. ASSUME NEW b \in Nat PROVE ClosingQuotes(sql, q, b) \in SUBSET Nat /\ ClosingQuotes(sql, q, b) \subseteq b .. Len(sql)
  BY <1>1 DEF ClosingQuotes
<1>3. a > Len(sql) => QuoteEnd(sql, q, a) = Len(sql) + 1
  <2>1. a > Len(sql) => ClosingQuotes(sql, q, a) = {}
    BY <1>1 DEF ClosingQuotes
  <2> QED  BY <2>1 DEF QuoteEnd, LastOr
<1>4. ASSUME a <= Len(sql) PROVE QuoteEnd(sql, q, a) \in a + 1 .. Len(sql) + 1
  <2>1. LastOr(sql, ClosingQuotes(sql, q, a)) \in a .. Len(sql)
    <3>1. CASE ClosingQuotes(sql, q, a) = {}
      BY <1>1, <1>4, <3>1 DEF LastOr
    <3>2. CASE ClosingQuotes(sql, q, a) # {}
      <4>1. Min(ClosingQuotes(sql, q, a)) \in ClosingQuotes(sql, q, a)
        BY <1>1, <1>2, <3>2, MinOfPositions
      <4> QED  BY <1>1, <1>2, <3>2, <4>1 DEF LastOr
    <3> QED  BY <3>1, <3>2
  <2>2. LastOr(sql, ClosingQuotes(sql, q, a)) + 1 \in a + 1 .. Len(sql) + 1
    BY <1>1, <2>1
  <2> QED  BY <2>2 DEF QuoteEnd
<1>5. StartsWith(sql, <<q, q>>, a) <=> a + 1 <= Len(sql) /\ sql[a] = q /\ sql[a + 1] = q
  BY <1>1, TwoCharacters
<1>7. CASE a <= Len(sql) /\ sql[a] # q
  <2>1. ASSUME NEW j \in Nat PROVE j \in ClosingQuotes(sql, q, a) <=> j \in ClosingQuotes(sql, q, a + 1)
    <3>1. j >= a + 1 => Quotes(sql, q, a, j) = Quotes(sql, q, a + 1, j)
      BY <1>1, <1>7, QuotesCounted
    <3> QED  BY <1>1, <1>7, <3>1 DEF ClosingQuotes
  <2>2. ClosingQuotes(sql, q, a) = ClosingQuotes(sql, q, a + 1)
    <3>1. ClosingQuotes(sql, q, a) \in SUBSET Nat /\ ClosingQuotes(sql, q, a + 1) \in SUBSET Nat
      BY <1>1, <1>2
    <3> QED  BY <2>1, <3>1, Zenon
  <2> QED  BY <1>1, <1>4, <1>7, <2>2 DEF QuoteEnd
<1>8. CASE a <= Len(sql) /\ sql[a] = q /\ StartsWith(sql, <<q, q>>, a)
  <2>1. ASSUME NEW j \in Nat PROVE j \in ClosingQuotes(sql, q, a) <=> j \in ClosingQuotes(sql, q, a + 2)
    <3>1. /\ Quotes(sql, q, a, a) = 1 /\ Quotes(sql, q, a, a + 1) = 2
          /\ j >= a + 2 => Quotes(sql, q, a, j) = Quotes(sql, q, a + 2, j) + 2 /\ Quotes(sql, q, a + 2, j) \in Nat
      <4>1. (a + 1) + 1 = a + 2 /\ a + 1 \in Nat /\ a + 2 \in Nat
        BY <1>1
      <4>2. Quotes(sql, q, a, a) = Quotes(sql, q, a + 1, a) + 1 /\ Quotes(sql, q, a + 1, a) = 0
        BY <1>1, <1>8, <4>1, QuotesCounted
      <4>3. Quotes(sql, q, a, a + 1) = Quotes(sql, q, a + 1, a + 1) + 1 /\ Quotes(sql, q, a + 1, a + 1) = Quotes(sql, q, a + 2, a + 1) + 1
            /\ Quotes(sql, q, a + 2, a + 1) = 0
        BY <1>1, <1>5, <1>8, <4>1, QuotesCounted
      <4>4. j >= a + 2 => Quotes(sql, q, a, j) = Quotes(sql, q, a + 1, j) + 1 /\ Quotes(sql, q, a + 1, j) = Quotes(sql, q, a + 2, j) + 1
                          /\ Quotes(sql, q, a + 2, j) \in Nat
        BY <1>1, <1>5, <1>8, <4>1, QuotesCounted
      <4> QED  BY <4>2, <4>3, <4>4
    <3>2. \A n \in Nat : ((n + 2) % 2 = 1) <=> (n % 2 = 1)
      OBVIOUS
    <3>3. CASE j >= a + 2
      <4>1. (Quotes(sql, q, a, j) % 2 = 1) <=> (Quotes(sql, q, a + 2, j) % 2 = 1)
        <5> QED  BY <3>1, <3>2, <3>3
      <4> QED  BY <1>1, <3>3, <4>1 DEF ClosingQuotes
    <3>4. CASE j < a + 2
      <4>1. j \notin ClosingQuotes(sql, q, a + 2)
        BY <1>1, <3>4 DEF ClosingQuotes
      <4>2. j # a /\ j # a + 1 => j \notin ClosingQuotes(sql, q, a)
        BY <1>1, <3>4 DEF ClosingQuotes
      <4>3. a \notin ClosingQuotes(sql, q, a)
        BY <1>1, <1>5, <1>8 DEF ClosingQuotes
      <4>4. a + 1 \notin ClosingQuotes(sql, q, a)
        BY <1>1, <3>1 DEF ClosingQuotes
      <4> QED  BY <4>1, <4>2, <4>3, <4>4
    <3> QED  BY <1>1, <3>3, <3>4
  <2>2. ClosingQuotes(sql, q, a) = ClosingQuotes(sql, q, a + 2)
    <3>1. ClosingQuotes(sql, q, a) \in SUBSET Nat /\ ClosingQuotes(sql, q, a + 2) \in SUBSET Nat
      BY <1>1, <1>2
    <3> QED  BY <2>1, <3>1, Zenon
  <2> QED  BY <1>1, <1>4, <1>8, <2>2 DEF QuoteEnd
<1>9. CASE a <= Len(sql) /\ sql[a] = q /\ ~StartsWith(sql, <<q, q>>, a)
  <2>1. Quotes(sql, q, a, a) = 1
    <3>1. a + 1 \in Nat /\ a <= a /\ a + 1 > a
      BY <1>1
    <3> QED  BY <1>1, <1>9, <3>1, QuotesCounted
  <2>2. a \in ClosingQuotes(sql, q, a)
    BY <1>1, <1>5, <1>9, <2>1 DEF ClosingQuotes
  <2>3. \A j \in ClosingQuotes(sql, q, a) : a <= j
    BY <1>1, <1>2
  <2>4. Min(ClosingQuotes(sql, q, a)) = a
    <3> QED  BY <1>1, <1>2, <2>2, <2>3, MinIsUnique
  <2>5. LastOr(sql, ClosingQuotes(sql, q, a)) = a
    <3> QED  BY <2>2, <2>4 DEF LastOr
  <2> QED  BY <1>1, <1>4, <1>9, <2>5 DEF QuoteEnd
<1>10. QuoteEnd(sql, q, a) \in Nat
  BY <1>1, <1>3, <1>4
<1> QED  BY <1>1, <1>3, <1>4, <1>7, <1>8, <1>9, <1>10

(* The scanner's walk over doubled quotes ends where their count says. *)
LEMMA RegionIsQuoteEnd ==
    ASSUME NEW sql \in Text, NEW start \in 1 .. Len(sql), NEW quote
    PROVE  QuotedRegionEnd(sql, start, quote) = QuoteEnd(sql, quote, start + 1)
<1> DEFINE L == Len(sql)
           Walks(f) == f = [i \in 1 .. L + 2 |->
               IF i > L THEN L + 1
               ELSE IF sql[i] # quote THEN f[i + 1]
               ELSE IF StartsWith(sql, <<quote, quote>>, i) THEN f[i + 2]
               ELSE i + 1]
           f0 == [i \in 1 .. L + 2 |-> QuoteEnd(sql, quote, i)]
<1>1. L \in Nat /\ start + 1 \in 1 .. L + 2
  BY DEF Text
<1>2. Walks(f0)
  <2> DEFINE g == [i \in 1 .. L + 2 |->
               IF i > L THEN L + 1
               ELSE IF sql[i] # quote THEN f0[i + 1]
               ELSE IF StartsWith(sql, <<quote, quote>>, i) THEN f0[i + 2]
               ELSE i + 1]
  <2>1. ASSUME NEW i \in 1 .. L + 2 PROVE f0[i] = g[i]
    <3>1. CASE i > L
      <4>1. QuoteEnd(sql, quote, i) = L + 1
        BY <3>1, QuoteEndSteps
      <4> QED  BY <3>1, <4>1
    <3>2. CASE i <= L
      <4>1. i + 1 \in 1 .. L + 2 /\ i + 2 \in 1 .. L + 2 /\ ~(i > L)
        BY <1>1, <3>2
      <4>2. /\ f0[i] = QuoteEnd(sql, quote, i) /\ f0[i + 1] = QuoteEnd(sql, quote, i + 1)
            /\ f0[i + 2] = QuoteEnd(sql, quote, i + 2)
        BY <4>1
      <4>3. QuoteEnd(sql, quote, i) =
                IF sql[i] # quote THEN QuoteEnd(sql, quote, i + 1)
                ELSE IF StartsWith(sql, <<quote, quote>>, i)
                     THEN QuoteEnd(sql, quote, i + 2) ELSE i + 1
        BY <3>2, QuoteEndSteps
      <4> HIDE DEF f0
      <4> QED  BY <4>1, <4>2, <4>3
    <3> QED  BY <1>1, <3>1, <3>2
  <2>2. f0 = g
    BY <2>1
  <2> QED  BY <2>2
<1> DEFINE end == CHOOSE f : Walks(f)
<1>3. Walks(end) /\ QuotedRegionEnd(sql, start, quote) = end[start + 1]
  <2>1. Walks(end)
    <3> HIDE DEF Walks
    <3> QED  BY <1>2
  <2> QED  BY <2>1 DEF QuotedRegionEnd
<1> HIDE DEF end
<1> DEFINE P == {i \in 1 .. L + 2 : end[i] = QuoteEnd(sql, quote, i)}
<1>4. ASSUME NEW i \in 1 .. L + 2, \A m \in i + 1 .. L + 2 : m \in P PROVE i \in P
  <2>1. end[i] = IF i > L THEN L + 1
                 ELSE IF sql[i] # quote THEN end[i + 1]
                 ELSE IF StartsWith(sql, <<quote, quote>>, i) THEN end[i + 2]
                 ELSE i + 1
    BY <1>3
  <2>2. CASE i > L
    <3>1. QuoteEnd(sql, quote, i) = L + 1
      BY <2>2, QuoteEndSteps
    <3> QED  BY <2>1, <2>2, <3>1
  <2>3. CASE i <= L
    <3>1. i + 1 \in i + 1 .. L + 2 /\ i + 2 \in i + 1 .. L + 2 /\ ~(i > L)
      BY <1>1, <2>3
    <3>2. i + 1 \in P /\ i + 2 \in P
      BY <1>4, <3>1
    <3>3. end[i + 1] = QuoteEnd(sql, quote, i + 1) /\ end[i + 2] = QuoteEnd(sql, quote, i + 2)
      BY <3>2
    <3>4. QuoteEnd(sql, quote, i) =
              IF sql[i] # quote THEN QuoteEnd(sql, quote, i + 1)
              ELSE IF StartsWith(sql, <<quote, quote>>, i)
                   THEN QuoteEnd(sql, quote, i + 2) ELSE i + 1
      BY <2>3, QuoteEndSteps
    <3>5. end[i] = QuoteEnd(sql, quote, i)
      BY <2>1, <3>1, <3>3, <3>4
    <3> QED  BY <3>5
  <2> QED  BY <1>1, <2>2, <2>3
<1>5. \A i \in 1 .. L + 2 : i \in P
  <2>1. L + 2 \in Nat
    BY <1>1
  <2>2. \A i \in 1 .. L + 2 : (\A m \in i + 1 .. L + 2 : m \in P) => i \in P
    BY <1>4
  <2> HIDE DEF P, L
  <2> QED  BY <2>1, <2>2, DownFrom
<1> QED  BY <1>1, <1>3, <1>5

LEMMA TokenIsQuoteEnd ==
    ASSUME NEW sql \in Text, NEW i \in 1 .. Len(sql)
    PROVE  /\ i <= QuotedTokenEnd(sql, i)
           /\ EndsBehind(sql, QuoteEnd(sql, sql[i], i + 1), QuotedTokenEnd(sql, i))
<1> DEFINE q == sql[i]
           closers == {j \in i + 1..Len(sql) :
              /\ sql[j] = q /\ QuotesIn(sql, i, j) % 2 = 0
              /\ j < Len(sql) => sql[j + 1] # q}
<1>1. Len(sql) \in Nat /\ i \in Nat /\ i + 1 \in Nat /\ i + 1 \in 1 .. Len(sql) + 2
  BY DEF Text
<1>2. ASSUME NEW j \in i + 1 .. Len(sql)
      PROVE  (QuotesIn(sql, i, j) % 2 = 0) <=> (Quotes(sql, q, i + 1, j) % 2 = 1)
  <2>1. QuotesIn(sql, i, j) = Quotes(sql, q, i, j)
    BY DEF QuotesIn, Quotes
  <2>2. j \in Nat /\ i <= j
    BY <1>1
  <2>3. Quotes(sql, q, i, j) = Quotes(sql, q, i + 1, j) + 1 /\ Quotes(sql, q, i + 1, j) \in Nat
    <3> HIDE DEF q
    <3>1. q = sql[i]
      BY DEF q
    <3> QED  BY <1>1, <2>2, <3>1, QuotesCounted
  <2>4. \A n \in Nat : ((n + 1) % 2 = 0) <=> (n % 2 = 1)
    OBVIOUS
  <2> HIDE DEF q
  <2> QED  BY <2>1, <2>3, <2>4
<1>3. closers = ClosingQuotes(sql, q, i + 1)
  <2> HIDE DEF q
  <2>1. \A j \in i + 1 .. Len(sql) : j \in closers <=> j \in ClosingQuotes(sql, q, i + 1)
    BY <1>2 DEF ClosingQuotes
  <2>2. closers \subseteq i + 1 .. Len(sql) /\ ClosingQuotes(sql, q, i + 1) \subseteq i + 1 .. Len(sql)
    BY DEF ClosingQuotes
  <2> HIDE DEF closers
  <2> QED  BY <2>1, <2>2, Zenon
<1>4. QuotedTokenEnd(sql, i) = LastOr(sql, ClosingQuotes(sql, q, i + 1))
  BY <1>3 DEF QuotedTokenEnd
<1>5. LastOr(sql, ClosingQuotes(sql, q, i + 1)) \in i .. Len(sql)
  <2> DEFINE C == ClosingQuotes(sql, q, i + 1)
  <2>1. C \in SUBSET Nat /\ C \subseteq i + 1 .. Len(sql)
    BY <1>1 DEF ClosingQuotes
  <2> HIDE DEF C
  <2>2. C # {} => Min(C) \in C
    BY <2>1, MinOfPositions
  <2>3. CASE C = {}
    BY <1>1, <2>3 DEF LastOr, C
  <2>4. CASE C # {}
    <3>1. Min(C) \in i + 1 .. Len(sql)
      BY <2>1, <2>2, <2>4
    <3>2. Min(C) \in i .. Len(sql)
      BY <1>1, <3>1
    <3> QED  BY <2>4, <3>2 DEF LastOr, C
  <2> QED  BY <2>3, <2>4
<1> QED  BY <1>1, <1>4, <1>5 DEF EndsBehind, QuoteEnd

(* What starts at a position is the same to the scanner and to Oracle, and    *)
(* ends at the same place.                                                    *)
LEMMA RegionsAreTokens ==
    ASSUME NEW sql \in Text, NEW i \in 1 .. Len(sql)
    PROVE  /\ TokenEnd(sql, i) \in i - 1 .. Len(sql)
           /\ RegionEnd(sql, i) = IF TokenEnd(sql, i) = i - 1 THEN 0 ELSE TokenEnd(sql, i) + 1
<1>1. /\ Len(sql) \in Nat /\ i \in Nat
      /\ i + 1 \in Nat /\ i + 2 \in Nat /\ i + 3 \in Nat /\ i - 1 \in Nat
  BY DEF Text
<1> DEFINE ends(region, token) == /\ token \in i - 1 .. Len(sql)
                                  /\ region = IF token = i - 1 THEN 0 ELSE token + 1
<1>2. ASSUME NEW region, NEW token, EndsBehind(sql, region, token), i <= token
      PROVE  ends(region, token)
  BY <1>1, <1>2 DEF EndsBehind
<1>3. ends(0, i - 1)
  BY <1>1
<1>4. /\ StartsWith(sql, <<"-", "-">>, i) <=> i + 1 <= Len(sql) /\ sql[i] = "-" /\ sql[i + 1] = "-"
      /\ StartsWith(sql, <<"/", "*">>, i) <=> i + 1 <= Len(sql) /\ sql[i] = "/" /\ sql[i + 1] = "*"
      /\ StartsWith(sql, <<"n", "q">>, i) <=> i + 1 <= Len(sql) /\ sql[i] = "n" /\ sql[i + 1] = "q"
      /\ StartsWith(sql, <<"q", "'">>, i) <=> i + 1 <= Len(sql) /\ sql[i] = "q" /\ sql[i + 1] = "'"
  BY <1>1, TwoCharacters
<1>5. StartsWith(sql, <<"n", "q", "'">>, i) <=>
          i + 2 <= Len(sql) /\ sql[i] = "n" /\ sql[i + 1] = "q" /\ sql[i + 2] = "'"
  BY <1>1, ThreeCharacters
<1> DEFINE inWord == i > 1 /\ sql[i - 1] \in OracleIdentifierChars
           prefix == PrefixLength(sql, i)
           opening == i + prefix + 1
(* The prefix of an alternative literal, and where its quote is. *)
<1>6. /\ prefix \in {0, 1, 2}
      /\ prefix = 1 <=> ~inWord /\ i + 1 <= Len(sql) /\ sql[i] = "q" /\ sql[i + 1] = "'"
      /\ prefix = 2 <=>
           ~inWord /\ i + 2 <= Len(sql) /\ sql[i] = "n" /\ sql[i + 1] = "q" /\ sql[i + 2] = "'"
  <2> DEFINE is(m) == \/ m = 1 /\ StartsWith(sql, <<"q", "'">>, i)
                      \/ m = 2 /\ StartsWith(sql, <<"n", "q", "'">>, i)
             fits(n) == is(n) \/ (n = 0 /\ ~is(1) /\ ~is(2))
  <2>1. CASE inWord
    BY <2>1 DEF PrefixLength
  <2>2. CASE ~inWord
    <3>1. prefix = CHOOSE n \in {0, 1, 2} : fits(n)
      BY <2>2 DEF PrefixLength
    <3>2. ~(is(1) /\ is(2))
      BY <1>4, <1>5
    <3>3. \E n \in {0, 1, 2} : fits(n)
      OBVIOUS
    <3>4. prefix \in {0, 1, 2} /\ fits(prefix)
      <4> HIDE DEF fits, prefix
      <4> QED  BY <3>1, <3>3
    <3> HIDE DEF prefix
    <3>5. (prefix = 1 <=> is(1)) /\ (prefix = 2 <=> is(2))
      BY <3>2, <3>4
    <3> QED  BY <1>4, <1>5, <2>2, <3>4, <3>5
  <2> QED  BY <2>1, <2>2
<1>9. TokenEnd(sql, i) =
          IF opening > i + 1 /\ opening <= Len(sql) /\ sql[opening] \notin Blanks
          THEN AltTokenEnd(sql, opening)
          ELSE IF sql[i] \in {"'", "\""} THEN QuotedTokenEnd(sql, i)
          ELSE IF StartsWith(sql, <<"-", "-">>, i)
          THEN LastOr(sql, {j \in i + 1..Len(sql) - 1 : sql[j + 1] = "\n"})
          ELSE IF StartsWith(sql, <<"/", "*">>, i)
          THEN LastOr(sql, {j \in i + 3..Len(sql) : sql[j - 1] = "*" /\ sql[j] = "/"})
          ELSE i - 1
  BY DEF TokenEnd
<1>10. opening \in Nat /\ (opening > i + 1 <=> prefix > 0)
  <2> HIDE DEF prefix
  <2> QED  BY <1>1, <1>6
<1>7. CASE prefix > 0 /\ opening <= Len(sql) /\ sql[opening] \notin Blanks
  <2> DEFINE closers == {j \in opening + 2..Len(sql) :
                            sql[j] = "'" /\ sql[j - 1] = Closing(sql[opening])}
             token == LastOr(sql, closers)
  <2>1. opening \in i + 2 .. Len(sql) /\ opening \in Nat /\ opening + 1 \in Nat /\ opening + 1 >= 1
    BY <1>1, <1>6, <1>7
  <2>2. TokenEnd(sql, i) = token
    <3>1. TokenEnd(sql, i) = AltTokenEnd(sql, opening)
      <4> HIDE DEF opening, prefix
      <4> QED  BY <1>7, <1>9, <1>10
    <3> QED  BY <3>1 DEF AltTokenEnd
  <2>3. sql[i] \in {"q", "n"} /\ QuoteIndex(sql, i) = i + prefix /\ sql[i + prefix] = "'" /\ ~inWord
    BY <1>1, <1>4, <1>6, <1>7 DEF QuoteIndex
  <2>4. AltQuoteEnd(sql, i) = EndOf(sql, <<Closing(sql[opening]), "'">>, opening + 1)
    <3>1. i + prefix # 0
      BY <1>1, <1>6
    <3> QED  BY <1>1, <1>6, <1>7, <2>1, <2>3, <3>1 DEF AltQuoteEnd
  <2>5. RegionEnd(sql, i) = AltQuoteEnd(sql, i)
    BY <1>4, <2>3 DEF RegionEnd
  <2>6. /\ closers \in SUBSET Nat
        /\ \A j \in Nat : j \in closers <=>
               /\ j \in (opening + 1) + 1 .. Len(sql)
               /\ sql[j - 1] = Closing(sql[opening]) /\ sql[j] = "'"
    BY <2>1
  <2>7. EndsBehind(sql, EndOf(sql, <<Closing(sql[opening]), "'">>, opening + 1), token)
        /\ ((opening + 1) - 2 < Len(sql) => token > (opening + 1) - 2)
    <3> HIDE DEF closers, opening
    <3> QED  BY <2>1, <2>6, ClosedByTwo
  <2>8. i <= token
    <3>1. token \in Nat
      BY <2>7 DEF EndsBehind
    <3> HIDE DEF token, opening
    <3> QED  BY <1>1, <2>1, <2>7, <3>1
  <2> HIDE DEF token
  <2> QED  BY <1>2, <2>2, <2>4, <2>5, <2>7, <2>8
<1>8. CASE ~(prefix > 0 /\ opening <= Len(sql) /\ sql[opening] \notin Blanks)
  <2>1. TokenEnd(sql, i) =
            IF sql[i] \in {"'", "\""} THEN QuotedTokenEnd(sql, i)
            ELSE IF StartsWith(sql, <<"-", "-">>, i)
            THEN LastOr(sql, {j \in i + 1..Len(sql) - 1 : sql[j + 1] = "\n"})
            ELSE IF StartsWith(sql, <<"/", "*">>, i)
            THEN LastOr(sql, {j \in i + 3..Len(sql) : sql[j - 1] = "*" /\ sql[j] = "/"})
            ELSE i - 1
    <3> HIDE DEF opening, prefix
    <3> QED  BY <1>8, <1>9, <1>10
  <2>2. AltQuoteEnd(sql, i) = 0 \/ sql[i] \notin {"q", "n"}
    <3>1. SUFFICES ASSUME AltQuoteEnd(sql, i) # 0, sql[i] \in {"q", "n"} PROVE FALSE
      OBVIOUS
    <3>2. /\ ~inWord /\ QuoteIndex(sql, i) # 0 /\ QuoteIndex(sql, i) + 1 <= Len(sql)
          /\ sql[QuoteIndex(sql, i)] = "'" /\ sql[QuoteIndex(sql, i) + 1] \notin Blanks
      BY <1>1, <1>4, <3>1 DEF AltQuoteEnd, QuoteIndex
    <3>3. QuoteIndex(sql, i) = i + prefix /\ prefix > 0
      BY <1>1, <1>4, <1>6, <3>1, <3>2 DEF QuoteIndex
    <3> QED  BY <1>1, <1>6, <1>8, <3>2, <3>3
  <2>3. CASE sql[i] \in {"'", "\""}
    <3>1. RegionEnd(sql, i) = QuotedRegionEnd(sql, i, sql[i])
      BY <1>4, <2>3 DEF RegionEnd
    <3>2. TokenEnd(sql, i) = QuotedTokenEnd(sql, i)
      BY <2>1, <2>3
    <3>3. EndsBehind(sql, RegionEnd(sql, i), TokenEnd(sql, i)) /\ i <= TokenEnd(sql, i)
      BY <3>1, <3>2, RegionIsQuoteEnd, TokenIsQuoteEnd
    <3> QED  BY <1>2, <3>3
  <2>4. CASE StartsWith(sql, <<"-", "-">>, i)
    <3>1. sql[i] \notin {"'", "\""}
      BY <1>4, <2>4
    <3>2. /\ RegionEnd(sql, i) = Find(sql, <<"\n">>, i + 2)
          /\ TokenEnd(sql, i) = LastOr(sql, {j \in i + 1..Len(sql) - 1 : sql[j + 1] = "\n"})
      BY <2>1, <2>4, <3>1 DEF RegionEnd
    <3>3. EndsBehind(sql, RegionEnd(sql, i), TokenEnd(sql, i)) /\ i <= TokenEnd(sql, i)
      BY <3>2, LineComment
    <3> QED  BY <1>2, <3>3
  <2>5. CASE StartsWith(sql, <<"/", "*">>, i)
    <3>1. sql[i] \notin {"'", "\""} /\ ~StartsWith(sql, <<"-", "-">>, i)
      BY <1>4, <2>5
    <3>2. /\ RegionEnd(sql, i) = EndOf(sql, <<"*", "/">>, i + 2)
          /\ TokenEnd(sql, i) =
               LastOr(sql, {j \in i + 3..Len(sql) : sql[j - 1] = "*" /\ sql[j] = "/"})
      BY <2>1, <2>5, <3>1 DEF RegionEnd
    <3>3. EndsBehind(sql, RegionEnd(sql, i), TokenEnd(sql, i)) /\ i <= TokenEnd(sql, i)
      BY <3>2, BlockComment
    <3> QED  BY <1>2, <3>3
  <2>6. CASE /\ sql[i] \notin {"'", "\""} /\ ~StartsWith(sql, <<"-", "-">>, i)
             /\ ~StartsWith(sql, <<"/", "*">>, i)
    <3>1. TokenEnd(sql, i) = i - 1
      BY <2>1, <2>6
    <3>2. RegionEnd(sql, i) = 0
      BY <2>2, <2>6 DEF RegionEnd
    <3> QED  BY <1>3, <3>1, <3>2
  <2> QED  BY <2>3, <2>4, <2>5, <2>6
<1> QED  BY <1>6, <1>7, <1>8

(* The two recursive functions, by the equations they solve. *)
Masked(sql, f) ==
    f = [i \in 1..Len(sql) + 1 |->
            IF i > Len(sql) THEN {}
            ELSE LET end == RegionEnd(sql, i)
                 IN  IF end = 0 THEN f[i + 1] ELSE (i..end - 1) \cup f[end]]
Open(sql, f) ==
    f = [p \in 0..Len(sql) |->
            IF p = 0 THEN 0
            ELSE LET before == f[p - 1]
                 IN  IF before >= p THEN before ELSE TokenEnd(sql, p)]

LEMMA OpenExists ==
    ASSUME NEW sql \in Text
    PROVE  \E f : Open(sql, f)
<1> DEFINE L == Len(sql)
           step == [x \in Nat \X Nat |->
                       IF x[2] >= x[1] \/ x[1] \notin 1 .. L THEN x[2] ELSE TokenEnd(sql, x[1])]
<1>1. L \in Nat
  BY DEF Text
<1>2. \A p \in 1 .. L : TokenEnd(sql, p) \in Nat
  BY <1>1, RegionsAreTokens
<1>3. step \in [Nat \X Nat -> Nat]
  BY <1>2
<1>4. PICK f : Recurses(f, Nat, 0, step, L)
  <2>1. 0 \in Nat
    OBVIOUS
  <2> HIDE DEF step, L
  <2> QED  BY <1>1, <1>3, <2>1, RecursiveFunction
<1>5. /\ f \in [0 .. L -> Nat] /\ f[0] = 0
      /\ \A p \in 1 .. L : f[p] = step[<<p, f[p - 1]>>]
  BY <1>4 DEF Recurses
<1> DEFINE g == [p \in 0 .. L |->
                    IF p = 0 THEN 0
                    ELSE LET before == f[p - 1]
                         IN  IF before >= p THEN before ELSE TokenEnd(sql, p)]
<1>6. ASSUME NEW p \in 0 .. L PROVE f[p] = g[p]
  <2>1. CASE p = 0
    BY <1>5, <2>1
  <2>2. CASE p # 0
    <3>1. p \in 1 .. L /\ p \in Nat /\ p - 1 \in 0 .. L
      BY <1>1, <2>2
    <3>2. f[p - 1] \in Nat
      BY <1>5, <3>1
    <3>3. step[<<p, f[p - 1]>>] = IF f[p - 1] >= p THEN f[p - 1] ELSE TokenEnd(sql, p)
      BY <3>1, <3>2
    <3> HIDE DEF step
    <3> QED  BY <1>5, <2>2, <3>1, <3>3
  <2> QED  BY <2>1, <2>2
<1>7. f = g
  <2> HIDE DEF step
  <2> QED  BY <1>5, <1>6
<1> QED  BY <1>7 DEF Open

LEMMA MaskedExists ==
    ASSUME NEW sql \in Text
    PROVE  \E f : Masked(sql, f)
<1> DEFINE L == Len(sql)
           end(i) == RegionEnd(sql, i)
           here == [i \in 1 .. L |-> IF end(i) = 0 THEN {} ELSE i .. end(i) - 1]
           later == [i \in 1 .. L |-> IF end(i) = 0 THEN i + 1 ELSE end(i)]
<1>1. L \in Nat
  BY DEF Text
<1>2. ASSUME NEW i \in 1 .. L PROVE end(i) = 0 \/ end(i) \in i + 1 .. L + 1
  <2>1. /\ TokenEnd(sql, i) \in i - 1 .. L
        /\ end(i) = IF TokenEnd(sql, i) = i - 1 THEN 0 ELSE TokenEnd(sql, i) + 1
    BY RegionsAreTokens
  <2> HIDE DEF end
  <2> QED  BY <1>1, <2>1
<1>3. here \in [1 .. L -> SUBSET Nat]
  <2> HIDE DEF end
  <2>1. ASSUME NEW i \in 1 .. L PROVE (IF end(i) = 0 THEN {} ELSE i .. end(i) - 1) \in SUBSET Nat
    BY <1>1, <1>2
  <2> QED  BY <2>1
<1>4. later \in [1 .. L -> 1 .. L + 1] /\ \A i \in 1 .. L : later[i] > i
  <2> HIDE DEF end
  <2>1. ASSUME NEW i \in 1 .. L
        PROVE  /\ (IF end(i) = 0 THEN i + 1 ELSE end(i)) \in 1 .. L + 1
               /\ (IF end(i) = 0 THEN i + 1 ELSE end(i)) > i
    BY <1>1, <1>2
  <2> QED  BY <2>1
<1>5. PICK f : Collects(f, Nat, here, later, L)
  <2> HIDE DEF here, later, L
  <2> QED  BY <1>1, <1>3, <1>4, BackwardFunction
<1>6. /\ f \in [1 .. L + 1 -> SUBSET Nat] /\ f[L + 1] = {}
      /\ \A i \in 1 .. L : f[i] = here[i] \cup f[later[i]]
  BY <1>5 DEF Collects
<1> DEFINE g == [i \in 1 .. L + 1 |->
                    IF i > L THEN {}
                    ELSE IF end(i) = 0 THEN f[i + 1] ELSE (i .. end(i) - 1) \cup f[end(i)]]
<1>7. ASSUME NEW i \in 1 .. L + 1 PROVE f[i] = g[i]
  <2>1. CASE i > L
    <3>1. i = L + 1
      BY <1>1, <2>1
    <3> QED  BY <1>6, <2>1, <3>1
  <2>2. CASE ~(i > L)
    <3>1. i \in 1 .. L
      BY <1>1, <2>2
    <3>2. /\ here[i] = IF end(i) = 0 THEN {} ELSE i .. end(i) - 1
          /\ later[i] = IF end(i) = 0 THEN i + 1 ELSE end(i)
      <4> HIDE DEF end
      <4> QED  BY <3>1
    <3>3. f[i] = here[i] \cup f[later[i]]
      <4> HIDE DEF here, later
      <4> QED  BY <1>6, <3>1
    <3>4. g[i] = IF end(i) = 0 THEN f[i + 1] ELSE (i .. end(i) - 1) \cup f[end(i)]
      BY <2>2
    <3> HIDE DEF here, later, g, end
    <3> QED  BY <3>2, <3>3, <3>4
  <2> QED  BY <2>1, <2>2
<1>8. f = g
  <2> HIDE DEF here, later, end
  <2> QED  BY <1>6, <1>7
<1> QED  BY <1>8 DEF Masked

(* The end of the token open at a position, by the equation for it. *)
LEMMA OpenIsPosition ==
    ASSUME NEW sql \in Text, NEW open, Open(sql, open)
    PROVE  /\ open[0] = 0
           /\ \A p \in 1 .. Len(sql) :
                 open[p] = IF open[p - 1] >= p THEN open[p - 1] ELSE TokenEnd(sql, p)
           /\ \A p \in 0 .. Len(sql) : open[p] \in 0 .. Len(sql)
<1> DEFINE L == Len(sql)
<1>1. L \in Nat
  BY DEF Text
<1>2. open[0] = 0
  BY <1>1 DEF Open
<1>3. ASSUME NEW p \in 1 .. L
      PROVE  open[p] = IF open[p - 1] >= p THEN open[p - 1] ELSE TokenEnd(sql, p)
  BY <1>1 DEF Open
<1>4. \A p \in 0 .. L : open[p] \in 0 .. L
  <2> DEFINE Q == {p \in 0 .. L : open[p] \in 0 .. L}
  <2>1. 0 \in Q
    BY <1>1, <1>2
  <2>2. ASSUME NEW p \in 0 .. L, p \in Q, p < L PROVE p + 1 \in Q
    <3>1. p + 1 \in 1 .. L /\ (p + 1) - 1 = p /\ p + 1 \in 0 .. L
      BY <1>1, <2>2
    <3>2. open[p + 1] = IF open[p] >= p + 1 THEN open[p] ELSE TokenEnd(sql, p + 1)
      BY <1>3, <3>1
    <3>3. TokenEnd(sql, p + 1) \in 0 .. L
      <4>1. TokenEnd(sql, p + 1) \in (p + 1) - 1 .. L
        BY <3>1, RegionsAreTokens
      <4> QED  BY <1>1, <4>1
    <3> QED  BY <2>2, <3>1, <3>2, <3>3
  <2>3. \A p \in 0 .. L : p \in Q
    <3> HIDE DEF Q, L
    <3> QED  BY <1>1, <2>1, <2>2, UpTo
  <2> QED  BY <2>3
<1> QED  BY <1>2, <1>3, <1>4

(* From a position where no token is open, the scanner blanks what the tokens *)
(* from there on cover.                                                       *)
LEMMA BlanksTokens ==
    ASSUME NEW sql \in Text, NEW masked, Masked(sql, masked), NEW open, Open(sql, open)
    PROVE  masked[1] = {p \in 1 .. Len(sql) : open[p] >= p}
<1> DEFINE L == Len(sql)
           Covered(i) == {p \in i .. L : open[p] >= p}
           P == {i \in 1 .. L + 1 : open[i - 1] < i => masked[i] = Covered(i)}
<1>1. L \in Nat
  BY DEF Text
<1>2. open[0] = 0
  BY OpenIsPosition
<1>3. ASSUME NEW p \in 1 .. L
      PROVE  open[p] = IF open[p - 1] >= p THEN open[p - 1] ELSE TokenEnd(sql, p)
  BY OpenIsPosition
<1>4. \A p \in 0 .. L : open[p] \in 0 .. L
  BY OpenIsPosition
<1>5. L + 1 \in P
  <2>1. masked[L + 1] = {}
    BY <1>1 DEF Masked
  <2>2. Covered(L + 1) = {}
    BY <1>1
  <2> QED  BY <1>1, <2>1, <2>2
<1>6. ASSUME NEW i \in 1 .. L, \A m \in i + 1 .. L + 1 : m \in P PROVE i \in P
  <2> DEFINE end == RegionEnd(sql, i)
             token == TokenEnd(sql, i)
  <2>1. SUFFICES ASSUME open[i - 1] < i PROVE masked[i] = Covered(i)
    BY <1>1
  <2>2. /\ token \in i - 1 .. L
        /\ end = IF token = i - 1 THEN 0 ELSE token + 1
    BY RegionsAreTokens
  <2>3. masked[i] = IF end = 0 THEN masked[i + 1] ELSE (i .. end - 1) \cup masked[end]
    <3>1. i \in 1 .. Len(sql) + 1 /\ ~(i > Len(sql))
      BY <1>1
    <3> QED  BY <3>1 DEF Masked
  <2>4. i - 1 \in 0 .. L /\ i \in 0 .. L /\ i \in Nat /\ i + 1 \in i + 1 .. L + 1
    BY <1>1
  <2>5. open[i] = token
    <3>1. open[i - 1] \in 0 .. L
      BY <1>4, <2>4
    <3>2. ~(open[i - 1] >= i)
      BY <2>1, <2>4, <3>1
    <3> QED  BY <1>3, <3>2
  <2> HIDE DEF end, token
  <2>6. CASE token = i - 1
    <3>1. i + 1 \in P /\ (i + 1) - 1 = i /\ open[i] < i + 1 /\ ~(open[i] >= i)
      BY <1>6, <2>4, <2>5, <2>6
    <3>2. masked[i] = Covered(i + 1)
      <4> HIDE DEF Covered
      <4> QED  BY <2>2, <2>3, <2>6, <3>1
    <3>3. Covered(i) = Covered(i + 1)
      <4>1. \A p \in i .. L : p = i \/ p \in i + 1 .. L
        BY <1>1
      <4>2. \A p \in i + 1 .. L : p \in i .. L
        BY <1>1
      <4> QED  BY <3>1, <4>1, <4>2
    <3> QED  BY <3>2, <3>3
  <2>7. CASE token # i - 1
    <3>1. token \in i .. L /\ end = token + 1 /\ end # 0 /\ end \in i + 1 .. L + 1
      BY <1>1, <2>2, <2>4, <2>7
    (* The token stays open to its end. *)
    <3>2. ASSUME NEW p \in i .. token PROVE open[p] = token
      <4> DEFINE Q == {n \in 0 .. token - i : open[i + n] = token}
      <4>1. token - i \in Nat /\ 0 \in Q
        BY <1>1, <2>4, <2>5, <3>1
      <4>2. ASSUME NEW n \in 0 .. token - i, n \in Q, n < token - i PROVE n + 1 \in Q
        <5>1. /\ i + (n + 1) \in 1 .. L /\ (i + (n + 1)) - 1 = i + n /\ token >= i + (n + 1)
              /\ n + 1 \in 0 .. token - i
          BY <1>1, <2>4, <3>1, <4>2
        <5>2. open[i + (n + 1)] = IF open[i + n] >= i + (n + 1) THEN open[i + n]
                                  ELSE TokenEnd(sql, i + (n + 1))
          BY <1>3, <5>1
        <5>3. open[i + n] = token
          BY <4>2
        <5> QED  BY <5>1, <5>2, <5>3
      <4>3. \A n \in 0 .. token - i : n \in Q
        <5> HIDE DEF Q
        <5> QED  BY <4>1, <4>2, UpTo
      <4>4. p - i \in 0 .. token - i /\ i + (p - i) = p
        BY <1>1, <2>4, <3>1
      <4> QED  BY <4>3, <4>4
    <3>3. end \in P /\ end - 1 = token /\ open[token] = token /\ token < end
      BY <1>1, <1>6, <2>4, <3>1, <3>2
    <3>4. masked[i] = (i .. token) \cup Covered(end)
      <4> HIDE DEF Covered
      <4> QED  BY <2>3, <3>1, <3>3
    <3>5. Covered(i) = (i .. token) \cup Covered(end)
      <4>1. \A p \in i .. L : p \in i .. token \/ p \in end .. L
        BY <1>1, <2>4, <3>1
      <4>2. \A p \in i .. token : p \in i .. L /\ open[p] >= p
        BY <1>1, <2>4, <3>1, <3>2
      <4>3. \A p \in end .. L : p \in i .. L
        BY <1>1, <2>4, <3>1
      <4> QED  BY <4>1, <4>2, <4>3
    <3> QED  BY <3>4, <3>5
  <2> QED  BY <2>6, <2>7
<1>7. 1 \in P
  <2>1. \A i \in 1 .. L + 1 : (\A m \in i + 1 .. L + 1 : m \in P) => i \in P
    <3>1. \A i \in 1 .. L + 1 : i \in 1 .. L \/ i = L + 1
      BY <1>1
    <3> HIDE DEF P
    <3> QED  BY <1>5, <1>6, <3>1
  <2>2. L + 1 \in Nat /\ 1 \in 1 .. L + 1
    BY <1>1
  <2> HIDE DEF P, L
  <2> QED  BY <2>1, <2>2, DownFrom
<1>8. open[1 - 1] < 1
  BY <1>2
<1> QED  BY <1>7, <1>8

LEMMA MaskIsExact ==
    ASSUME NEW sql \in Text
    PROVE  MasksLexically(sql)
<1> DEFINE masked == CHOOSE f : Masked(sql, f)
           open == CHOOSE f : Open(sql, f)
<1>1. Masked(sql, masked) /\ Open(sql, open)
  BY MaskedExists, OpenExists
<1>2. MaskSqlNonCode(sql) = [p \in DOMAIN sql |-> IF p \in masked[1] THEN " " ELSE sql[p]]
  BY DEF MaskSqlNonCode, Masked
<1>3. CodePositions(sql) = {p \in DOMAIN sql : open[p] < p}
  BY DEF CodePositions, Open
<1> HIDE DEF masked, open
<1>4. masked[1] = {p \in 1 .. Len(sql) : open[p] >= p}
  BY <1>1, BlanksTokens
<1>5. DOMAIN sql = 1 .. Len(sql) /\ Len(sql) \in Nat
  BY DEF Text
<1>6. ASSUME NEW p \in DOMAIN sql PROVE p \in masked[1] <=> p \notin CodePositions(sql)
  <2>1. open[p] \in Int
    BY <1>1, <1>5, OpenIsPosition
  <2> QED  BY <1>3, <1>4, <1>5, <2>1
<1>7. [p \in DOMAIN sql |-> IF p \in masked[1] THEN " " ELSE sql[p]]
        = [p \in DOMAIN sql |-> IF p \in CodePositions(sql) THEN sql[p] ELSE " "]
  BY <1>6
<1> QED  BY <1>2, <1>7 DEF MasksLexically

(* Every previewed text is a text. *)
LEMMA PreviewedStarts == Init => preview.sql \in Text
<1>1. <<>> \in Text
  BY DEF Text
<1> QED  BY <1>1 DEF Init, NoAnswer

LEMMA PreviewedSteps == preview.sql \in Text /\ [Next]_vars => (preview.sql \in Text)'
<1> SUFFICES ASSUME preview.sql \in Text, [Next]_vars PROVE preview'.sql \in Text
  OBVIOUS
<1>1. CASE Preview
  <2>1. PICK p \in Previews : preview'.sql = p.sql
    BY <1>1 DEF Preview
  <2> QED  BY <2>1, PayloadsAssumption
<1>2. CASE TakePreview
  <2>1. <<>> \in Text
    BY DEF Text
  <2> QED  BY <1>2, <2>1 DEF TakePreview, NoAnswer
<1>3. ASSUME UNCHANGED preview PROVE preview'.sql \in Text
  BY <1>3
<1> QED
  BY <1>1, <1>2, <1>3 DEF Next, vars, CreateEndpoint, ReadEndpoint, WriteEndpoint, DeleteEndpoint,
     Attach, Detach, Serve

(* The scanner blanks what Oracle does not read as code, whatever text is     *)
(* previewed.                                                                 *)
THEOREM MaskLexical == Spec => []MaskIsLexical
<1>1. preview.sql \in Text => MaskIsLexical
  BY MaskIsExact DEF MaskIsLexical
<1>2. Spec => [](preview.sql \in Text)
  BY PreviewedStarts, PreviewedSteps, PTL DEF Spec
<1> QED  BY <1>1, <1>2, PTL
=============================================================================
