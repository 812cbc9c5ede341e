------------------------- MODULE SnapshotServeProofs -------------------------
(***************************************************************************)
(* Proofs about SnapshotServe: the coverage rule is sound for every query, *)
(* mapping and contents of Oracle, and what it serves is complete.         *)
(***************************************************************************)
EXTENDS SnapshotServe, TLAPS

-----------------------------------------------------------------------------
(***************************************************************************)
(* The operators.                                                          *)
(***************************************************************************)

(* The column mapping renames the cells of a row and loses none. *)
LEMMA MapRowCell ==
    ASSUME NEW ep \in Endpoints, NEW r \in Rows, NEW x \in RawColumns
    PROVE  /\ ep.columnMap[x] \in DOMAIN MapRow(ep, r)
           /\ MapRow(ep, r)[ep.columnMap[x]] = r[x]
<1> DEFINE C == {ep.columnMap[y] : y \in RawColumns}
<1>1. ep.columnMap[x] \in C
  OBVIOUS
<1>2. \A y \in RawColumns : ep.columnMap[y] = ep.columnMap[x] => y = x
  BY EndpointsAssumption
<1>3. (CHOOSE y \in RawColumns : ep.columnMap[y] = ep.columnMap[x]) = x
  BY <1>2
<1> QED
  BY <1>1, <1>3 DEF MapRow

(* A request or a binding gives every declared parameter NULL or a value its *)
(* type accepts.                                                             *)
LEMMA BindingValue ==
    ASSUME NEW ep \in Endpoints, Truthful(ep), NEW b \in Bindings(ep), NEW p \in ep.params
    PROVE  /\ p \in DOMAIN b /\ Lookup(b, p) = b[p]
           /\ b[p] # Null => b[p] \in ep.filters[p].accepts /\ b[p] \in Int
<1>1. DOMAIN b = ep.params /\ b[p] \in Accepted(ep, p)
  BY DEF Bindings
<1>2. p \in DOMAIN ep.filters /\ ep.filters[p].accepts \subseteq Int
  BY EndpointsAssumption DEF Truthful
<1> QED
  BY <1>1, <1>2 DEF Accepted, Lookup

(* One parameter, one row: if its value in the run covers its value in the   *)
(* request, a row the SQL selects for the request it also selects for the    *)
(* run, and of those whose cell is readable the filter keeps just these.     *)
LEMMA OneParameter ==
    ASSUME NEW ep \in Endpoints, Truthful(ep), NEW r \in Rows, NEW p \in ep.params,
           NEW resolved \in Bindings(ep), NEW request_ \in Bindings(ep),
           CoversParameter(ep.filters[p], resolved[p], request_[p])
    PROVE  /\ Selects(ep.sql[p], r, request_[p]) => Selects(ep.sql[p], r, resolved[p])
           /\ (resolved[p] # Null => r[ep.sql[p].column] \in ep.filters[p].accepts)
              => (Selects(ep.sql[p], r, request_[p])
                  <=> /\ Selects(ep.sql[p], r, resolved[p])
                      /\ request_[p] # Null
                           => Satisfies(MapRow(ep, r), ep.filters[p], request_[p]))
<1> DEFINE f == ep.filters[p]
           q == ep.sql[p]
           cell == r[ep.sql[p].column]
           row == MapRow(ep, r)
<1>1. q.column \in RawColumns
  BY EndpointsAssumption
<1>2. f.column \in DOMAIN row /\ row[f.column] = cell
  BY <1>1, MapRowCell DEF Truthful
<1>3. f.operator = q.operator /\ (f.nullMeansAll => Rows \subseteq q.nullSelects)
  BY DEF Truthful
<1>4. cell \in Int \cup {Null}
  BY <1>1, RowsAssumption
<1>5. /\ resolved[p] # Null => resolved[p] \in Int
      /\ request_[p] # Null => request_[p] \in f.accepts /\ request_[p] \in Int
  BY BindingValue
<1>6. Satisfies(row, f, request_[p])
      <=> cell # Null /\ cell \in f.accepts /\ Compare(q.operator, cell, request_[p])
  BY <1>2, <1>3 DEF Satisfies
<1>7. CASE request_[p] = Null
  BY <1>7 DEF CoversParameter
<1>8. CASE request_[p] # Null /\ resolved[p] = Null
  <2>1. q.operator = "eq" /\ r \in q.nullSelects
    BY <1>3, <1>8 DEF CoversParameter
  <2>2. Selects(q, r, resolved[p])
    BY <1>8, <2>1 DEF Selects
  <2>3. Selects(q, r, request_[p]) <=> cell # Null /\ cell = request_[p]
    BY <1>8, <2>1 DEF Selects, Compare
  <2> QED
    BY <1>5, <1>6, <1>8, <2>1, <2>2, <2>3 DEF Compare
<1>9. CASE request_[p] # Null /\ resolved[p] # Null
  <2>1. Compare(q.operator, request_[p], resolved[p])
    BY <1>3, <1>9 DEF CoversParameter
  <2>2. /\ Selects(q, r, request_[p]) <=> cell # Null /\ Compare(q.operator, cell, request_[p])
        /\ Selects(q, r, resolved[p]) <=> cell # Null /\ Compare(q.operator, cell, resolved[p])
    BY <1>9 DEF Selects
  <2>3. cell # Null /\ Compare(q.operator, cell, request_[p])
        => Compare(q.operator, cell, resolved[p])
    BY <1>4, <1>5, <1>9, <2>1 DEF Compare
  <2> QED
    BY <1>6, <1>9, <2>2, <2>3
<1> QED
  BY <1>7, <1>8, <1>9

(* The coverage rule is sound: for any query whose mappings are truthful,    *)
(* any contents of Oracle and any parameters, filtering a whole, validated   *)
(* snapshot that covers the request gives the query's answer to the request. *)
THEOREM CoverageSound ==
    ASSUME NEW ep \in Endpoints, Truthful(ep), NEW rows \in SUBSET Rows,
           NEW resolved \in Bindings(ep), NEW request_ \in Bindings(ep),
           Covers(ep.filters, request_, resolved),
           ep.params = {} \/ RowsMatchResolved(Result(ep, rows, resolved), ep.filters, resolved)
    PROVE  FilterRows(Result(ep, rows, resolved), ep.filters, request_)
               = Result(ep, rows, request_)
<1> DEFINE snapshot == Result(ep, rows, resolved)
<1>1. DOMAIN ep.filters = ep.params
  BY DEF Truthful
<1>2. \A p \in ep.params : CoversParameter(ep.filters[p], resolved[p], request_[p])
  BY <1>1, BindingValue DEF Covers
<1>3. ASSUME NEW r \in rows, SqlSelects(ep, r, resolved), NEW p \in ep.params, resolved[p] # Null
      PROVE  r[ep.sql[p].column] \in ep.filters[p].accepts
  <2>1. MapRow(ep, r) \in snapshot
    BY <1>3 DEF Result
  <2>2. MapRow(ep, r) \in FilterRows(snapshot, ep.filters, resolved)
    BY <1>3, <2>1 DEF RowsMatchResolved
  <2>3. Satisfies(MapRow(ep, r), ep.filters[p], resolved[p])
    BY <1>1, <1>3, <2>2, BindingValue DEF FilterRows
  <2>4. ep.sql[p].column \in RawColumns
    BY EndpointsAssumption
  <2> QED
    BY <2>3, <2>4, MapRowCell DEF Satisfies, Truthful
<1>4. ASSUME NEW r \in rows
      PROVE  SqlSelects(ep, r, request_)
             <=> /\ SqlSelects(ep, r, resolved)
                 /\ \A p \in DOMAIN ep.filters : Lookup(request_, p) # Null
                      => Satisfies(MapRow(ep, r), ep.filters[p], Lookup(request_, p))
  <2>1. \A p \in ep.params :
          /\ Selects(ep.sql[p], r, request_[p]) => Selects(ep.sql[p], r, resolved[p])
          /\ (resolved[p] # Null => r[ep.sql[p].column] \in ep.filters[p].accepts)
             => (Selects(ep.sql[p], r, request_[p])
                 <=> /\ Selects(ep.sql[p], r, resolved[p])
                     /\ request_[p] # Null
                          => Satisfies(MapRow(ep, r), ep.filters[p], request_[p]))
    BY <1>2, OneParameter
  <2>2. SqlSelects(ep, r, request_) => SqlSelects(ep, r, resolved)
    BY <2>1 DEF SqlSelects
  <2>3. \A p \in ep.params : Lookup(request_, p) = request_[p]
    BY BindingValue
  <2>4. SqlSelects(ep, r, resolved) =>
          \A p \in ep.params : resolved[p] # Null
                => r[ep.sql[p].column] \in ep.filters[p].accepts
    BY <1>3
  <2>5. ASSUME SqlSelects(ep, r, resolved), NEW p \in ep.params
        PROVE  Selects(ep.sql[p], r, request_[p])
               <=> (request_[p] # Null => Satisfies(MapRow(ep, r), ep.filters[p], request_[p]))
    BY <2>1, <2>4, <2>5 DEF SqlSelects
  <2> QED
    BY <1>1, <2>2, <2>3, <2>5 DEF SqlSelects
<1>5. ASSUME NEW x PROVE x \in FilterRows(snapshot, ep.filters, request_)
                         <=> x \in Result(ep, rows, request_)
  BY <1>4 DEF FilterRows, Result
<1> QED
  BY <1>5

-----------------------------------------------------------------------------
(***************************************************************************)
(* The inductive invariant.                                                *)
(***************************************************************************)

(* What is retained was validated under the configuration it carries. *)
SnapshotsValidated ==
    \A s \in snaps : RowsMatchResolved(s.rows, s.endpoint.filters, s.resolved)

(* AnswerIsComplete needs no strengthening of its own: the step that serves  *)
(* has just checked what CoverageSound asks for.                             *)
IInv ==
    /\ TypeOK
    /\ run.stage = "querying" => taken < MaxRuns
    /\ SnapshotsValidated
    /\ AnswerIsComplete

LEMMA NewestIsSubset == ASSUME NEW S, NEW n PROVE Newest(S, n) \subseteq S
  BY DEF Newest

LEMMA InitIInv == Init => IInv
  BY LimitsAssumption DEF Init, IInv, TypeOK, SnapshotsValidated, AnswerIsComplete

(* Only Receive, Refuse, Decline and Serve touch the request. *)
LEMMA SameRequest == ASSUME AnswerIsComplete, request' = request PROVE AnswerIsComplete'
  BY DEF AnswerIsComplete

LEMMA RunStep ==
    ASSUME IInv, StartRun \/ EndRun \/ FailRun \/ ChangeSource \/ UpdateEndpoint
    PROVE  IInv'
<1> USE DEF IInv
<1>1. request' = request
  BY DEF StartRun, EndRun, FailRun, ChangeSource, UpdateEndpoint
<1>2. CASE StartRun
  BY <1>1, <1>2, SameRequest DEF StartRun, TypeOK, SnapshotsValidated
<1>3. CASE EndRun
  <2>1. PICK got \in Fetched(run.endpoint, source, run.resolved) :
          IF RowsMatchResolved(got, run.endpoint.filters, run.resolved)
          THEN /\ taken' = taken + 1
               /\ snaps' = Newest(snaps \cup
                     {[at |-> taken + 1, endpoint |-> run.endpoint,
                       resolved |-> run.resolved, rows |-> got, source |-> source]}, Keep)
          ELSE UNCHANGED <<taken, snaps>>
    BY <1>3 DEF EndRun
  <2>2. run.stage = "querying" /\ run' = [stage |-> "idle"]
        /\ UNCHANGED <<source, endpoint, changes, request>>
    BY <1>3 DEF EndRun
  <2>3. taken \in Nat /\ taken < MaxRuns /\ run.endpoint \in Endpoints
        /\ run.resolved \in Bindings(run.endpoint) /\ source \in Sources
    BY <2>2, LimitsAssumption DEF TypeOK
  <2>4. CASE RowsMatchResolved(got, run.endpoint.filters, run.resolved)
    <3> DEFINE new == [at |-> taken + 1, endpoint |-> run.endpoint,
                       resolved |-> run.resolved, rows |-> got, source |-> source]
    <3>1. \A s \in snaps' : s \in snaps \/ s = new
      BY <2>1, <2>4, NewestIsSubset
    <3>2. taken' = taken + 1
      BY <2>1, <2>4
    <3>3. SnapshotsValidated'
      BY <2>4, <3>1 DEF SnapshotsValidated
    <3>4. \A s \in snaps' :
            /\ s.at \in 1 .. taken' /\ s.endpoint \in Endpoints /\ s.source \in Sources
            /\ s.resolved \in Bindings(s.endpoint)
      BY <2>3, <3>1, <3>2 DEF TypeOK
    <3>5. taken' \in 0 .. MaxRuns
      BY <2>3, <3>2, LimitsAssumption
    <3>6. TypeOK'
      BY <2>2, <3>4, <3>5 DEF TypeOK
    <3> QED
      BY <1>1, <2>2, <3>3, <3>6, SameRequest
  <2>5. CASE ~RowsMatchResolved(got, run.endpoint.filters, run.resolved)
    BY <1>1, <2>1, <2>2, <2>5, SameRequest DEF TypeOK, SnapshotsValidated
  <2> QED
    BY <2>4, <2>5
<1>4. CASE FailRun
  BY <1>1, <1>4, SameRequest DEF FailRun, TypeOK, SnapshotsValidated
<1>5. CASE ChangeSource
  BY <1>1, <1>5, SameRequest, LimitsAssumption DEF ChangeSource, TypeOK, SnapshotsValidated
<1>6. CASE UpdateEndpoint
  BY <1>1, <1>6, SameRequest, LimitsAssumption DEF UpdateEndpoint, TypeOK, SnapshotsValidated
<1> QED
  BY <1>2, <1>3, <1>4, <1>5, <1>6

(* Serve answers completely: CoverageSound for the candidate it picked. *)
LEMMA ServeIsComplete == ASSUME IInv, Serve PROVE AnswerIsComplete'
<1> DEFINE ep == request.endpoint
           params == request.params
<1>1. /\ request.stage = "resolved" /\ ep \in Endpoints /\ params \in Bindings(ep)
  BY DEF IInv, TypeOK, Serve
<1>2. PICK s \in Candidates(ep, params) :
        IF Unavailable(s.rows, ep.filters)
        THEN Answered("column_unavailable")
        ELSE request' = [stage |-> "answered", endpoint |-> ep,
                         params |-> params, status |-> "ok", from |-> s,
                         data |-> FilterRows(s.rows, ep.filters, params)]
  BY DEF Serve
<1>3. s \in snaps
  BY <1>2 DEF Candidates, Covering
<1>4. CASE Unavailable(s.rows, ep.filters)
  BY <1>2, <1>4 DEF Answered, AnswerIsComplete
<1>5. CASE ~Unavailable(s.rows, ep.filters)
  <2>1. request' = [stage |-> "answered", endpoint |-> ep,
                    params |-> params, status |-> "ok", from |-> s,
                    data |-> FilterRows(s.rows, ep.filters, params)]
    BY <1>2, <1>5
  <2>2. ASSUME s.endpoint = ep, Truthful(ep), s.rows = Result(ep, s.source, s.resolved)
        PROVE  FilterRows(s.rows, ep.filters, params) = Result(ep, s.source, params)
    <3>1. s.resolved \in Bindings(ep) /\ s.source \in SUBSET Rows
      BY <1>3, <2>2 DEF IInv, TypeOK, Rows
    <3>2. Covers(ep.filters, params, s.resolved)
      <4>1. CASE ep.params = {}
        BY <2>2, <4>1 DEF Covers, Truthful
      <4>2. CASE ep.params # {}
        BY <1>2, <4>2 DEF Candidates, Covering
      <4> QED
        BY <4>1, <4>2
    <3>3. ep.params = {} \/ RowsMatchResolved(Result(ep, s.source, s.resolved),
                                             ep.filters, s.resolved)
      BY <1>2, <1>5, <2>2 DEF Candidates
    <3> QED
      BY <1>1, <2>2, <3>1, <3>2, <3>3, CoverageSound
  <2> QED
    BY <2>1, <2>2 DEF AnswerIsComplete
<1> QED
  BY <1>4, <1>5

LEMMA RequestStep ==
    ASSUME IInv, Receive \/ Refuse \/ Decline \/ Serve
    PROVE  IInv'
<1> USE DEF IInv
<1>1. UNCHANGED <<source, endpoint, run, snaps, taken, changes>>
  BY DEF Receive, Refuse, Decline, Serve
<1>2. SnapshotsValidated' /\ (run.stage = "querying" => taken < MaxRuns)'
  BY <1>1 DEF SnapshotsValidated
<1>3. CASE Receive
  <2>1. PICK params \in Bindings(endpoint) :
          request' = [stage |-> "resolved", endpoint |-> endpoint, params |-> params]
    BY <1>3 DEF Receive
  <2> QED
    BY <1>1, <1>2, <2>1 DEF TypeOK, AnswerIsComplete
<1>4. ASSUME NEW status \in {"not_configured", "bad_range", "no_snapshot", "integrity_failed",
                              "out_of_coverage", "column_unavailable"},
             request.stage = "resolved", Answered(status)
      PROVE  IInv'
  BY <1>1, <1>2, <1>4 DEF Answered, TypeOK, AnswerIsComplete
<1>5. CASE Refuse
  BY <1>4, <1>5 DEF Refuse
<1>6. CASE Decline
  BY <1>4, <1>6 DEF Decline
<1>7. CASE Serve
  <2>1. /\ request.stage = "resolved" /\ request'.stage = "answered"
        /\ request'.endpoint = request.endpoint /\ request'.params = request.params
    BY <1>7 DEF Serve, Answered
  <2>2. TypeOK'
    BY <1>1, <2>1 DEF TypeOK
  <2> QED
    BY <1>2, <1>7, <2>2, ServeIsComplete
<1> QED
  BY <1>3, <1>5, <1>6, <1>7

LEMMA StepIInv == IInv /\ [Next]_vars => IInv'
<1>1. CASE UNCHANGED vars
  BY <1>1 DEF vars, IInv, TypeOK, SnapshotsValidated, AnswerIsComplete
<1> QED
  BY <1>1, RunStep, RequestStep DEF Next

LEMMA Invariance == Spec => []IInv
  BY InitIInv, StepIInv, PTL DEF Spec

-----------------------------------------------------------------------------
(***************************************************************************)
(* The theorems.                                                           *)
(***************************************************************************)

(* Every reachable state is well typed: a snapshot's parameters are those of *)
(* the configuration it was taken from, whatever was edited meanwhile.       *)
THEOREM TypeCorrect == Spec => []TypeOK
<1>1. IInv => TypeOK
  BY DEF IInv
<1> QED
  BY <1>1, Invariance, PTL

(* DataService._serve_snapshot never answers 200 with fewer or other rows    *)
(* than the endpoint's query would, unless the snapshot or its configuration *)
(* was not the query's own.                                                  *)
THEOREM Complete == Spec => []AnswerIsComplete
<1>1. IInv => AnswerIsComplete
  BY DEF IInv
<1> QED
  BY <1>1, Invariance, PTL

(* A covered request is answered from the newest snapshot that covers it:    *)
(* nothing that the scheduler stored is refused later by the data plane.     *)
THEOREM CoveredServed == Spec => CoveredIsServed
<1> DEFINE ep == request.endpoint
           covering == Covering(ep, request.params)
<1>1. ASSUME IInv, [Next]_vars,
             request.stage = "resolved", request'.stage = "answered",
             Configured(ep), RangesValid(ep.filters, request.params),
             covering # {}, \A s \in covering : s.endpoint = ep
      PROVE  /\ request'.status = "ok"
             /\ \A s \in covering : s.at <= request'.from.at
  <2>1. Candidates(ep, request.params) \subseteq snaps /\ covering \subseteq snaps
    BY DEF Candidates, Covering
  <2>2. \A s \in covering : RowsMatchResolved(s.rows, ep.filters, s.resolved)
    BY <1>1, <2>1 DEF IInv, SnapshotsValidated
  <2>3. covering \subseteq Candidates(ep, request.params)
    BY <2>1, <2>2 DEF Candidates
  <2>4. ep.params = {} => covering = snaps
    BY <1>1 DEF Covering, Covers, Configured
  <2>5. covering = Candidates(ep, request.params)
    BY <2>3, <2>4, <2>1 DEF Candidates
  <2>6. Serve
    BY <1>1, <2>5 DEF Next, vars, StartRun, EndRun, FailRun, ChangeSource, UpdateEndpoint,
                      Receive, Refuse, Decline
  <2>7. PICK s \in covering :
          /\ \A t \in covering : t.at <= s.at
          /\ IF Unavailable(s.rows, ep.filters)
             THEN Answered("column_unavailable")
             ELSE request' = [stage |-> "answered", endpoint |-> ep,
                              params |-> request.params, status |-> "ok", from |-> s,
                              data |-> FilterRows(s.rows, ep.filters, request.params)]
    BY <2>5, <2>6 DEF Serve
  <2>8. ~Unavailable(s.rows, ep.filters)
    BY <2>2, <2>7 DEF RowsMatchResolved, Unavailable
  <2> QED
    BY <2>7, <2>8
<1>2. IInv /\ [Next]_vars =>
        [LET e == request.endpoint
             c == Covering(e, request.params)
         IN  /\ request.stage = "resolved" /\ request'.stage = "answered"
             /\ Configured(e) /\ RangesValid(e.filters, request.params)
             /\ c # {} /\ \A s \in c : s.endpoint = e
             => /\ request'.status = "ok"
                /\ \A s \in c : s.at <= request'.from.at]_vars
  BY <1>1
<1> QED
  BY <1>2, Invariance, PTL DEF Spec, CoveredIsServed

(* One parameter of one configuration: the rule refuses a value exactly when  *)
(* some row that could be there would be answered wrongly.                    *)
LEMMA ExactParameter ==
    ASSUME Discriminating, NEW ep \in Endpoints, Truthful(ep), NEW p \in ep.params,
           NEW resolved \in Bindings(ep), NEW request_ \in Bindings(ep)
    PROVE  LET filter == ep.filters[p]  predicate == ep.sql[p]
               readable == {r \in Rows : r[predicate.column] \in filter.accepts \cup {Null}}
               kept(r) == \/ request_[p] = Null
                          \/ Satisfies(MapRow(ep, r), filter, request_[p])
           IN  CoversParameter(filter, resolved[p], request_[p])
               <=> \A r \in readable :
                     (Selects(predicate, r, resolved[p]) /\ kept(r))
                         <=> Selects(predicate, r, request_[p])
<1> DEFINE filter == ep.filters[p]
           predicate == ep.sql[p]
           readable == {r \in Rows : r[predicate.column] \in filter.accepts \cup {Null}}
           kept(r) == request_[p] = Null \/ Satisfies(MapRow(ep, r), filter, request_[p])
           agree(r) == (Selects(predicate, r, resolved[p]) /\ kept(r))
                          <=> Selects(predicate, r, request_[p])
           w == resolved[p]
           v == request_[p]
<1>1. /\ filter.operator \in {"eq", "gte", "lte"} /\ predicate.operator = filter.operator
      /\ IF filter.nullMeansAll THEN filter.operator = "eq" /\ Rows \subseteq predicate.nullSelects
         ELSE predicate.nullSelects \cap Rows = {}
  BY DEF Discriminating, Truthful
<1>2. /\ w # Null => w \in filter.accepts /\ w \in Int
      /\ v # Null => v \in filter.accepts /\ v \in Int
  BY BindingValue
<1>3. ASSUME NEW a \in filter.accepts
      PROVE  /\ \E r \in readable : r[predicate.column] = a
             /\ \E r \in readable : r[predicate.column] # a
  BY <1>3 DEF Discriminating
<1>4. \A r \in Rows : r[predicate.column] \in Int \cup {Null}
  BY RowsAssumption, EndpointsAssumption
<1>5. ASSUME CoversParameter(filter, w, v), NEW r \in readable PROVE agree(r)
  <2>1. /\ Selects(predicate, r, v) => Selects(predicate, r, w)
        /\ (w # Null => r[predicate.column] \in filter.accepts)
              => (Selects(predicate, r, v) <=> Selects(predicate, r, w) /\ kept(r))
    BY <1>5, OneParameter
  <2>2. CASE w # Null => r[predicate.column] \in filter.accepts
    BY <2>1, <2>2
  <2>3. CASE w # Null /\ r[predicate.column] = Null
    <3>1. ~Selects(predicate, r, w)
      BY <2>3 DEF Selects
    <3> QED
      BY <2>1, <3>1
  <2> QED
    BY <2>2, <2>3
<1>6. ASSUME ~CoversParameter(filter, w, v) PROVE \E r \in readable : ~agree(r)
  <2>1. CASE v = Null
    <3>1. w # Null /\ w \in filter.accepts /\ w \in Int
      BY <1>2, <1>6, <2>1 DEF CoversParameter
    <3>2. CASE filter.nullMeansAll
      <4>1. PICK r \in readable : r[predicate.column] # w
        BY <1>3, <3>1
      <4>2. ~Selects(predicate, r, w) /\ Selects(predicate, r, v)
        BY <1>1, <2>1, <3>1, <3>2, <4>1 DEF Selects, Compare
      <4> QED
        BY <4>2
    <3>3. CASE ~filter.nullMeansAll
      <4>1. PICK r \in readable : r[predicate.column] = w
        BY <1>3, <3>1
      <4>2. Selects(predicate, r, w) /\ ~Selects(predicate, r, v)
        BY <1>1, <2>1, <3>1, <3>3, <4>1 DEF Selects, Compare
      <4> QED
        BY <2>1, <4>2
    <3> QED
      BY <3>2, <3>3
  <2>2. CASE v # Null
    <3>1. PICK r \in readable : r[predicate.column] = v
      BY <1>2, <1>3, <2>2
    <3>2. Selects(predicate, r, v)
      BY <1>1, <1>2, <2>2, <3>1 DEF Selects, Compare
    <3>3. ~Selects(predicate, r, w)
      <4>1. CASE w = Null
        BY <1>1, <1>6, <2>2, <4>1 DEF CoversParameter, Selects
      <4>2. CASE w # Null
        <5>1. ~Compare(filter.operator, v, w)
          BY <1>2, <1>6, <2>2, <4>2 DEF CoversParameter
        <5> QED
          BY <1>1, <3>1, <4>2, <5>1 DEF Selects
      <4> QED
        BY <4>1, <4>2
    <3> QED
      BY <3>2, <3>3
  <2> QED
    BY <2>1, <2>2
<1> QED
  BY <1>5, <1>6

(* For any configurations whose SQL and rows tell values apart, the coverage  *)
(* rule refuses a snapshot only if it could answer wrongly.                   *)
THEOREM CoverageExact == ASSUME Discriminating PROVE Spec => []CoverageIsExact
<1>1. TypeOK => CoverageIsExact
  <2> SUFFICES ASSUME TypeOK, request.stage = "resolved", Truthful(request.endpoint)
               PROVE  CoverageIsExact
    BY DEF CoverageIsExact
  <2>1. request.endpoint \in Endpoints /\ request.params \in Bindings(request.endpoint)
    BY DEF TypeOK
  <2>2. \A s \in snaps : s.resolved \in Bindings(s.endpoint)
    BY DEF TypeOK
  <2> QED
    BY <2>1, <2>2, ExactParameter DEF CoverageIsExact
<1> QED
  BY <1>1, TypeCorrect, PTL
=============================================================================
