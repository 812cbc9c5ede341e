----------------------- MODULE MetadataDatabaseProofs -----------------------
(***************************************************************************)
(* What the access log says of the data requests, and what a settings      *)
(* request leaves behind, for any number of tasks, connections and         *)
(* settings.                                                               *)
(***************************************************************************)
EXTENDS MetadataDatabase, NaturalLemmas, SequenceTheorems, TLAPS

(* What is known of a call at each of its steps: the status to be logged is  *)
(* the default until the block is left, and then what the client is sent.    *)
CallOK(c) ==
    /\ call[c].at \in {"waiting", "open", "work"} => call[c].logged = DefaultStatus
    /\ call[c].at \in {"log", "insert"} => call[c].kind = "data" /\ call[c].logged = call[c].sent
    /\ call[c].at = "job" => call[c].kind = "manual"

Calls == [kind : {"none", "data", "manual", "job"},
          at : {"waiting", "open", "work", "job", "log", "insert", "ended"},
          sent : Nat, logged : Nat]

Ended(c) == call[c].kind = "data" /\ call[c].at = "ended"

LogInv ==
    /\ call \in [Callers -> Calls]
    /\ \A c \in Callers : CallOK(c)
    /\ \A r \in rows : \E c \in Callers :
           Ended(c) /\ r = [request |-> c, status |-> call[c].sent]
    /\ \A c \in Callers : Ended(c) =>
           [request |-> c, status |-> call[c].sent] \in rows \/ c \in lost

LEMMA LogInvIsEnough == LogInv => LogIsTruthful
BY DEF LogInv, LogIsTruthful, Ended

LEMMA LogStarts == Init => LogInv
BY DEF Init, CallsInit, LogInv, Calls, CallOK, Ended, DefaultStatus

(* A call that is still under way takes a step that ends nothing. *)
LEMMA UnderWay ==
    ASSUME LogInv, NEW c \in Callers, NEW next \in Calls,
           call' = [call EXCEPT ![c] = next], UNCHANGED <<rows, lost>>,
           ~Ended(c), ~(next.kind = "data" /\ next.at = "ended"), CallOK(c)'
    PROVE  LogInv'
<1>1. /\ call' \in [Callers -> Calls] /\ call'[c] = next
      /\ \A d \in Callers \ {c} : call'[d] = call[d]
  BY DEF LogInv
<1>2. \A d \in Callers : CallOK(d)'
  BY <1>1 DEF LogInv, CallOK
<1>3. \A d \in Callers : /\ Ended(d)' <=> Ended(d)
                         /\ Ended(d) => call'[d] = call[d]
  BY <1>1 DEF Ended
<1>4. \A r \in rows' : \E d \in Callers : Ended(d)' /\ r = [request |-> d, status |-> call'[d].sent]
  BY <1>3 DEF LogInv
<1>5. \A d \in Callers : Ended(d)' =>
          [request |-> d, status |-> call'[d].sent] \in rows' \/ d \in lost'
  BY <1>3 DEF LogInv
<1> QED  BY <1>1, <1>2, <1>4, <1>5 DEF LogInv

(* A data request ends with its row, or with a warning and perhaps the row.  *)
LEMMA Ends ==
    ASSUME LogInv, NEW c \in Callers, call[c].at \in {"log", "insert"},
           call' = [call EXCEPT ![c].at = "ended"],
           rows' \in {rows, rows \cup {RowOf(c)}},
           \/ rows' = rows \cup {RowOf(c)} /\ lost' = lost
           \/ lost' = lost \cup {c}
    PROVE  LogInv'
<1>1. /\ call[c] \in Calls /\ CallOK(c) /\ ~Ended(c)
      /\ call[c].kind = "data" /\ call[c].logged = call[c].sent
  BY DEF LogInv, CallOK, Ended
<1>2. /\ call'[c].at = "ended" /\ call'[c].kind = "data" /\ call'[c].sent = call[c].sent
      /\ call'[c] \in Calls
      /\ \A d \in Callers \ {c} : call'[d] = call[d]
      /\ call' \in [Callers -> Calls]
  BY <1>1 DEF LogInv, Calls
<1>3. \A d \in Callers : CallOK(d)'
  BY <1>2 DEF LogInv, CallOK
<1>4. Ended(c)' /\ \A d \in Callers \ {c} : Ended(d)' <=> Ended(d)
  BY <1>2 DEF Ended
<1>5. ASSUME NEW r \in rows'
      PROVE  \E d \in Callers : Ended(d)' /\ r = [request |-> d, status |-> call'[d].sent]
  <2>1. CASE r \in rows
    <3>1. PICK d \in Callers : Ended(d) /\ r = [request |-> d, status |-> call[d].sent]
      BY <2>1 DEF LogInv
    <3>2. d # c
      BY <1>1, <3>1
    <3> QED  BY <1>2, <1>4, <3>1, <3>2
  <2>2. CASE r = RowOf(c)
    BY <1>1, <1>2, <1>4, <2>2 DEF RowOf
  <2> QED  BY <1>5, <2>1, <2>2
<1>6. ASSUME NEW d \in Callers, Ended(d)'
      PROVE  [request |-> d, status |-> call'[d].sent] \in rows' \/ d \in lost'
  <2>1. CASE d = c
    BY <1>1, <1>2, <2>1 DEF RowOf
  <2>2. CASE d # c
    BY <1>2, <1>4, <1>6, <2>2 DEF LogInv
  <2> QED  BY <2>1, <2>2
<1> QED  BY <1>2, <1>3, <1>5, <1>6 DEF LogInv

LEMMA CallStepKeeps ==
    ASSUME LogInv, NEW c \in Callers,
           CallStep(c) \/ \E kind \in {"data", "manual", "job"} : ReceiveCall(c, kind)
    PROVE  LogInv'
<1>1. call[c] \in Calls /\ CallOK(c) /\ call \in [Callers -> Calls]
  BY DEF LogInv
<1>2. CASE \E kind \in {"data", "manual", "job"} : ReceiveCall(c, kind)
  <2>1. PICK kind \in {"data", "manual", "job"} : ReceiveCall(c, kind)
    BY <1>2
  <2> DEFINE next == [call[c] EXCEPT !.kind = kind, !.at = "open"]
  <2>2. call[c].at = "waiting" /\ call' = [call EXCEPT ![c] = next] /\ UNCHANGED <<rows, lost>>
    BY <1>1, <2>1 DEF ReceiveCall
  <2>3. next \in Calls /\ next.at = "open" /\ next.logged = call[c].logged
    BY <1>1 DEF Calls
  <2> HIDE DEF next
  <2>4. call'[c] = next
    BY <1>1, <2>2
  <2>5. CallOK(c)'
    BY <1>1, <2>2, <2>3, <2>4 DEF CallOK
  <2> QED  BY <2>2, <2>3, <2>5, UnderWay DEF Ended
<1>3. ASSUME NEW at \in {"work", "insert", "job", "ended"},
             call' = [call EXCEPT ![c].at = at], UNCHANGED <<rows, lost>>,
             \/ call[c].at = "open" /\ at = "work"
             \/ call[c].at = "log" /\ at = "insert"
             \/ call[c].kind = "manual" /\ call[c].at = "work" /\ at = "job"
             \/ call[c].kind # "data" /\ call[c].at # "ended" /\ at = "ended"
      PROVE  LogInv'
  <2> DEFINE next == [call[c] EXCEPT !.at = at]
  <2>1. call' = [call EXCEPT ![c] = next]
    BY <1>3
  <2>2. /\ next \in Calls /\ next.at = at /\ next.kind = call[c].kind
        /\ next.logged = call[c].logged /\ next.sent = call[c].sent
    BY <1>1 DEF Calls
  <2> HIDE DEF next
  <2>3. call'[c] = next
    BY <1>1, <2>1
  <2>4. CallOK(c)'
    BY <1>1, <1>3, <2>2, <2>3 DEF CallOK
  <2> QED  BY <1>3, <2>1, <2>2, <2>4, UnderWay DEF Ended
<1>4. ASSUME NEW sent \in Nat, NEW logged \in Nat, LeavesBlock(c, sent, logged),
             call[c].kind = "data", call[c].at # "ended", logged = sent
      PROVE  LogInv'
  <2> DEFINE next == [call[c] EXCEPT !.at = "log", !.sent = sent, !.logged = logged]
  <2>1. call' = [call EXCEPT ![c] = next] /\ UNCHANGED <<rows, lost>>
    BY <1>4 DEF LeavesBlock
  <2>2. next \in Calls /\ next.at = "log" /\ next.kind = "data" /\ next.logged = next.sent
    BY <1>1, <1>4 DEF Calls
  <2> HIDE DEF next
  <2>3. CallOK(c)'
    BY <1>1, <2>1, <2>2 DEF CallOK
  <2> QED  BY <1>4, <2>1, <2>2, <2>3, UnderWay DEF Ended
<1>5. CASE ServeData(c)
  <2>1. call[c].kind = "data" /\ (Returns(c, 200) \/ RaisesHttp(c, 401) \/ Raises(c))
    BY <1>5 DEF ServeData
  <2>2. CASE Returns(c, 200) \/ RaisesHttp(c, 401)
    BY <1>4, <2>1, <2>2 DEF Returns, RaisesHttp
  <2>3. CASE Raises(c)
    <3>1. call[c].logged = 500 /\ call[c].at # "ended"
      BY <1>1, <2>3 DEF Raises, CallOK, DefaultStatus
    <3> QED  BY <1>4, <2>1, <2>3, <3>1 DEF Raises
  <2> QED  BY <2>1, <2>2, <2>3
<1>6. CASE LogData(c)
  <2>1. CASE OpenLog(c)
    BY <1>3, <2>1 DEF OpenLog
  <2>2. CASE InsertRow(c) \/ LogFails(c)
    BY <2>2, Ends DEF InsertRow, LogFails, EndCall
  <2> QED  BY <1>6, <2>1, <2>2 DEF LogData
<1>7. CASE Open(c) \/ OpenFails(c)
  BY <1>3, <1>7 DEF Open, OpenFails, EndCall
<1>8. CASE OpenJob(c) \/ OpenJobFails(c) \/ FinishJob(c)
  BY <1>3, <1>8 DEF OpenJob, OpenJobFails, FinishJob, EndCall
<1> QED  BY <1>2, <1>5, <1>6, <1>7, <1>8 DEF CallStep

LEMMA LogSteps == LogInv /\ [Next]_vars => LogInv'
<1> SUFFICES ASSUME LogInv, [Next]_vars PROVE LogInv'
  OBVIOUS
<1>1. CASE CallsNext
  BY <1>1, CallStepKeeps DEF CallsNext
<1>2. CASE UNCHANGED callVars
  BY <1>2 DEF callVars, LogInv, CallOK, Ended
<1> QED  BY <1>1, <1>2 DEF Next, vars

(* However connections run out and whatever the database refuses, access log *)
(* and warnings are the record of what data requests were answered: no row   *)
(* says otherwise, and no answer is without both (_write).                   *)
THEOREM LogTruthful == Spec => []LogIsTruthful
<1>1. Spec => []LogInv
  BY LogStarts, LogSteps, PTL DEF Spec
<1> QED  BY <1>1, LogInvIsEnough, PTL

-----------------------------------------------------------------------------
(* Settings requests.                                                        *)

Items == [key : Keys, value : Values \cup {Refused}]
Contents == Values \cup {Refused, Missing}

Edits == [at : {"waiting", "list", "item", "write", "answered"},
          all : Seq(Items), todo : Seq(Items), read : Contents,
          wrote : UNION {[K -> Values \cup {Refused}] : K \in SUBSET Keys}, same : SUBSET Keys]

(* A request asks for one value of a key. *)
AsksOnce(all) == \A i, j \in DOMAIN all : all[i].key = all[j].key => all[i].value = all[j].value

(* What a request has dealt with, it has written or found stored. *)
DealtWith(e, i) ==
    LET item == edit[e].all[i]
    IN  \/ item.key \in edit[e].same
        \/ item.key \in DOMAIN edit[e].wrote /\ edit[e].wrote[item.key] = item.value

(* Items are dealt with in order: those before the todo list. *)
Progress(e) ==
    edit[e].at \in {"item", "write"} =>
        /\ AsksOnce(edit[e].all)
        /\ \E n \in 0 .. Len(edit[e].all) :
              /\ edit[e].todo = SubSeq(edit[e].all, n + 1, Len(edit[e].all))
              /\ \A i \in 1 .. n : DealtWith(e, i)

EditInv ==
    /\ stored \in [Keys -> Contents]
    /\ edit \in [Editors -> Edits]
    /\ \A e \in Editors : Progress(e) /\ (edit[e].at = "write" => edit[e].todo # <<>>)


(* A payload names each key once. *)
LEMMA PayloadAsksOnce ==
    ASSUME NEW p \in Bulks
    PROVE  p \in Seq(Items) /\ AsksOnce(p)
<1>1. /\ p \in Seq(Items) /\ Len(p) \in Nat /\ DOMAIN p = 1 .. Len(p)
      /\ Len(p) = Cardinality(Edited(p))
  <2>1. p \in Seq(Items)
    BY SettingsAssumption, Zenon DEF Items
  <2>2. Len(p) = Cardinality(Edited(p))
    BY SettingsAssumption, Zenon
  <2> QED  BY <2>1, <2>2, LenProperties
<1> DEFINE keys == [i \in 1 .. Len(p) |-> p[i].key]
<1>2. keys \in Surjection(1 .. Len(p), Edited(p))
  BY <1>1 DEF Surjection, Edited
<1>3. IsFiniteSet(1 .. Len(p)) /\ Cardinality(1 .. Len(p)) = Len(p)
  BY <1>1, FS_Interval
<1>4. keys \in Injection(1 .. Len(p), Edited(p))
  <2> HIDE DEF keys
  <2> QED  BY <1>1, <1>2, <1>3, FS_Surjection
<1>5. \A i, j \in 1 .. Len(p) : keys[i] = keys[j] => i = j
  <2> HIDE DEF keys
  <2> QED  BY <1>4 DEF Injection, IsInjective
<1> QED  BY <1>1, <1>5 DEF AsksOnce

(* Seeding asks for the default of each key it seeds. *)
LEMMA SeedsAskOnce == MissingDefaults \in Seq(Items) /\ AsksOnce(MissingDefaults)
<1> DEFINE Seed(k) == [key |-> k, value |-> Default[k]]
           Seeds == {Seed(k) : k \in Keys}
           L == Len(Known)
           Fixes(f) == f = [n \in 0 .. L |->
               IF n = 0 THEN <<>>
               ELSE IF stored[Known[n]] # Missing THEN f[n - 1]
               ELSE Append(f[n - 1], Seed(Known[n]))]
           step == [x \in Nat \X Seq(Seeds) |->
               IF x[1] \notin 1 .. L \/ stored[Known[x[1]]] # Missing THEN x[2]
               ELSE Append(x[2], Seed(Known[x[1]]))]
<1>1. L \in Nat /\ \A n \in 1 .. L : Known[n] \in Keys
  BY SettingsAssumption
<1>2. \A n \in 1 .. L : Seed(Known[n]) \in Seeds
  BY <1>1
<1>3. Seeds \subseteq Items
  BY SettingsAssumption DEF Items
<1>4. step \in [Nat \X Seq(Seeds) -> Seq(Seeds)]
  <2>1. ASSUME NEW x \in Nat \X Seq(Seeds)
        PROVE  (IF x[1] \notin 1 .. L \/ stored[Known[x[1]]] # Missing THEN x[2]
                ELSE Append(x[2], Seed(Known[x[1]]))) \in Seq(Seeds)
    <3>1. x[2] \in Seq(Seeds)
      OBVIOUS
    <3>2. ASSUME x[1] \in 1 .. L PROVE Append(x[2], Seed(Known[x[1]])) \in Seq(Seeds)
      <4> HIDE DEF Seeds, Seed
      <4> QED  BY <1>2, <3>1, <3>2, AppendProperties
    <3> QED  BY <3>1, <3>2
  <2> QED  BY <2>1
<1>5. PICK f : Recurses(f, Seq(Seeds), <<>>, step, L)
  <2>1. <<>> \in Seq(Seeds)
    OBVIOUS
  <2>2. L \in Nat
    BY <1>1
  <2> HIDE DEF step, Seeds, L
  <2> QED  BY <1>4, <2>1, <2>2, RecursiveFunction
<1>6. ASSUME NEW n \in 0 .. L, n # 0
      PROVE  step[<<n, f[n - 1]>>] = IF stored[Known[n]] # Missing THEN f[n - 1]
                                     ELSE Append(f[n - 1], Seed(Known[n]))
  <2>1. <<n, f[n - 1]>> \in Nat \X Seq(Seeds) /\ n \in 1 .. L
    BY <1>1, <1>5, <1>6 DEF Recurses
  <2> HIDE DEF Seeds, Seed
  <2> QED  BY <2>1
<1>7. Fixes(f)
  <2> DEFINE g == [n \in 0 .. L |->
               IF n = 0 THEN <<>>
               ELSE IF stored[Known[n]] # Missing THEN f[n - 1]
               ELSE Append(f[n - 1], Seed(Known[n]))]
  <2>1. /\ f \in [0 .. L -> Seq(Seeds)] /\ f[0] = <<>>
        /\ \A n \in 1 .. L : f[n] = step[<<n, f[n - 1]>>]
    BY <1>5 DEF Recurses
  <2>2. ASSUME NEW n \in 0 .. L PROVE f[n] = g[n]
    <3>1. n # 0 => n \in 1 .. L
      BY <1>1
    <3> HIDE DEF step, Seed, Seeds, L
    <3> QED  BY <1>6, <2>1, <3>1
  <2>3. f = g
    <3> HIDE DEF step, Seed, Seeds, L
    <3> QED  BY <2>1, <2>2
  <2> QED  BY <2>3
<1> DEFINE seeds == CHOOSE h : Fixes(h)
<1>8. Fixes(seeds) /\ MissingDefaults = seeds[L]
  <2>1. Fixes(seeds)
    <3> HIDE DEF Fixes
    <3> QED  BY <1>7
  <2> QED  BY <2>1 DEF MissingDefaults
<1> DEFINE P == {n \in 0 .. L : seeds[n] \in Seq(Seeds)}
<1> HIDE DEF seeds
<1>9. 0 \in P
  BY <1>1, <1>8
<1>10. ASSUME NEW n \in 0 .. L, n \in P, n < L PROVE n + 1 \in P
  <2>1. /\ n + 1 \in 0 .. L /\ n + 1 \in 1 .. L /\ n + 1 # 0 /\ (n + 1) - 1 = n
    BY <1>1, <1>10
  <2>2. seeds[n + 1] = IF stored[Known[n + 1]] # Missing THEN seeds[n]
                       ELSE Append(seeds[n], Seed(Known[n + 1]))
    <3> HIDE DEF Seed
    <3> QED  BY <1>8, <2>1
  <2>3. seeds[n] \in Seq(Seeds) /\ Seed(Known[n + 1]) \in Seeds
    BY <1>2, <1>10, <2>1
  <2>4. seeds[n + 1] \in Seq(Seeds)
    <3> HIDE DEF Seeds, Seed
    <3> QED  BY <2>2, <2>3, AppendProperties
  <2> QED  BY <2>1, <2>4
<1>11. seeds[L] \in Seq(Seeds)
  <2>1. \A n \in 0 .. L : n \in P
    <3> HIDE DEF P, L
    <3> QED  BY <1>1, <1>9, <1>10, UpTo
  <2> QED  BY <1>1, <2>1
<1>12. ASSUME NEW s \in Seq(Seeds) PROVE s \in Seq(Items) /\ AsksOnce(s)
  <2>1. s \in Seq(Items)
    <3> HIDE DEF Seeds
    <3> QED  BY <1>3
  <2>2. \A i \in DOMAIN s : s[i] \in Seeds
    <3> HIDE DEF Seeds
    <3> QED  OBVIOUS
  <2>3. \A i \in DOMAIN s : s[i].value = Default[s[i].key]
    BY <2>2
  <2> QED  BY <2>1, <2>3 DEF AsksOnce
<1> HIDE DEF Seeds
<1> QED  BY <1>8, <1>11, <1>12

LEMMA EditsStart == Init => EditInv
<1> SUFFICES ASSUME Init PROVE EditInv
  OBVIOUS
<1>1. stored \in [Keys -> Contents]
  BY SettingsAssumption DEF Init, SettingsInit, Contents
<1>2. Waiting \in Edits
  <2>1. [k \in {} |-> Missing] \in [{} -> Values \cup {Refused}] /\ {} \in SUBSET Keys
    OBVIOUS
  <2>2. [k \in {} |-> Missing] \in UNION {[K -> Values \cup {Refused}] : K \in SUBSET Keys}
    BY <2>1
  <2>3. <<>> \in Seq(Items) /\ Missing \in Contents
    BY DEF Contents
  <2> QED  BY <2>2, <2>3 DEF Waiting, Edits
<1>3. edit \in [Editors -> Edits] /\ \A e \in Editors : edit[e].at = "waiting"
  BY <1>2 DEF Init, SettingsInit, Waiting
<1> QED  BY <1>1, <1>3 DEF EditInv, Progress

(* A step of one request leaves the others where they are. *)
LEMMA OneEdit ==
    ASSUME EditInv, NEW e \in Editors, NEW next \in Edits, edit' = [edit EXCEPT ![e] = next],
           stored' \in [Keys -> Contents],
           next.at \in {"item", "write"} => Progress(e)',
           next.at = "write" => next.todo # <<>>
    PROVE  EditInv'
<1>1. /\ edit' \in [Editors -> Edits] /\ edit'[e] = next
      /\ \A d \in Editors \ {e} : edit'[d] = edit[d]
  BY DEF EditInv
<1>2. ASSUME NEW d \in Editors \ {e}
      PROVE  Progress(d)' /\ (edit'[d].at = "write" => edit'[d].todo # <<>>)
  <2>1. /\ edit'[d] = edit[d] /\ Progress(d)
        /\ (edit[d].at = "write" => edit[d].todo # <<>>)
    BY <1>1 DEF EditInv
  <2>2. \A i : DealtWith(d, i)' <=> DealtWith(d, i)
    BY <2>1 DEF DealtWith
  <2> QED  BY <2>1, <2>2 DEF Progress
<1>3. Progress(e)' /\ (edit'[e].at = "write" => edit'[e].todo # <<>>)
  BY <1>1 DEF Progress
<1> QED  BY <1>1, <1>2, <1>3 DEF EditInv

(* The end of a request, whatever it leaves in the table. *)
LEMMA EndKeeps ==
    ASSUME EditInv, NEW e \in Editors, EndEdit(e), stored' \in [Keys -> Contents]
    PROVE  EditInv'
<1>1. Answered \in Edits /\ Answered.at = "answered"
  <2>1. [k \in {} |-> Missing] \in [{} -> Values \cup {Refused}] /\ {} \in SUBSET Keys
    OBVIOUS
  <2>2. [k \in {} |-> Missing] \in UNION {[K -> Values \cup {Refused}] : K \in SUBSET Keys}
    BY <2>1
  <2>3. <<>> \in Seq(Items) /\ Missing \in Contents
    BY DEF Contents
  <2> QED  BY <2>2, <2>3 DEF Answered, Waiting, Edits
<1> QED  BY <1>1, OneEdit DEF EndEdit

(* Before its first item a request has everything to do. *)
LEMMA BeginKeeps ==
    ASSUME EditInv, NEW e \in Editors, NEW next \in Edits, edit' = [edit EXCEPT ![e] = next],
           stored' = stored, next.at = "item", next.todo = next.all, AsksOnce(next.all)
    PROVE  EditInv'
<1>1. edit'[e] = next
  BY DEF EditInv
<1>2. next.all \in Seq(Items) /\ Len(next.all) \in Nat
  BY DEF Edits
<1>3. next.todo = SubSeq(next.all, 0 + 1, Len(next.all))
  BY <1>2, SubSeqFull
<1>4. 0 \in 0 .. Len(next.all) /\ \A i \in 1 .. 0 : DealtWith(e, i)'
  BY <1>2
<1>5. Progress(e)'
  BY <1>1, <1>3, <1>4 DEF Progress
<1> QED  BY <1>5, OneEdit DEF EditInv

(* The item at the head of the list is the next one the request asked for. *)
LEMMA NextItem ==
    ASSUME EditInv, NEW e \in Editors, edit[e].at \in {"item", "write"}, edit[e].todo # <<>>
    PROVE  /\ Item(e) \in Items
           /\ \E n \in 0 .. Len(edit[e].all) - 1 :
                 /\ Item(e) = edit[e].all[n + 1]
                 /\ Tail(edit[e].todo) = SubSeq(edit[e].all, n + 2, Len(edit[e].all))
                 /\ \A i \in 1 .. n : DealtWith(e, i)
<1> DEFINE all == edit[e].all
<1>1. edit[e] \in Edits /\ Progress(e)
  BY DEF EditInv
<1>2. all \in Seq(Items) /\ edit[e].todo \in Seq(Items) /\ Len(all) \in Nat
  BY <1>1 DEF Edits
<1>3. PICK n \in 0 .. Len(all) :
          edit[e].todo = SubSeq(all, n + 1, Len(all)) /\ \A i \in 1 .. n : DealtWith(e, i)
  BY <1>1 DEF Progress
<1>4. n # Len(all)
  <2>1. SUFFICES ASSUME n = Len(all) PROVE FALSE
    OBVIOUS
  <2>2. Len(all) < n + 1 /\ n + 1 \in Int /\ Len(all) \in Int
    BY <1>2, <2>1
  <2>3. SubSeq(all, n + 1, Len(all)) = <<>>
    BY <2>2, SubSeqEmpty
  <2> QED  BY <1>3, <2>3
<1>5. n + 1 \in 1 .. Len(all) /\ Len(all) \in n + 1 .. Len(all) /\ n \in 0 .. Len(all) - 1
      /\ (n + 1) + 1 = n + 2
  BY <1>2, <1>4
<1>6. /\ Head(SubSeq(all, n + 1, Len(all))) = all[n + 1]
      /\ Tail(SubSeq(all, n + 1, Len(all))) = SubSeq(all, (n + 1) + 1, Len(all))
  BY <1>2, <1>5, HeadTailOfSubSeq
<1>7. Item(e) = all[n + 1]
  BY <1>3, <1>6 DEF Item
<1>8. Tail(edit[e].todo) = SubSeq(all, n + 2, Len(all))
  BY <1>3, <1>5, <1>6
<1>9. Item(e) \in Items
  BY <1>2, <1>5, <1>7
<1> QED  BY <1>3, <1>5, <1>7, <1>8, <1>9

(* An item is dealt with. *)
LEMMA AdvanceKeeps ==
    ASSUME EditInv, NEW e \in Editors, edit[e].at = "write",
           NEW next \in Edits, edit' = [edit EXCEPT ![e] = next], stored' = stored,
           next.at = "item", next.all = edit[e].all, next.todo = Tail(edit[e].todo),
           edit[e].same \subseteq next.same,
           \A k \in DOMAIN edit[e].wrote : k \in DOMAIN next.wrote
               /\ (next.wrote[k] = edit[e].wrote[k] \/ k = Item(e).key),
           \/ Item(e).key \in next.same
           \/ Item(e).key \in DOMAIN next.wrote /\ next.wrote[Item(e).key] = Item(e).value
    PROVE  EditInv'
<1> DEFINE all == edit[e].all
<1>1. /\ edit[e] \in Edits /\ edit[e].todo # <<>> /\ Progress(e) /\ edit'[e] = next
      /\ all \in Seq(Items) /\ Len(all) \in Nat /\ DOMAIN all = 1 .. Len(all)
  BY DEF EditInv, Edits
<1>2. PICK n \in 0 .. Len(all) - 1 :
          /\ Item(e) = all[n + 1]
          /\ Tail(edit[e].todo) = SubSeq(all, n + 2, Len(all))
          /\ \A i \in 1 .. n : DealtWith(e, i)
  BY <1>1, NextItem
<1>3. AsksOnce(all)
  BY <1>1 DEF Progress
<1>4. ASSUME NEW i \in 1 .. n + 1 PROVE DealtWith(e, i)'
  <2>1. i \in 1 .. Len(all) /\ n + 1 \in 1 .. Len(all)
    BY <1>1, <1>2
  <2>2. CASE all[i].key = Item(e).key
    <3>1. all[i].value = Item(e).value
      <4>1. i \in DOMAIN all /\ n + 1 \in DOMAIN all /\ all[i].key = all[n + 1].key
        BY <1>1, <1>2, <2>1, <2>2
      <4> HIDE DEF all
      <4>2. all[i].value = all[n + 1].value
        BY <1>3, <4>1 DEF AsksOnce
      <4> QED  BY <1>2, <4>2
    <3>2. edit'[e].all[i] = all[i]
      BY <1>1
    <3> HIDE DEF all
    <3>3. CASE Item(e).key \in next.same
      BY <1>1, <2>2, <3>2, <3>3 DEF DealtWith
    <3>4. CASE Item(e).key \in DOMAIN next.wrote /\ next.wrote[Item(e).key] = Item(e).value
      BY <1>1, <2>2, <3>1, <3>2, <3>4 DEF DealtWith
    <3> QED  BY <3>3, <3>4
  <2>3. CASE all[i].key # Item(e).key
    <3>1. i \in 1 .. n
      BY <1>2, <2>1, <2>3
    <3>2. DealtWith(e, i)
      BY <1>2, <3>1
    <3> QED  BY <1>1, <2>3, <3>2 DEF DealtWith
  <2> QED  BY <2>2, <2>3
<1>5. n + 1 \in 0 .. Len(all) /\ (n + 1) + 1 = n + 2
  BY <1>1, <1>2
<1>6. Progress(e)'
  BY <1>1, <1>2, <1>3, <1>4, <1>5 DEF Progress
<1> QED  BY <1>1, <1>6, OneEdit DEF EditInv

(* Only a commit changes the table. *)
LEMMA EditStepWrites ==
    ASSUME NEW e \in Editors, EditStep(e), stored' # stored
    PROVE  CommitEdit(e)
BY DEF EditStep, ReadAll, RefuseItem, Select, NoConnection, Keep, Write, WriteFails, DeadlockFails

LEMMA EditStepKeeps ==
    ASSUME EditInv, NEW e \in Editors, EditStep(e)
    PROVE  EditInv'
<1>1. edit[e] \in Edits /\ edit \in [Editors -> Edits] /\ stored \in [Keys -> Contents] /\ Progress(e)
  BY DEF EditInv
<1>2. CASE ReadAll(e)
  <2> DEFINE next == [edit[e] EXCEPT !.at = "item", !.all = MissingDefaults, !.todo = MissingDefaults]
  <2>1. edit' = [edit EXCEPT ![e] = next] /\ stored' = stored
    BY <1>1, <1>2 DEF ReadAll
  <2>2. /\ next \in Edits /\ next.at = "item"
        /\ next.all = MissingDefaults /\ next.todo = MissingDefaults
    BY <1>1, SeedsAskOnce DEF Edits
  <2> HIDE DEF next
  <2> QED  BY <2>1, <2>2, SeedsAskOnce, BeginKeeps
<1>3. CASE RefuseItem(e) \/ NoConnection(e) \/ WriteFails(e) \/ DeadlockFails(e)
  BY <1>1, <1>3, EndKeeps DEF RefuseItem, NoConnection, WriteFails, DeadlockFails
<1>4. CASE Select(e)
  <2>1. /\ edit[e].at = "item" /\ edit[e].todo # <<>> /\ stored' = stored
        /\ edit' = [edit EXCEPT ![e].at = "write", ![e].read = stored[Item(e).key]]
    BY <1>4 DEF Select
  <2>2. stored[Item(e).key] \in Contents
    BY <1>1, <2>1, NextItem DEF Items
  <2> DEFINE next == [edit[e] EXCEPT !.at = "write", !.read = stored[Item(e).key]]
  <2>3. edit' = [edit EXCEPT ![e] = next]
    BY <1>1, <2>1
  <2>4. /\ next \in Edits /\ next.at = "write" /\ next.all = edit[e].all
        /\ next.todo = edit[e].todo /\ next.same = edit[e].same /\ next.wrote = edit[e].wrote
    BY <1>1, <2>2 DEF Edits
  <2> HIDE DEF next
  <2>5. edit'[e] = next
    BY <1>1, <2>3
  <2>6. \A i : DealtWith(e, i)' <=> DealtWith(e, i)
    BY <2>4, <2>5 DEF DealtWith
  <2>7. Progress(e)'
    BY <1>1, <2>1, <2>4, <2>5, <2>6 DEF Progress
  <2> QED  BY <1>1, <2>1, <2>3, <2>4, <2>7, OneEdit
<1>5. ASSUME edit[e].at = "write"
      PROVE  /\ Item(e) \in Items
             /\ Advanced(e) \in Edits /\ Advanced(e).at = "item" /\ Advanced(e).all = edit[e].all
             /\ Advanced(e).todo = Tail(edit[e].todo)
             /\ Advanced(e).same = edit[e].same /\ Advanced(e).wrote = edit[e].wrote
  <2>1. Item(e) \in Items /\ edit[e].todo # <<>>
    BY <1>5, NextItem DEF EditInv
  <2>2. Tail(edit[e].todo) \in Seq(Items)
    BY <1>1, <2>1, HeadTailProperties DEF Edits
  <2>3. Missing \in Contents
    BY DEF Contents
  <2> QED  BY <1>1, <2>1, <2>2, <2>3 DEF Advanced, Edits
<1>6. CASE Keep(e)
  <2>1. /\ edit[e].at = "write" /\ stored' = stored
        /\ edit' = [edit EXCEPT ![e] = [Advanced(e) EXCEPT !.same = @ \cup {Item(e).key}]]
    BY <1>6 DEF Keep
  <2> DEFINE next == [Advanced(e) EXCEPT !.same = @ \cup {Item(e).key}]
  <2>2. /\ next \in Edits /\ next.at = "item" /\ next.all = edit[e].all
        /\ next.todo = Tail(edit[e].todo)
        /\ next.same = edit[e].same \cup {Item(e).key} /\ next.wrote = edit[e].wrote
    BY <1>1, <1>5, <2>1 DEF Edits, Items
  <2> HIDE DEF next
  <2>3. edit' = [edit EXCEPT ![e] = next]
    BY <2>1 DEF next
  <2> QED  BY <2>1, <2>2, <2>3, AdvanceKeeps
<1>7. CASE Write(e)
  <2> DEFINE item == Item(e)
             wrote == [k \in DOMAIN edit[e].wrote \cup {item.key} |->
                          IF k = item.key THEN item.value ELSE edit[e].wrote[k]]
             next == [Advanced(e) EXCEPT !.wrote = wrote]
  <2>1. /\ edit[e].at = "write" /\ stored' = stored
        /\ edit' = [edit EXCEPT ![e] = next]
    BY <1>5, <1>7 DEF Write
  <2>2. wrote \in UNION {[K -> Values \cup {Refused}] : K \in SUBSET Keys}
    <3>1. PICK K \in SUBSET Keys : edit[e].wrote \in [K -> Values \cup {Refused}]
      BY <1>1 DEF Edits
    <3>2. item.key \in Keys /\ item.value \in Values \cup {Refused}
      BY <1>5, <2>1 DEF Items
    <3>3. DOMAIN edit[e].wrote = K /\ K \cup {item.key} \in SUBSET Keys
      BY <3>1, <3>2
    <3>4. wrote \in [K \cup {item.key} -> Values \cup {Refused}]
      BY <3>1, <3>2, <3>3
    <3> QED  BY <3>3, <3>4
  <2>3. /\ DOMAIN wrote = DOMAIN edit[e].wrote \cup {item.key} /\ wrote[item.key] = item.value
        /\ \A k \in DOMAIN edit[e].wrote : wrote[k] = edit[e].wrote[k] \/ k = item.key
    OBVIOUS
  <2> HIDE DEF wrote
  <2>4. /\ next \in Edits /\ next.at = "item" /\ next.all = edit[e].all
        /\ next.todo = Tail(edit[e].todo) /\ next.same = edit[e].same /\ next.wrote = wrote
    BY <1>1, <1>5, <2>1, <2>2 DEF Edits
  <2> HIDE DEF next
  <2> QED  BY <2>1, <2>3, <2>4, AdvanceKeeps
<1>8. CASE CommitEdit(e)
  <2>1. After(e) \in [Keys -> Contents]
    BY <1>1 DEF After, Edits, Contents
  <2> QED  BY <1>8, <2>1, EndKeeps DEF CommitEdit
<1> QED  BY <1>2, <1>3, <1>4, <1>6, <1>7, <1>8 DEF EditStep

LEMMA EditSteps == EditInv /\ [Next]_vars => EditInv'
<1> SUFFICES ASSUME EditInv, [Next]_vars PROVE EditInv'
  OBVIOUS
<1>1. CASE UNCHANGED settingsVars
  BY <1>1 DEF settingsVars, EditInv, Progress, DealtWith
<1>2. ASSUME NEW e \in Editors, BeginList(e) PROVE EditInv'
  <2> DEFINE next == [Waiting EXCEPT !.at = "list"]
  <2>1. edit[e] = Waiting /\ edit[e] \in Edits /\ edit' = [edit EXCEPT ![e] = next] /\ stored' = stored
    BY <1>2 DEF BeginList, EditInv
  <2>2. next \in Edits /\ next.at = "list"
    BY <2>1 DEF Waiting, Edits
  <2> HIDE DEF next
  <2> QED  BY <2>1, <2>2, OneEdit DEF EditInv
<1>3. ASSUME NEW e \in Editors, NEW p \in Bulks, BeginUpdate(e, p) PROVE EditInv'
  <2> DEFINE next == [Waiting EXCEPT !.at = "item", !.all = p, !.todo = p]
  <2>1. edit[e] = Waiting /\ edit[e] \in Edits /\ edit' = [edit EXCEPT ![e] = next] /\ stored' = stored
    BY <1>3 DEF BeginUpdate, EditInv
  <2>2. p \in Seq(Items) /\ AsksOnce(p)
    BY PayloadAsksOnce
  <2>3. next \in Edits /\ next.at = "item" /\ next.all = p /\ next.todo = p
    BY <2>1, <2>2 DEF Waiting, Edits
  <2> HIDE DEF next
  <2> QED  BY <2>1, <2>2, <2>3, BeginKeeps
<1> QED  BY <1>1, <1>2, <1>3, EditStepKeeps DEF Next, SettingsNext, vars

(* A commit finds every item dealt with. *)
LEMMA CommitStoresAll ==
    ASSUME EditInv, NEW e \in Editors, CommitEdit(e), NEW i \in DOMAIN edit[e].all
    PROVE  LET item == edit[e].all[i]
           IN  stored'[item.key] = item.value \/ item.key \in edit[e].same
<1> DEFINE all == edit[e].all
           item == all[i]
<1>1. /\ edit[e] \in Edits /\ Progress(e) /\ edit[e].at = "item" /\ edit[e].todo = <<>>
      /\ stored' = After(e)
  BY DEF EditInv, CommitEdit
<1>2. all \in Seq(Items) /\ Len(all) \in Nat /\ DOMAIN all = 1 .. Len(all)
  BY <1>1 DEF Edits
<1>3. PICK n \in 0 .. Len(all) :
          edit[e].todo = SubSeq(all, n + 1, Len(all)) /\ \A j \in 1 .. n : DealtWith(e, j)
  BY <1>1 DEF Progress
<1>4. n = Len(all)
  <2>1. SUFFICES ASSUME n < Len(all) PROVE FALSE
    BY <1>2
  <2>2. n + 1 \in Int /\ Len(all) \in Int /\ \A j \in n + 1 .. Len(all) : all[j] \in Items
    BY <1>2
  <2>3. Len(SubSeq(all, n + 1, Len(all))) = Len(all) - (n + 1) + 1
    BY <1>2, <2>1, <2>2, SubSeqProperties
  <2> QED  BY <1>1, <1>2, <1>3, <2>1, <2>3
<1>5. DealtWith(e, i) /\ item.key \in Keys
  <2>1. i \in 1 .. n
    BY <1>2, <1>4
  <2>2. item \in Items
    BY <1>2
  <2> HIDE DEF item
  <2> QED  BY <1>3, <2>1, <2>2 DEF Items
<1> QED  BY <1>1, <1>5 DEF After, DealtWith

(* A settings request changes the table at its end, and then as a whole: for  *)
(* any requests, keys and payloads, whatever fails or waits on the way.       *)
THEOREM EditsAreAtomic == Spec => WholeOrNothing
<1>1. Spec => []EditInv
  BY EditsStart, EditSteps, PTL DEF Spec
<1> DEFINE Whole == stored' # stored =>
        \E e \in Editors :
            /\ edit[e] # Answered /\ edit'[e] = Answered
            /\ \A i \in DOMAIN edit[e].all :
                  LET item == edit[e].all[i]
                  IN stored'[item.key] = item.value \/ item.key \in edit[e].same
<1>2. EditInv /\ [Next]_vars => [Whole]_settingsVars
  <2> SUFFICES ASSUME EditInv, Next, stored' # stored
               PROVE  Whole
    BY DEF vars, settingsVars
  <2>1. SettingsNext
    BY DEF Next, settingsVars
  <2>2. PICK e \in Editors : EditStep(e)
    BY <2>1 DEF SettingsNext, BeginList, BeginUpdate
  <2>3. CommitEdit(e)
    BY <2>2, EditStepWrites
  <2>4. edit[e] # Answered /\ edit'[e] = Answered
    BY <2>3 DEF CommitEdit, EndEdit, EditInv, Answered, Waiting
  <2>5. \A i \in DOMAIN edit[e].all :
            LET item == edit[e].all[i]
            IN stored'[item.key] = item.value \/ item.key \in edit[e].same
    BY <2>3, CommitStoresAll
  <2> QED  BY <2>4, <2>5
<1> HIDE DEF Whole
<1>3. Spec => [][Whole]_settingsVars
  BY <1>1, <1>2, PTL DEF Spec
<1> QED  BY <1>3 DEF WholeOrNothing, Whole
=============================================================================
