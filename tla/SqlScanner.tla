----------------------------- MODULE SqlScanner -----------------------------
(***************************************************************************)
(* Which named binds an SQL text has: the scanner of                       *)
(* backend/app/schemas/endpoint.py.  It blanks literals, quoted            *)
(* identifiers and comments in one pass and looks for :name in what is     *)
(* left.                                                                   *)
(*                                                                         *)
(* A text is a sequence of one-character strings.  Positions count from 1; *)
(* the end of a region is the position after it, and 0 is Python's None.   *)
(***************************************************************************)
EXTENDS Naturals, Sequences, FiniteSetsExt, TLC

Text == Seq(STRING)

Letters == {"a", "f", "n", "q"}
Digits == {"1"}
Blanks == {" ", "\n"}

(* \w of the regular expressions; a bind does not start with a digit. *)
WordChars == Letters \cup Digits \cup {"_"}

(* _is_oracle_identifier_char. *)
OracleIdentifierChars == WordChars \cup {"$", "#"}

(* _ORACLE_ALT_QUOTE_PAIRS; any other delimiter closes itself. *)
AltQuotePairs == ("[" :> "]") @@ ("{" :> "}") @@ ("(" :> ")") @@ ("<" :> ">")
Closing(delimiter) ==
    IF delimiter \in DOMAIN AltQuotePairs THEN AltQuotePairs[delimiter] ELSE delimiter

(* str.startswith(part, i), and str.find(part, i) or the end of the text. *)
StartsWith(sql, part, i) ==
    i + Len(part) <= Len(sql) + 1 /\ \A k \in DOMAIN part : sql[i + k - 1] = part[k]

Find(sql, part, i) ==
    LET hits == {p \in i..Len(sql) : StartsWith(sql, part, p)}
    IN  IF hits = {} THEN Len(sql) + 1 ELSE Min(hits)

EndOf(sql, part, i) ==
    IF Find(sql, part, i) > Len(sql) THEN Len(sql) + 1 ELSE Find(sql, part, i) + Len(part)

(* _quoted_region_end: a doubled quote does not close. *)
QuotedRegionEnd(sql, start, quote) ==
    LET end[i \in 1..Len(sql) + 2] ==
            IF i > Len(sql) THEN Len(sql) + 1
            ELSE IF sql[i] # quote THEN end[i + 1]
            ELSE IF StartsWith(sql, <<quote, quote>>, i) THEN end[i + 2]
            ELSE i + 1
    IN  end[start + 1]

(* Where the quote of a Q or NQ literal that starts here would be. *)
QuoteIndex(sql, start) ==
    IF sql[start] = "q" THEN start + 1
    ELSE IF StartsWith(sql, <<"n", "q">>, start) THEN start + 2 ELSE 0

(* Mutant: a q that ends an identifier opens a literal. *)
AltQuoteEndAnywhere(sql, start) ==
    LET quote == QuoteIndex(sql, start)
        delimiter == quote + 1
    IN  IF \/ quote = 0
           \/ delimiter > Len(sql) \/ sql[quote] # "'" \/ sql[delimiter] \in Blanks
        THEN 0
        ELSE EndOf(sql, <<Closing(sql[delimiter]), "'">>, delimiter + 1)

(* _oracle_alt_quote_end. *)
AltQuoteEnd(sql, start) ==
    LET quote == QuoteIndex(sql, start)
        delimiter == quote + 1
    IN  IF \/ start > 1 /\ sql[start - 1] \in OracleIdentifierChars
           \/ quote = 0
           \/ delimiter > Len(sql) \/ sql[quote] # "'" \/ sql[delimiter] \in Blanks
        THEN 0
        ELSE EndOf(sql, <<Closing(sql[delimiter]), "'">>, delimiter + 1)

(* The end of the region that starts at i, in the order of the loop's tests. *)
RegionEnd(sql, i) ==
    IF StartsWith(sql, <<"-", "-">>, i) THEN Find(sql, <<"\n">>, i + 2)
    ELSE IF StartsWith(sql, <<"/", "*">>, i) THEN EndOf(sql, <<"*", "/">>, i + 2)
    ELSE IF sql[i] \in {"q", "n"} THEN AltQuoteEnd(sql, i)
    ELSE IF sql[i] \in {"'", "\""} THEN QuotedRegionEnd(sql, i, sql[i])
    ELSE 0

(* _mask_sql_non_code. *)
MaskSqlNonCode(sql) ==
    LET masked[i \in 1..Len(sql) + 1] ==
            IF i > Len(sql) THEN {}
            ELSE LET end == RegionEnd(sql, i)
                 IN  IF end = 0 THEN masked[i + 1] ELSE (i..end - 1) \cup masked[end]
        blank == masked[1]
    IN  [p \in DOMAIN sql |-> IF p \in blank THEN " " ELSE sql[p]]

(* The names of :([A-Za-z_]\w* ) in a text. *)
NamesIn(text) ==
    LET Names == {at \in (DOMAIN text) \X (DOMAIN text) :
                     /\ at[1] < at[2] /\ text[at[1]] = ":" /\ text[at[1] + 1] \notin Digits
                     /\ \A k \in at[1] + 1..at[2] : text[k] \in WordChars
                     /\ at[2] < Len(text) => text[at[2] + 1] \notin WordChars}
    IN  {SubSeq(text, at[1] + 1, at[2]) : at \in Names}

ExtractBindParams(sql) == NamesIn(MaskSqlNonCode(sql))

(* validate_sql_safety, on the raw text: a quote next to + or ||, an f-string *)
(* prefix, a template in braces.                                             *)
Adjacent(sql, one, other) ==
    \E i, j \in DOMAIN sql :
        /\ i < j /\ \A k \in i + 1..j - 1 : sql[k] \in Blanks
        /\ StartsWith(sql, other, j)
        /\ i >= Len(one) /\ StartsWith(sql, one, i + 1 - Len(one))

SafeSql(sql) ==
    /\ \A concat \in {<<"+">>, <<"|", "|">>} :
           ~Adjacent(sql, <<"'">>, concat) /\ ~Adjacent(sql, concat, <<"'">>)
    /\ ~\E i \in DOMAIN sql :
           /\ \E quote \in {"'", "\""} : StartsWith(sql, <<"f", quote>>, i)
           /\ i > 1 => sql[i - 1] \notin WordChars
    /\ ~\E i, j \in DOMAIN sql :
           sql[i] = "{" /\ sql[j] = "}" /\ i + 1 < j /\ \A k \in i + 1..j - 1 : sql[k] # "}"
    /\ ~\E i \in DOMAIN sql : StartsWith(sql, <<"$", "{">>, i)

-----------------------------------------------------------------------------
(***************************************************************************)
(* The reference: Oracle's lexical rules, position by position.  A token   *)
(* opens where no earlier one is still open.  A quoted one closes at the   *)
(* first quote that makes their number even and has no other next to it.   *)
(***************************************************************************)
LastOr(sql, closers) == IF closers = {} THEN Len(sql) ELSE Min(closers)

QuotesIn(sql, i, j) == Cardinality({k \in i..j : sql[k] = sql[i]})

QuotedTokenEnd(sql, i) ==
    LastOr(sql, {j \in i + 1..Len(sql) :
        /\ sql[j] = sql[i] /\ QuotesIn(sql, i, j) % 2 = 0
        /\ j < Len(sql) => sql[j + 1] # sql[i]})

(* A Q or NQ prefix is a word of its own. *)
PrefixLength(sql, i) ==
    IF i > 1 /\ sql[i - 1] \in OracleIdentifierChars THEN 0
    ELSE CHOOSE n \in {0, 1, 2} :
            LET is(m) == \/ m = 1 /\ StartsWith(sql, <<"q", "'">>, i)
                         \/ m = 2 /\ StartsWith(sql, <<"n", "q", "'">>, i)
            IN  is(n) \/ (n = 0 /\ ~is(1) /\ ~is(2))

AltTokenEnd(sql, opening) ==
    LastOr(sql, {j \in opening + 2..Len(sql) :
                    sql[j] = "'" /\ sql[j - 1] = Closing(sql[opening])})

TokenEnd(sql, i) ==
    LET opening == i + PrefixLength(sql, i) + 1
    IN  IF opening > i + 1 /\ opening <= Len(sql) /\ sql[opening] \notin Blanks
        THEN AltTokenEnd(sql, opening)
        ELSE IF sql[i] \in {"'", "\""} THEN QuotedTokenEnd(sql, i)
        ELSE IF StartsWith(sql, <<"-", "-">>, i)
        THEN LastOr(sql, {j \in i + 1..Len(sql) - 1 : sql[j + 1] = "\n"})
        ELSE IF StartsWith(sql, <<"/", "*">>, i)
        THEN LastOr(sql, {j \in i + 3..Len(sql) : sql[j - 1] = "*" /\ sql[j] = "/"})
        ELSE i - 1

(* The positions no token covers. *)
CodePositions(sql) ==
    LET open[p \in 0..Len(sql)] ==
            IF p = 0 THEN 0
            ELSE LET before == open[p - 1]
                 IN  IF before >= p THEN before ELSE TokenEnd(sql, p)
    IN  {p \in DOMAIN sql : open[p] < p}

MasksLexically(sql) ==
    LET code == CodePositions(sql)
    IN  MaskSqlNonCode(sql) = [p \in DOMAIN sql |-> IF p \in code THEN sql[p] ELSE " "]
=============================================================================
