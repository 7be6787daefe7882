------------------------------ MODULE GenCalls ------------------------------
(* What gendb's functions do to the table they were written for: a program   *)
(* that calls the C functions on its statement, and requests to the PHP      *)
(* script, on a connection of its own.  The database is outside of the       *)
(* repository: a statement with an open cursor executes nothing, a malformed *)
(* one and, whenever it likes, any other fails and changes nothing.  Values  *)
(* are words, "0" also the empty one; "null" is NULL, "junk" what a format   *)
(* makes of a value it is not for.                                           *)
EXTENDS GenDb

CONSTANTS Calls,        \* the command lines and environments gendb is run with
          Values,       \* of a column
          MaxRows,      \* of the table
          MaxCalls      \* of the program and the script together

(* gendb comes to a table.  The database gives its columns names of their    *)
(* own; it lists none of a table that it does not have.                      *)
Name == [base : STRING, upper : BOOLEAN]
Listed == [name : STRING, letters : Nat, dtype : Int, length : Nat]
Proper(call) ==
  LET columns == call.env.columns
  IN  /\ call.args \in [help : {FALSE}, list : {FALSE}, table : STRING \ {""}, format : STRING,
                        keys : Seq(Seq(Name)), funcs : Seq(STRING), noins : Seq(Name),
                        noupd : Seq(Name)]
      /\ call.env.connect /\ call.env.alloc
      /\ columns \in Seq(Listed)
      /\ \A j, k \in DOMAIN columns : columns[j].name = columns[k].name => j = k
ASSUME CallsAssumption == \A call \in Calls : Proper(call)
ASSUME BoundsAssumption == "0" \in Values /\ MaxRows \in Nat

VARIABLES run,          \* what two runs of gendb wrote: [c, script]
          rows,         \* the table
          stmt,         \* db->hstmt: [open, rest], rest the rows not fetched yet
          rec,          \* the program's struct record, also what a request sends
          last,         \* the last call: its name, what it was given, its result
          calls         \* how many there were
vars == <<run, rows, stmt, rec, last, calls>>

Fields == run.c.table.fields
Columns == {Fields[k].name : k \in DOMAIN Fields}
FieldOf(name) == Fields[CHOOSE k \in DOMAIN Fields : Fields[k].name = name]
Generated(name) == \E k \in DOMAIN run.c.src : run.c.src[k].name = name
Body(name) == run.c.src[CHOOSE k \in DOMAIN run.c.src : run.c.src[k].name = name]

(* Where no columns are described, a function is compiled to "return 0".     *)
Described == Fields # <<>>

Closed == [open |-> FALSE, rest |-> <<>>]
NoData == 100
(* dberr: SQLGetDiagRec is called until it has no more, which is 100.        *)
Dberr == 100
Did(name, ret, given) ==
  /\ last' = [fn |-> name, ret |-> ret, given |-> given]
  /\ calls < MaxCalls /\ calls' = calls + 1
  /\ UNCHANGED run

-----------------------------------------------------------------------------
(* Statements.  A clause names a column, if any, and its value; blank says   *)
(* that it begins with one, as " WHERE" does.                                *)

Exact(field) == field.pfmt \in {"%s", "%d", "%lld"} /\ field.dtype # -2
Printed(fn, given, k) ==
  IF k \in DOMAIN fn.fmts /\ k \in DOMAIN fn.args /\ fn.fmts[k] = FieldOf(fn.args[k]).pfmt
     /\ Exact(FieldOf(fn.args[k])) THEN given[fn.args[k]] ELSE "junk"
Position(fn, column) == CHOOSE k \in DOMAIN fn.cols : fn.cols[k] = column
Wellformed(fn) == fn.cols # <<>> /\ Len(fn.fmts) = Len(fn.cols)
Put(fn, row) ==
  [column \in Columns |-> IF column \in Range(fn.cols)
                          THEN Printed(fn, rec, Position(fn, column)) ELSE row[column]]
Nulls == [column \in Columns |-> "null"]
NoClause == [key |-> "", value |-> "", blank |-> TRUE]
Unblanked == [key |-> Fields[1].name, value |-> "0", blank |-> FALSE]
Clauses == {NoClause} \cup [key : Columns, value : Values, blank : {TRUE}]
             \cup (IF Described THEN {Unblanked} ELSE {})
Applies(clause, row) == clause.key = "" \/ row[clause.key] = clause.value
Found(clause) == Kept(rows, {k \in DOMAIN rows : Applies(clause, rows[k])})

(* The clause of a function with a key: its value as its format prints it.   *)
KeyClause(fn, value) ==
  LET key == fn.cols[1]
  IN  [key |-> key, value |-> Printed(fn, [column \in {key} |-> value], 1), blank |-> TRUE]

(* A record is cleared, then read column by column; NULL leaves it clear.    *)
Record(fn, row) ==
  [column \in Columns |-> IF column \in Range(fn.cols) /\ row[column] # "null"
                          THEN row[column] ELSE "0"]

Opened(clause, ok) ==
  IF ok /\ ~stmt.open /\ clause.blank /\ Described
  THEN [stmt |-> [open |-> TRUE, rest |-> Found(clause)], ret |-> 0]
  ELSE [stmt |-> stmt, ret |-> IF Described THEN Dberr ELSE 0]

Fetched(s, ok) ==
  IF ~Described THEN [stmt |-> s, ret |-> 0, row |-> <<>>]
  ELSE IF ok /\ s.open /\ s.rest # <<>>
  THEN [stmt |-> [s EXCEPT !.rest = Tail(@)], ret |-> 0, row |-> Head(s.rest)]
  ELSE [stmt |-> s, ret |-> IF s.open /\ ok THEN NoData ELSE Dberr, row |-> <<>>]

(* Seeded fault: the cursor of a failed fetch stays open.                    *)
FetchedRecordOpen(s, ok) ==
  LET f == Fetched(s, ok)
  IN  [stmt |-> f.stmt, ret |-> f.ret,
       rec |-> IF f.ret = 0 THEN Record(Body(<<"fetch_record">>), f.row) ELSE rec]

FetchedRecord(s, ok) ==
  LET f == Fetched(s, ok)
  IN  [stmt |-> IF f.ret # 0 THEN Closed ELSE f.stmt, ret |-> f.ret,
       rec |-> IF f.ret = 0 THEN Record(Body(<<"fetch_record">>), f.row) ELSE rec]

SelectedRecord(clause, ok, okFetch) ==
  LET s == Opened(clause, ok)
      f == FetchedRecord(s.stmt, okFetch)
  IN  IF s.ret # 0 THEN [stmt |-> s.stmt, ret |-> s.ret, rec |-> rec]
      ELSE IF f.ret # 0 THEN f
      ELSE [f EXCEPT !.stmt = Closed]

Executed(ok, new) ==
  IF ok /\ ~stmt.open /\ Described THEN [rows |-> new, ret |-> 0]
  ELSE [rows |-> rows, ret |-> IF Described THEN Dberr ELSE 0]
Inserted(ok) ==
  LET fn == Body(<<"insert">>)
  IN  Executed(ok /\ Wellformed(fn), Append(rows, Put(fn, Nulls)))
(* The blank a clause has not is added.                                      *)
Updated(clause, ok) ==
  LET fn == Body(<<"update_record">>)
      new == [k \in DOMAIN rows |-> IF Applies(clause, rows[k]) THEN Put(fn, rows[k]) ELSE rows[k]]
  IN  Executed(ok /\ Wellformed(fn), SubSeq(new, 1, Len(new)))
Deleted(clause, ok) ==
  Executed(ok /\ clause.blank, Kept(rows, {k \in DOMAIN rows : ~Applies(clause, rows[k])}))

-----------------------------------------------------------------------------
(* The calls of the program; Fill is what it does with its record itself.    *)

Fill(new) == /\ rec' = new
             /\ Did("fill", 0, NoClause)
             /\ UNCHANGED <<rows, stmt>>
Reading(name, result, clause) ==
  /\ Did(name, result.ret, clause)
  /\ stmt' = result.stmt
  /\ UNCHANGED rows
Writing(name, result, given) ==
  /\ Did(name, result.ret, given)
  /\ rows' = result.rows
  /\ UNCHANGED <<stmt, rec>>

Select(clause, ok) ==
  /\ Generated(<<"select">>)
  /\ Reading("select", Opened(clause, ok), clause) /\ UNCHANGED rec
Fetch(ok) ==
  /\ Generated(<<"fetch">>)
  /\ Reading("fetch", Fetched(stmt, ok), NoClause) /\ UNCHANGED rec
FetchRecord(ok) ==
  /\ Generated(<<"fetch_record">>)
  /\ LET result == FetchedRecord(stmt, ok)
     IN  Reading("fetch_record", result, NoClause) /\ rec' = result.rec
SelectRecord(clause, ok, okFetch) ==
  LET result == SelectedRecord(clause, ok, okFetch)
  IN  Reading("select_record", result, clause) /\ rec' = result.rec
Insert(ok) ==
  /\ Generated(<<"insert">>) /\ Len(rows) < MaxRows
  /\ Writing("insert", Inserted(ok), NoClause)
UpdateRecord(clause, ok) == Writing("update_record", Updated(clause, ok), clause)
Delete(clause, ok) == Writing("delete", Deleted(clause, ok), clause)

(* The function with a key calls the one without.                            *)
By(name, key, value) == KeyClause(Body(<<name, key>>), value)
SelectBy(key, value, ok, okFetch) ==
  Generated(<<"select_by", key>>) /\ SelectRecord(By("select_by", key, value), ok, okFetch)
UpdateBy(key, value, ok) ==
  Generated(<<"update_by", key>>) /\ UpdateRecord(By("update_by", key, value), ok)
DeleteBy(key, value, ok) ==
  Generated(<<"delete_by", key>>) /\ Delete(By("delete_by", key, value), ok)

-----------------------------------------------------------------------------
(* Requests to the script.  Data of create and update are the columns given  *)
(* of rec, data of destroy a value, or a list of values.                     *)

Script == run.script
(* The action must be one of the script's.  Any other is told that it is     *)
(* invalid, and then a function is called that is not there.                 *)
Answers(action) == Script.whole /\ action \in Script.actions
Odbc(ok, new) == IF ok THEN [rows |-> new, ret |-> 0] ELSE [rows |-> rows, ret |-> 1]

(* Seeded fault: a limit is looked at first.                                 *)
PageOfLimit(start, limit) == [from |-> 0, many |-> IF limit > 0 THEN limit ELSE start]

(* LIMIT: a start without a limit is taken for one; -1 is none.              *)
Page(start, limit) ==
  IF start > 0 /\ limit > 0 THEN [from |-> start, many |-> limit]
  ELSE [from |-> 0, many |-> IF start > 0 THEN start ELSE limit]
DoRead(start, limit) ==
  LET page == Page(start, limit)
      to == IF page.many > 0 THEN page.from + page.many ELSE Len(rows)
  IN  SubSeq(rows, page.from + 1, IF to < Len(rows) THEN to ELSE Len(rows))
(* A column to sort by and its direction are not kept apart.                 *)
Sortable(sort, dir) == sort = "" \/ dir = ""

(* create: the columns that have data, into one certain table.               *)
DoCreate(given, ok) ==
  LET row == [column \in Columns |-> IF column \in given THEN rec[column] ELSE "null"]
  IN  Odbc(ok /\ given # {}, IF Script.creates = Script.table THEN Append(rows, row) ELSE rows)
(* update: its key, which is not quoted, says which rows.                    *)
KeyIsNumber == \E k \in DOMAIN Script.fields :
                 Script.fields[k] = Script.key /\ Script.kinds[k] # "string"
DoUpdate(given, ok) ==
  LET Set(row) == [column \in Columns |-> IF column \in given THEN rec[column] ELSE row[column]]
      new == [k \in DOMAIN rows |-> IF rows[k][Script.key] = rec[Script.key]
                                    THEN Set(rows[k]) ELSE rows[k]]
  IN  Odbc(ok /\ Script.key \in given /\ KeyIsNumber, SubSeq(new, 1, Len(new)))
(* destroy: a list of one is not a list, and no value either.                *)
DoDestroy(keys, isList, ok) ==
  Odbc(ok /\ (isList => Len(keys) > 1) /\ KeyIsNumber,
       Kept(rows, {k \in DOMAIN rows : rows[k][Script.key] \notin Range(keys)}))

PhpRead(sort, dir, ok) ==
  /\ Answers("read")
  /\ Did("read", IF ok /\ Sortable(sort, dir) /\ Script.fields # <<>> THEN 0 ELSE 1, NoClause)
  /\ UNCHANGED <<rows, stmt, rec>>
PhpCreate(given, ok) ==
  /\ Answers("create") /\ Len(rows) < MaxRows
  /\ Writing("create", DoCreate(given, ok), given)
PhpUpdate(given, ok) == Answers("update") /\ Writing("update", DoUpdate(given, ok), given)
PhpDestroy(keys, isList, ok) ==
  Answers("destroy") /\ Writing("destroy", DoDestroy(keys, isList, ok), keys)

-----------------------------------------------------------------------------
InFormat(call, format) == Gendb([call.args EXCEPT !.format = format], call.env)
Init ==
  /\ \E call \in Calls :
       run = [c |-> InFormat(call, "c"), script |-> InFormat(call, "php").script]
  /\ rows = <<>> /\ stmt = Closed
  /\ rec = [column \in Columns |-> "0"]
  /\ last = [fn |-> "none", ret |-> 0, given |-> NoClause] /\ calls = 0

Given == {Columns} \cup {Columns \ {column} : column \in Columns}
GivenKeys == {<<value>> : value \in Values} \cup {<<v, w>> : v, w \in Values}
Next ==
  \/ \E new \in [Columns -> Values] : Fill(new)
  \/ \E ok \in BOOLEAN :
       \/ Fetch(ok) \/ FetchRecord(ok) \/ Insert(ok)
       \/ \E clause \in Clauses :
            \/ Select(clause, ok)
            \/ \E okFetch \in BOOLEAN :
                 Generated(<<"select_record">>) /\ SelectRecord(clause, ok, okFetch)
            \/ Generated(<<"update_record">>) /\ UpdateRecord(clause, ok)
            \/ Generated(<<"delete">>) /\ Delete(clause, ok)
       \/ \E key \in Columns, value \in Values :
            \/ \E okFetch \in BOOLEAN : SelectBy(key, value, ok, okFetch)
            \/ UpdateBy(key, value, ok) \/ DeleteBy(key, value, ok)
       \/ \E sort, dir \in {"", "DESC"} : PhpRead(sort, dir, ok)
       \/ \E given \in Given : PhpCreate(given, ok) \/ PhpUpdate(given, ok)
       \/ \E keys \in GivenKeys :
            PhpDestroy(keys, TRUE, ok) \/ (Len(keys) = 1 /\ PhpDestroy(keys, FALSE, ok))
Spec == Init /\ [][Next]_vars
=============================================================================
