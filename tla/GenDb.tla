------------------------------- MODULE GenDb --------------------------------
(* src/gendb: from a table's description to the C functions (out_c.c) and    *)
(* the PHP script (out_php.c) that read and write it.  A name on the command *)
(* line is a record [base, upper], upper saying that it has capitals; a key  *)
(* is a sequence of names, those between "+", and a word that is missing,    *)
(* which ends a list, is not in the sequence.  env is what is met there:     *)
(*   connect, alloc   whether db_connect and SQLAllocStmt succeed            *)
(*   columns          what SQLColumns lists, <<>> when it fails              *)
(*   tables           what SQLTables lists.                                  *)
(* A column listed is [name, letters, dtype, length].                        *)
EXTENDS Integers, Sequences, SequencesExt

(* The elements of s at the places I, in their order.                        *)
Kept(s, I) ==
  LET upto[k \in 0..Len(s)] ==
        IF k = 0 THEN <<>> ELSE IF k \in I THEN Append(upto[k - 1], s[k]) ELSE upto[k - 1]
  IN  upto[Len(s)]

-----------------------------------------------------------------------------
(* info.c: how C holds and prints a column of an SQL type.                   *)

FieldType(dtype) ==
  CASE dtype \in {-10, -9, -1, 12} -> "STRING" [] dtype \in {-7, -6, 1} -> "CHAR"
    [] dtype \in {9, 10, 11} -> "DATE"         [] dtype \in {-11, -4, -3, -2} -> "BIN"
    [] dtype = -5 -> "QUAD"                    [] dtype \in {3, 7} -> "FLOAT"
    [] dtype = 4 -> "INT"                      [] dtype = 5 -> "SHORT"
    [] dtype = 8 -> "DOUBLE"                   [] OTHER -> "UNK"
Format(dtype) ==
  CASE dtype \in {-5, -2} -> "%lld"            [] dtype \in {-11, -8, -4, -3, 2, 6} -> "%x"
    [] dtype \in {-7, -6, 4, 5} -> "%d"        [] dtype \in {3, 7, 8} -> "%f"
    [] OTHER -> "%s"

Cut(length) == IF length > 16383 THEN 16383 ELSE length
FieldInfo(column) ==
  LET text == Format(column.dtype) = "%s"
      tiny == column.dtype \in {-7, -6}
  IN  [name |-> column.name, letters |-> column.letters, dtype |-> column.dtype,
       type |-> FieldType(column.dtype), pfmt |-> Format(column.dtype),
       len |-> (IF tiny THEN 1 ELSE Cut(column.length)) + IF text THEN 1 ELSE 0,
       noins |-> FALSE, noupd |-> FALSE]

(* util.c: names of columns are in lower case, those asked for are as given. *)
GetColumn(fields, name) ==
  IF name.upper THEN {} ELSE {k \in DOMAIN fields : fields[k].name = name.base}

(* A compound key is read and forgotten; a key that is no column is told.    *)
IsKey(fields, key) == Len(key) = 1 /\ GetColumn(fields, key[1]) # {}
KeyField(fields, key) == fields[CHOOSE k \in GetColumn(fields, key[1]) : TRUE]
GetTableInfo(env, name, keys) ==
  LET fields == [k \in DOMAIN env.columns |-> FieldInfo(env.columns[k])]
      wanted == Kept(keys, {k \in DOMAIN keys : IsKey(fields, keys[k])})
  IN  [name |-> name, fields |-> fields,
       keys |-> [k \in DOMAIN wanted |-> KeyField(fields, wanted[k])]]
GetTableList(env) ==
  [k \in DOMAIN env.tables |->
     IF env.tables[k].owner = "" THEN <<env.tables[k].name>>
     ELSE <<env.tables[k].owner, env.tables[k].name>>]

-----------------------------------------------------------------------------
(* out_c.c: a function of the generated program is a record; cols, fmts and  *)
(* args are the columns, formats and arguments of its sprintf, in order, and *)
(* calls the generated functions it calls.                                   *)

Function(name, cols, fmts, args, calls) ==
  [name |-> name, cols |-> cols, fmts |-> fmts, args |-> args, calls |-> calls]
NamesOf(fields) == [k \in DOMAIN fields |-> fields[k].name]
FormatsOf(fields) == [k \in DOMAIN fields |-> fields[k].pfmt]
Plain(name, cols) == Function(name, cols, <<>>, <<>>, {})
Calling(name, calls) == Function(name, <<>>, <<>>, <<>>, calls)

WriteBind(table) == <<Plain(<<"bind_record">>, NamesOf(table.fields))>>
WriteFetchBase == <<Plain(<<"fetch">>, <<>>)>>
WriteFetch(table) ==
  WriteFetchBase \o
    <<Function(<<"fetch_record">>, NamesOf(table.fields), <<>>, <<>>, {<<"fetch">>})>>
WriteSelectBase(table) == <<Plain(<<"select">>, NamesOf(table.fields))>>
WriteSelect(table) ==
  WriteSelectBase(table) \o <<Calling(<<"select_record">>, {<<"select">>, <<"fetch_record">>})>>

(* What -i leaves out of an insert is left out of an update, too.            *)
FieldsIn(fields) == Kept(fields, {k \in DOMAIN fields : ~fields[k].noins})
FieldsSet(fields) == Kept(fields, {k \in DOMAIN fields : ~fields[k].noins /\ ~fields[k].noupd})

WriteInsert(table) ==
  LET in == FieldsIn(table.fields)
  IN  <<Function(<<"insert">>, NamesOf(in), FormatsOf(in), NamesOf(in), {})>>

(* Seeded fault: the arguments begin with those of the columns that -n names.*)
WriteUpdateShifted(table) ==
  LET set == FieldsSet(table.fields)
      all == FieldsIn(table.fields)
  IN  <<Function(<<"update_record">>, NamesOf(set), FormatsOf(set), NamesOf(all), {})>>

WriteUpdate(table) ==
  LET set == FieldsSet(table.fields)
  IN  <<Function(<<"update_record">>, NamesOf(set), FormatsOf(set), NamesOf(set), {})>>
WriteDelete(table) == <<Plain(<<"delete">>, <<>>)>>

(* The functions with a key put it into a clause and call one without.       *)
Keyed(name, field, base) == <<Function(<<name, field.name>>, <<field.name>>, <<field.pfmt>>,
                                       <<field.name>>, {<<base>>})>>
WriteSelectBy(field) == Keyed("select_by", field, "select_record")
WriteUpdateBy(field) == Keyed("update_by", field, "update_record")
WriteDeleteBy(field) == Keyed("delete_by", field, "delete")

(* The array of that clause, and the most that sprintf puts there: " WHERE ",*)
(* the name, " = ", the value, quoted if it is a text, and a zero.  A value  *)
(* is as long as its type in C allows: %f writes all the digits of a float.  *)

TempSize(field) == ((field.len + 33) \div 16) * 16
ValueLength(field) ==
  CASE field.pfmt = "%s" -> field.len - 1 [] field.pfmt = "%lld" -> 20
    [] field.pfmt = "%f" -> (IF field.dtype = 8 THEN 317 ELSE 47)
    [] field.pfmt = "%x" -> 8
    [] OTHER -> (CASE field.dtype = 4 -> 11 [] field.dtype = 5 -> 6 [] OTHER -> 3)
ClauseLength(field) ==
  7 + field.letters + 3 + ValueLength(field) + (IF field.pfmt = "%s" THEN 2 ELSE 0) + 1

(* write_c_inc and write_c_src go through the letters in the same way, the   *)
(* one for the declarations, the other for the bodies.                       *)
NonKeyed(table, f) ==
  CASE f = "b" -> WriteBind(table)   [] f = "f" -> WriteFetch(table)
    [] f = "s" -> WriteSelect(table) [] f = "i" -> WriteInsert(table)
    [] f = "u" -> WriteUpdate(table) [] f = "d" -> WriteDelete(table)
    [] OTHER -> <<>>
WithKey(field, f) ==
  CASE f = "s" -> WriteSelectBy(field) [] f = "u" -> WriteUpdateBy(field)
    [] f = "d" -> WriteDeleteBy(field) [] OTHER -> <<>>
WriteCSrc(table, funcs) ==
  FlattenSeq([k \in DOMAIN funcs |-> NonKeyed(table, funcs[k])]) \o
    FlattenSeq([m \in DOMAIN table.keys |->
                  FlattenSeq([k \in DOMAIN funcs |-> WithKey(table.keys[m], funcs[k])])])
WriteCInc(table, funcs) ==
  LET src == WriteCSrc(table, funcs)
  IN  [record |-> [k \in DOMAIN table.fields |-> [name |-> table.fields[k].name,
                                                  size |-> table.fields[k].len]],
       count |-> Len(table.fields),
       declared |-> [k \in DOMAIN src |-> src[k].name]]

-----------------------------------------------------------------------------
(* out_php.c: the script knows its columns with a kind, its table, its key   *)
(* and its functions.  Without a key there is no update and no destroy: the  *)
(* program ends in the middle of the file.                                   *)
PhpKind(type) ==
  CASE type \in {"BIN", "SHORT", "INT", "QUAD"} -> "int" [] type \in {"FLOAT", "DOUBLE"} -> "float"
    [] OTHER -> "string"
PhpActions(funcs) ==
  {a \in {"read", "create", "update", "destroy"} :
     Contains(funcs, CASE a = "read" -> "s" [] a = "create" -> "i" [] a = "update" -> "u"
                       [] a = "destroy" -> "d")}
WritePhpSrc(table, funcs) ==
  IF table.keys = <<>> /\ PhpActions(funcs) \cap {"update", "destroy"} # {}
  THEN [whole |-> FALSE]
  ELSE [whole |-> TRUE,
        fields |-> [k \in DOMAIN table.fields |-> table.fields[k].name],
        kinds |-> [k \in DOMAIN table.fields |-> PhpKind(table.fields[k].type)],
        table |-> table.name, creates |-> "patch_actions",
        key |-> IF table.keys = <<>> THEN "" ELSE table.keys[1].name,
        actions |-> PhpActions(funcs)]

-----------------------------------------------------------------------------
(* main: the functions asked for, with what a select of the C program needs. *)

(* Seeded fault: a select brings no fetch.                                   *)
FuncsAsked(format, funcs) ==
  IF funcs # <<>> THEN funcs
  ELSE IF format = "php" THEN <<"s", "i", "u", "d">> ELSE <<"f", "s", "i", "u", "d">>

ReqFuncs(format, funcs) ==
  LET asked == IF funcs # <<>> THEN funcs
               ELSE IF format = "php" THEN <<"s", "i", "u", "d">>
               ELSE <<"f", "s", "i", "u", "d">>
  IN  IF format = "c" /\ Contains(asked, "s") /\ ~Contains(asked, "f")
      THEN Append(asked, "f") ELSE asked

(* The words of -i and -n that are columns.                                  *)
Marked(fields, noins, noupd) ==
  LET Named(words, k) == \E n \in Range(words) : k \in GetColumn(fields, n)
  IN  [k \in DOMAIN fields |->
         [fields[k] EXCEPT !.noins = Named(noins, k), !.noupd = Named(noupd, k)]]

(* args: help, list, table ("" is none), keys, funcs, noins, noupd, format.  *)
(* A table that could not be asked for is a null pointer.                    *)
Gendb(args, env) ==
  IF args.help \/ (args.table = "" /\ ~args.list) THEN [end |-> "usage", exit |-> 1]
  ELSE IF ~env.connect THEN [end |-> "connect", exit |-> 1]
  ELSE IF args.list
  THEN IF env.alloc THEN [end |-> "tables", exit |-> 0, tables |-> GetTableList(env)]
       ELSE [end |-> "tables", exit |-> 1, tables |-> <<>>]
  ELSE IF ~env.alloc THEN [end |-> "crash", exit |-> 139]
  ELSE LET info == GetTableInfo(env, args.table, args.keys)
           table == [info EXCEPT !.fields = Marked(info.fields, args.noins, args.noupd)]
           funcs == ReqFuncs(args.format, args.funcs)
       IN  IF args.format = "php"
           THEN LET php == WritePhpSrc(table, funcs)
                IN  [end |-> "php", exit |-> IF php.whole THEN 0 ELSE 1, table |-> table,
                     script |-> php]
           ELSE [end |-> "c", exit |-> 0, table |-> table,
                 inc |-> WriteCInc(table, funcs), src |-> WriteCSrc(table, funcs)]
=============================================================================
