------------------------------- MODULE MCGenDb ------------------------------
(* The functions gendb writes for some tables, called in every order.        *)
EXTENDS GenCalls

Word(base) == [base |-> base, upper |-> FALSE]
Column(name, letters, dtype, length) ==
  [name |-> name, letters |-> letters, dtype |-> dtype, length |-> length]
Env(columns) == [connect |-> TRUE, alloc |-> TRUE, tables |-> <<>>, columns |-> columns]
Args(table, keys, funcs, noins, noupd) ==
  [help |-> FALSE, list |-> FALSE, table |-> table, keys |-> keys, funcs |-> funcs,
   noins |-> noins, noupd |-> noupd, format |-> "c"]

Hosts == Env(<<Column("id", 2, 4, 10), Column("name", 4, 12, 19), Column("up", 2, -6, 3)>>)
Blobs == Env(<<Column("guid", 4, -11, 16), Column("id", 2, -5, 19)>>)
Loads == Env(<<Column("load", 4, 8, 15), Column("hostname", 8, 12, 19)>>)
Commands ==
  {[env |-> Hosts, args |-> Args("patch_actions", <<<<Word("id")>>>>, <<>>, <<Word("id")>>,
                                 <<Word("name")>>)],
   [env |-> Hosts, args |-> Args("hosts", <<<<Word("name")>>, <<Word("id"), Word("up")>>,
                                            <<[base |-> "id", upper |-> TRUE]>>>>,
                                 <<"i", "s", "u">>, <<>>, <<Word("up")>>)],
   [env |-> Blobs, args |-> Args("blobs", <<<<Word("id")>>>>, <<"d", "s", "i">>, <<>>, <<>>)],
   [env |-> Hosts, args |-> Args("hosts", <<<<Word("up")>>>>, <<"b", "u">>, <<Word("name")>>, <<>>)],
   [env |-> Loads, args |-> Args("loads", <<<<Word("load")>>, <<Word("hostname")>>>>,
                                 <<"d", "i">>, <<>>, <<>>)],
   [env |-> Env(<<>>), args |-> Args("nowhere", <<<<Word("id")>>>>, <<"s", "i">>, <<>>, <<>>)]}

-----------------------------------------------------------------------------
NoIns == {Fields[k].name : k \in {k \in DOMAIN Fields : Fields[k].noins}}
NoUpd == {Fields[k].name : k \in {k \in DOMAIN Fields : Fields[k].noupd}}
ExactOnes == {Fields[k].name : k \in {k \in DOMAIN Fields : Exact(Fields[k])}}
Agree(row, other) == \A column \in ExactOnes : row[column] = other[column]
Match(clause, row) == clause.key = "" \/ row[clause.key] = clause.value
Without(clause) == Kept(rows, {k \in DOMAIN rows : ~Match(clause, rows[k])})
Shown(row) == [column \in Columns |-> IF row[column] = "null" THEN "0" ELSE row[column]]

(* A call changes the table as it is asked to: a successful insert adds the  *)
(* record without the columns that -i names, an update sets the others that  *)
(* -n does not name, in the rows of its clause and nowhere else, a delete    *)
(* removes these rows; a request to create adds a row of the columns given,  *)
(* one to update sets these in the rows with its key, one to destroy removes *)
(* the rows with its keys.  A call that fails, and any that reads, changes   *)
(* nothing; none changes a table whose columns gendb was not told.  A value  *)
(* whose format is not for it is not looked at, and create is for the script *)
(* of patch_actions only: any other puts the row into that table as well.    *)
Asked ==
  LET fn == last'.fn
      given == last'.given
      key == run.script.key
      Inserting == \E row \in [Columns -> Values \cup {"null", "junk"}] :
                     /\ rows' = Append(rows, row)
                     /\ Agree(row, [column \in Columns |-> IF column \in NoIns THEN "null"
                                                           ELSE rec[column]])
      Updating == /\ Len(rows') = Len(rows)
                  /\ \A k \in DOMAIN rows :
                       IF Match(given, rows[k])
                       THEN Agree(rows'[k], [column \in Columns |->
                              IF column \in NoIns \cup NoUpd THEN rows[k][column] ELSE rec[column]])
                       ELSE rows'[k] = rows[k]
      Creating == run.script.table = "patch_actions" =>
                    rows' = Append(rows, [column \in Columns |->
                              IF column \in given THEN rec[column] ELSE "null"])
      Setting == /\ Len(rows') = Len(rows)
                 /\ \A k \in DOMAIN rows, column \in Columns :
                      rows'[k][column] = IF column \in given /\ rows[k][key] = rec[key]
                                         THEN rec[column] ELSE rows[k][column]
      Destroying == rows' = Kept(rows, {k \in DOMAIN rows : rows[k][key] \notin Range(given)})
  IN  IF last'.ret # 0 \/ ~Described THEN rows' = rows
      ELSE CASE fn = "insert" -> Inserting
             [] fn = "update_record" -> Updating
             [] fn = "delete" -> rows' = Without(given)
             [] fn = "create" -> Creating
             [] fn = "update" -> Setting
             [] fn = "destroy" -> Destroying
             [] OTHER -> rows' = rows
AsAsked == [][Asked]_vars

(* A record that is read is the first row of its clause, or the next one of  *)
(* the cursor, NULL being zero or empty; nothing is read that is not there.  *)
(* A script that is asked for page after page shows each row once.  Of a     *)
(* table whose columns gendb was not told nothing is read, and 0 returned.   *)
Pages(n) == FlattenSeq([k \in 1..MaxRows |-> DoRead(IF k = 1 THEN -1 ELSE (k - 1) * n, n)])
ReadsRows ==
  LET found == Kept(rows, {k \in DOMAIN rows : Match(last'.given, rows[k])})
  IN  /\ last'.fn = "fetch_record" /\ last'.ret = 0 /\ Described =>
           /\ stmt.rest # <<>> /\ rec' = Shown(stmt.rest[1])
           /\ stmt'.rest = SubSeq(stmt.rest, 2, Len(stmt.rest))
      /\ last'.fn = "select_record" /\ last'.ret = 0 /\ Described =>
           found # <<>> /\ rec' = Shown(found[1])
      /\ last'.ret # 0 => rec' = rec
      /\ \A n \in 1..MaxRows : Pages(n) = rows
ReadsAreRows == [][ReadsRows]_vars

(* Only select leaves an open cursor, which lets no other statement through: *)
(* select_record and the functions with a key close theirs, whether there is *)
(* a row, none or an error, and so does the fetch_record that ends a loop.   *)
CursorIsFreed ==
  [][/\ stmt'.open => stmt.open \/ last'.fn = "select"
     /\ last'.fn = "fetch_record" /\ last'.ret # 0 => ~stmt'.open]_vars

(* The program links: a generated function calls generated functions only,   *)
(* and none is there twice.  The script has a key if it needs one.  A clause *)
(* fits into its array where the name of the key has at most six letters,    *)
(* the key is no floating point number, whose digits have no room, and, if   *)
(* it is printed as a 64-bit number, is listed with a length of 15 or more.  *)
ProgramIsWhole ==
  LET src == run.c.src
      names == {src[k].name : k \in DOMAIN src}
      keys == run.c.table.keys
  IN  /\ \A k \in DOMAIN src : src[k].calls \subseteq names
      /\ \A j, k \in DOMAIN src : src[j].name = src[k].name => j = k
      /\ \A k \in DOMAIN keys :
           keys[k].letters <= 6 /\ keys[k].pfmt # "%f" /\ (keys[k].pfmt = "%lld" => keys[k].len >= 15)
             => ClauseLength(keys[k]) <= TempSize(keys[k])
      /\ run.script.whole /\ run.script.actions \cap {"update", "destroy"} # {} =>
           run.script.key \in Columns
=============================================================================
