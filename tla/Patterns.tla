------------------------------ MODULE Patterns ------------------------------
(***************************************************************************)
(* Anti-unification by complete observation columns (antiunification/many.py) *)
(* and instantiation (antiunification/algebra.py), one layer of syntax at a    *)
(* time.  AntiUnification makes the recursion over these layers.               *)
(*                                                                         *)
(* A tree is a layer above its parts: an application of a constructor to       *)
(* arguments, an atom, or a finite map, whose entries are pairs <<key, value>>. *)
(* A pattern is a tree that may contain holes.  A column has one tree for each *)
(* observation.                                                               *)
(***************************************************************************)
EXTENDS Integers, Sequences, FiniteSets

Tree(con, sort, atom, args, entries) ==
    [con |-> con, sort |-> sort, atom |-> atom, args |-> args, entries |-> entries]
App(sort, constructor, args) == Tree("app", sort, <<constructor, "", 0>>, args, {})
Atom(sort, atom) == Tree("atom", sort, atom, <<>>, {})
FiniteMap(sort, entries) == Tree("map", sort, <<"map", "", 0>>, <<>>, entries)
Hole(name, sort) == Tree("hole", sort, <<"hole", name, 0>>, <<>>, {})

Keys(map) == {entry[1] : entry \in map.entries}
ValueOf(map, key) == (CHOOSE entry \in map.entries : entry[1] = key)[2]

\* The trees directly below a layer.
Parts(tree) ==
    {tree.args[k] : k \in DOMAIN tree.args} \cup Keys(tree) \cup {entry[2] : entry \in tree.entries}

-----------------------------------------------------------------------------
(* Generalising. columns are the parameters' columns, by their names.          *)

\* Mutant of HoleName: a parameter is recognised by its first observation.
HoleNameByBaseline(column, columns) ==
    LET names == {n \in DOMAIN columns : columns[n][1] = column[1]}
    IN IF Cardinality(names) = 1 THEN CHOOSE n \in names : TRUE ELSE <<"V", column>>

\* fresh: a hole is named by the one parameter whose column this is, or by the
\* column itself.
HoleName(column, columns) ==
    LET names == {n \in DOMAIN columns : columns[n] = column}
    IN IF Cardinality(names) = 1 THEN CHOOSE n \in names : TRUE ELSE <<"V", column>>
Fresh(column, columns) == Hole(HoleName(column, columns), column[1].sort)

AllEqual(column) == \A i \in DOMAIN column : column[i] = column[1]
SameConstructor(column) ==
    \A i \in DOMAIN column :
        /\ column[i].con = "app" /\ column[i].sort = column[1].sort
        /\ column[i].atom = column[1].atom /\ Len(column[i].args) = Len(column[1].args)
Argument(column, k) == [i \in DOMAIN column |-> column[i].args[k]]

\* The entries of the other maps that a key of the first one corresponds to: the
\* parameter's whose column begins with it, those of the same key otherwise.
Signatures(key, columns) == {columns[n] : n \in {m \in DOMAIN columns : columns[m][1] = key}}
KeyColumn(column, columns, key) ==
    IF Signatures(key, columns) = {} THEN [i \in DOMAIN column |-> key]
    ELSE CHOOSE signature \in Signatures(key, columns) : TRUE
ValueColumn(column, columns, key) ==
    [i \in DOMAIN column |-> ValueOf(column[i], KeyColumn(column, columns, key)[i])]

\* Maps of one size, of which each entry corresponds to one of its own.
SameKeys(column, columns) ==
    LET wanted(key) == KeyColumn(column, columns, key)
    IN /\ \A i \in DOMAIN column :
             /\ column[i].con = "map" /\ column[i].sort = column[1].sort
             /\ column[i].atom = column[1].atom
             /\ Cardinality(column[i].entries) = Cardinality(column[1].entries)
       /\ \A key \in Keys(column[1]) :
             /\ Cardinality(Signatures(key, columns)) <= 1
             /\ \A i \in DOMAIN column :
                   /\ wanted(key)[i] \in Keys(column[i])
                   /\ \A other \in Keys(column[1]) \ {key} : wanted(key)[i] # wanted(other)[i]

\* antiunify_many.visit: one layer of the pattern of a column, the patterns of the
\* columns below being Below.  Where the code gives up instead (unequal sorts, an
\* ambiguous key, two names of a column) the hole has no parameter's name.
Generalize1(column, columns, Below(_)) ==
    CASE AllEqual(column) -> column[1]
      [] ~AllEqual(column) /\ SameConstructor(column) ->
             [column[1] EXCEPT !.args =
                 [k \in DOMAIN column[1].args |-> Below(Argument(column, k))]]
      [] ~AllEqual(column) /\ SameKeys(column, columns) ->
             [column[1] EXCEPT !.entries =
                 {<<Below(KeyColumn(column, columns, key)), Below(ValueColumn(column, columns, key))>> :
                     key \in Keys(column[1])}]
      [] OTHER -> Fresh(column, columns)

-----------------------------------------------------------------------------
(* Instantiating                                                             *)

\* Generalization.instantiate.visit: one layer of a pattern at a row, which gives
\* the tree for every hole.
Fill1(pattern, row, Below(_)) ==
    IF pattern.con = "hole" THEN row[pattern.atom[2]]
    ELSE [pattern EXCEPT !.args = [k \in DOMAIN pattern.args |-> Below(pattern.args[k])],
                         !.entries = {<<Below(entry[1]), Below(entry[2])>> : entry \in pattern.entries}]
-----------------------------------------------------------------------------
(* What makes a pattern be found again in its instances                       *)

\* Parameters that vary and differ from each other, and stand for atoms: what Columns keeps
\* of the prepared bindings and what extract insists on.
Independent(columns, n) ==
    /\ \A m \in DOMAIN columns : ~AllEqual(columns[m]) /\ \A i \in 1 .. n : columns[m][i].con = "atom"
    /\ \A l, m \in DOMAIN columns : columns[l] = columns[m] => l = m

\* What the parameters are in observation i.
ParameterRow(columns, i) == [m \in DOMAIN columns |-> columns[m][i]]

\* A key of a template's map is a constant no parameter begins with, or a parameter whose
\* beginning is no other's and which somewhere is none of the keys of the first row.
\* Each h[i] has the instances at the parameters of observation i.
KeysSeparate(h, Q, columns, n) ==
    \A q \in Q : \A e \in q.entries :
        \/ /\ e[1].con = "atom" /\ Signatures(e[1], columns) = {}
        \/ /\ e[1].con = "hole"
           /\ Signatures(h[1][e[1]], columns) = {columns[e[1].atom[2]]}
           /\ \E i \in 1 .. n : columns[e[1].atom[2]][i] \notin Keys(h[1][q])
=============================================================================
