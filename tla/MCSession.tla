----------------------------- MODULE MCSession -----------------------------
(***************************************************************************)
(* Instances of the compiler session.  app imports lib and table, lib      *)
(* imports table; table may be given an import of lib, which closes a      *)
(* cycle.                                                                  *)
(***************************************************************************)
EXTENDS Session

CONSTANTS app, lib, table

Data(exports, body) ==
    [ok |-> TRUE, emits |-> TRUE, portable |-> TRUE, exports |-> exports,
     body |-> body, shape |-> 1]
Code(body) ==
    [ok |-> TRUE, emits |-> TRUE, portable |-> FALSE, exports |-> 1,
     body |-> body, shape |-> 1]
Bad == [Code(1) EXCEPT !.ok = FALSE]
Unemittable == [Code(3) EXCEPT !.emits = FALSE]

MCPaths == {app, lib, table}

\* Data of two bodies with the same exports, code of one shape with two
\* bodies, code that cannot be emitted, and a text that does not check.
MCTexts == {Data(1, 1), Data(1, 2), Code(1), Code(2), Unemittable, Bad}
CodeTexts == {Data(1, 1), Code(1), Code(2)}
MCSnapshots == {Data(1, 1)}
NoSnapshots == {}

Chain == [p \in MCPaths |-> IF p = app THEN {lib, table}
                            ELSE IF p = lib THEN {table} ELSE {}]
MCInitialTexts == [p \in MCPaths |-> IF p = table THEN Data(1, 1) ELSE Code(1)]
MCChoices == [p \in MCPaths |-> {Chain[p]} \cup
                 (IF p = app THEN {{lib}} ELSE IF p = table THEN {{lib}} ELSE {{}})]
NoChoices == [p \in MCPaths |-> {}]

Asks(kind, roots) == {[kind |-> kind, root |-> r, units |-> {}] : r \in roots}
Develops(units) == [kind |-> "develop", root |-> app, units |-> units]
DevelopOnly == {Develops({app}), Develops({app, lib})}

\* A check of a module below, a compilation, and a preparation of two units.
MCRequests ==
    Asks("check", {lib}) \cup Asks("compile", {app}) \cup {Develops({app, lib})}
=============================================================================
