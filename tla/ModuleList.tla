------------------------------ MODULE ModuleList ------------------------------
(***************************************************************************)
(* The list of plugins of modules.c, as the pointers it is made of: a      *)
(* record m with the fields                                                *)
(*   next   plugin->next of every plugin, kept when it leaves the list     *)
(*   head   session.plugin_list                                            *)
(*   tail   session.plugin_tail                                            *)
(*   flags  FLAG_NEED_FILE is set in session.flags                         *)
(* A directive is a record [op, name] with op "", "+" or "-".  The same    *)
(* name always finds the same struct: a built-in, or what dlopen returned  *)
(* the first time.                                                         *)
(***************************************************************************)
EXTENDS Integers, Sequences, FiniteSets

CONSTANTS
  Plugin,
  NeedsFile,  \* the plugins with FLAG_NEED_FILE
  Null

ASSUME ModuleListAssumption ==
  IsFiniteSet(Plugin) /\ Null \notin Plugin /\ "*" \notin Plugin

NoPlugins == [next |-> [p \in Plugin |-> Null], head |-> Null, tail |-> Null, flags |-> FALSE]

\* The plugins in the order in which MODULE_CALL meets them.
Walk(m) ==
  LET after(p) == IF p = Null THEN Null ELSE m.next[p]
      nth[k \in 1 .. Cardinality(Plugin) + 1] == IF k = 1 THEN m.head ELSE after(nth[k - 1])
      long == {k \in DOMAIN nth : nth[k] # Null}
  IN  [k \in 1 .. Cardinality(long) |-> nth[k]]

append_plugin(m, p) ==
  LET n == [m EXCEPT !.next[p] = Null, !.tail = p]
  IN  IF m.tail = Null THEN [n EXCEPT !.head = p] ELSE [n EXCEPT !.next[m.tail] = p]

prepend_plugin(m, p) ==
  [m EXCEPT !.next[p] = m.head, !.head = p, !.tail = IF @ = Null THEN p ELSE @]

\* Mutant of remove_plugin: the tail still points at the plugin removed.
remove_plugin_keeping_tail(m, name) ==
  LET w == Walk(m)
      at == {i \in DOMAIN w : w[i] = name}
  IN  IF name = "*" THEN [m EXCEPT !.head = Null, !.tail = Null]
      ELSE IF at = {} THEN m
      ELSE LET i == CHOOSE i \in at : TRUE
           IN  IF i = 1 THEN [m EXCEPT !.head = m.next[name]]
               ELSE [m EXCEPT !.next[w[i - 1]] = m.next[name]]

(***************************************************************************)
(* "*" empties the list, and nothing was found; else the first plugin of   *)
(* that name is unlinked, if there is one.                                 *)
(***************************************************************************)
remove_plugin(m, name) ==
  LET w == Walk(m)
      at == {i \in DOMAIN w : w[i] = name}
  IN  IF name = "*" THEN [m EXCEPT !.head = Null, !.tail = Null]
      ELSE IF at = {} THEN m
      ELSE LET i     == CHOOSE i \in at : TRUE
               after == m.next[name]
               prev  == IF i = 1 THEN Null ELSE w[i - 1]
               cut   == IF i = 1 THEN [m EXCEPT !.head = after]
                        ELSE [m EXCEPT !.next[prev] = after]
           IN  IF after = Null THEN [cut EXCEPT !.tail = prev] ELSE cut

\* Only names that load are directives here, and "*" is none but to remove.
IsDirective(d) ==
  \/ d.op \in {"", "+", "-"} /\ d.name \in Plugin
  \/ d.op = "-" /\ d.name = "*"

\* A plugin already in the list moves.
load_add_plugin(m, d) ==
  LET without == remove_plugin(m, d.name)
      added   == IF d.op = "+" THEN prepend_plugin(without, d.name)
                 ELSE append_plugin(without, d.name)
  IN  IF d.op = "-" THEN without
      ELSE [added EXCEPT !.flags = @ \/ d.name \in NeedsFile]

=============================================================================
