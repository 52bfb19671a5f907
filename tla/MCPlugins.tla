------------------------------- MODULE MCPlugins -------------------------------
(***************************************************************************)
(* Bounds for Plugins: the documented order of the plugins, and what up to *)
(* three directives make of it; limits that two messages, two recipients   *)
(* and three bytes reach; and a rule file with every code, both selectors  *)
(* and rules before any.                                                   *)
(***************************************************************************)
EXTENDS Plugins

MCEnviron ==
  [n \in {"DATABYTES", "MAXMSGS", "MAXRCPTS", "MAILRULES"} |->
     CASE n = "DATABYTES" -> 3 [] n = "MAXMSGS" -> 2 [] n = "MAXRCPTS" -> 2 [] OTHER -> 0]

D(op, name) == [op |-> op, name |-> name]
MCWrapped == <<D("", "counters"), D("", "mailrules"), D("", "relayclient"), D("", "lua")>>
MCDirective ==
  {D("-", "*"), D("+", "mailrules"), D("", "lua"), D("-", "lua"), D("+", "lua"),
   D("", "cvm-authenticate"), D("+", "require-auth"), D("-", "require-auth"),
   D("", "force-file"), D("-", "counters"), D("", "reject"), D("", "accept")}

MCChains ==
  {<<"counters", "mailrules", "relayclient", "lua">>,
   <<"mailrules", "counters", "relayclient", "lua">>,
   <<"counters", "mailrules", "relayclient", "reject", "accept">>,
   <<"counters", "mailrules", "relayclient", "lua", "accept">>,
   <<"require-auth", "counters", "mailrules", "relayclient", "cvm-authenticate", "lua">>}

MCDomainOf == [a \in {"none", "anna", "bert", "carl@c", "dora@d"} |->
                 CASE a = "carl@c" -> "@c" [] a = "dora@d" -> "@d" [] OTHER -> "nodomain"]

Glob(set) == [kind |-> "glob", set |-> set, negated |-> FALSE]
Not(p)    == [p EXCEPT !.negated = TRUE]
MCEverything == {"none", "anna", "bert", "carl@c", "dora@d"}
AnyOne == Glob(MCEverything)
Domains(set) == [kind |-> "domains", set |-> set, negated |-> FALSE]
Listed(set) == [kind |-> "list", set |-> set, negated |-> FALSE]

Rule(code, s, r, bytes, env) ==
  [code |-> code, sender |-> s, recipient |-> r, databytes |-> bytes, environment |-> env]

MCRuleFile ==
  <<[code |-> "#"],
    Rule("n", Glob({"anna"}), AnyOne, 2, {<<"RELAYCLIENT", 0>>}),
    Rule("&", Glob({"bert"}), Domains({"@c"}), 0, {}),
    Rule("d", AnyOne, Glob({"dora@d"}), 0, {}),
    [code |-> ":s"],
    Rule("k", Not(Glob({"anna"})), AnyOne, 0, {<<"MAXRCPTS", 1>>, <<"REJECT", 0>>}),
    [code |-> ":r"],
    Rule("&", Glob({"anna"}), AnyOne, 0, {}),
    Rule("K", AnyOne, Listed({"@c"}), 1, {}),
    Rule("z", Glob({"anna"}), Not(Domains({"@c"})), 1, {<<"MAXRCPTS_REJECT", 1>>}),
    Rule("p", Glob({"bert"}), AnyOne, 0, {<<"DATABYTES", 1>>, <<"RELAYCLIENT", 0>>})>>

=============================================================================
