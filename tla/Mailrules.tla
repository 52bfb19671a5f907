------------------------------- MODULE Mailrules -------------------------------
(***************************************************************************)
(* plugin-mailrules.c: the rules of $MAILRULES, and what they do to the    *)
(* session.  A line of the file is a record with a code and, for a rule:   *)
(*   sender, recipient  patterns [kind, set, negated]: a glob stands for   *)
(*                      the addresses it matches; a "list" file holds      *)
(*                      addresses and domains; a "domains" file ([[@...]]) *)
(*                      domains only                                       *)
(*   databytes          0 when the field is empty                          *)
(*   environment        assignments <<name, value>>                        *)
(* The plugin's state is two fields of the session record, loaded and      *)
(* saved_sender; its two lists of rules are Rules once it is loaded.  The  *)
(* suffix that the relayclient field puts on the recipient's address is    *)
(* left out.                                                               *)
(***************************************************************************)
EXTENDS Counters, Sequences, SequencesExt

CONSTANTS
  RuleFile,   \* the lines of $MAILRULES
  DomainOf,   \* addresses to their domains, NoDomain when there is no @
  NoDomain,
  Everything  \* what the glob "*" matches

IsRule(line) ==
  line.databytes \in UnsignedLong /\ \A a \in line.environment : a[2] \in UnsignedLong

\* The lines that are rules.
RuleLines == {i \in DOMAIN RuleFile : RuleFile[i].code \notin {":s", ":r", ":?", "#"}}

ASSUME MailrulesAssumption ==
  RuleFile \in Seq(Range(RuleFile)) /\ \A i \in RuleLines : IsRule(RuleFile[i])

\* The session record of a new process.
session_init ==
  [env |-> {}, nums |-> [name \in {} |-> 0], rcpt_count |-> 0, msg_count |-> 0,
   data_bytes |-> 0, loaded |-> FALSE, saved_sender |-> "none"]

\* The table a rule goes to, after the last selector line seen, if any.
TableOf(rule, selector) ==
  IF selector # "none" THEN selector
  ELSE IF rule.recipient.kind = "glob" /\ rule.recipient.set = Everything
  THEN "sender" ELSE "recip"

(***************************************************************************)
(* What init makes of the file: selector lines, rules, and lines that      *)
(* begin with no code, which are skipped.  Anything else after a colon is  *)
(* a syntax error, and stops the program.                                  *)
(***************************************************************************)
Rules ==
  LET line(acc, l) ==
        CASE acc.resp # "none" -> acc
          [] l.code \in {":s", ":r"} ->
               [acc EXCEPT !.selector = IF l.code = ":s" THEN "sender" ELSE "recip"]
          [] l.code = ":?" -> [acc EXCEPT !.resp = "temp"]
          [] l.code = "#" -> acc
          [] OTHER -> LET table == TableOf(l, acc.selector)
                      IN  [acc EXCEPT ![table] = Append(@, l)]
      after[i \in 0 .. Len(RuleFile)] ==
        IF i = 0 THEN [selector |-> "none", sender |-> <<>>, recip |-> <<>>, resp |-> "none"]
        ELSE line(after[i - 1], RuleFile[i])
  IN  after[Len(RuleFile)]

mailrules_init(x) ==
  IF "MAILRULES" \notin DOMAIN Environ THEN Reply(x, "none")
  ELSE Reply([x EXCEPT !.loaded = TRUE], Rules.resp)

\* Mutants of mailrules_reset: the environment stays; the limit stays.
mailrules_reset_keeping_env(x) ==
  Reply(IF x.loaded THEN session_delnum(x, "maxdatabytes") ELSE x, "none")
mailrules_reset_keeping_limit(x) ==
  Reply(IF x.loaded THEN session_resetenv(x) ELSE x, "none")

mailrules_reset(x) ==
  Reply(IF x.loaded THEN session_delnum(session_resetenv(x), "maxdatabytes") ELSE x, "none")

matches(pattern, address) ==
  LET hit == IF pattern.kind = "domains"
             THEN DomainOf[address] \in pattern.set \ {NoDomain}
             ELSE \/ address \in pattern.set
                  \/ pattern.kind = "list" /\ DomainOf[address] \in pattern.set
  IN  hit # pattern.negated

build_response(code) ==
  CASE code \in {"p", "n"} -> "none"
    [] code = "k" -> "ok"
    [] code = "K" -> "final"
    [] code = "d" -> "perm"
    [] OTHER -> "temp"

\* Mutant of apply_rule: an empty field is a limit of nothing.
apply_rule_empty_field(x0, rule) ==
  LET x == session_putenv(x0, rule.environment)
  IN  IF session_getnum(x, "maxdatabytes", Unlimited) > rule.databytes
      THEN session_setnum(x, "maxdatabytes", rule.databytes) ELSE x

apply_rule(x0, rule) ==
  LET x   == session_putenv(x0, rule.environment)
      max == session_getnum(x, "maxdatabytes", Unlimited)
  IN  IF max = 0 \/ (rule.databytes > 0 /\ max > rule.databytes)
      THEN session_setnum(x, "maxdatabytes", rule.databytes) ELSE x

\* saved_sender is whatever the last run for a sender left there.
rule_matches(x, rule, is_recip, address) ==
  /\ matches(rule.sender, x.saved_sender)
  /\ is_recip => matches(rule.recipient, address)

\* Mutant of prev_and: a rule that fails holds back the next one too.
prev_and_sticky(x, rules, is_recip, address) ==
  LET and[i \in DOMAIN rules] ==
        i = 1 \/ (and[i - 1] /\ rule_matches(x, rules[i - 1], is_recip, address))
  IN  {i \in DOMAIN rules : and[i]}

\* The rules before which prev_and holds.
prev_and(x, rules, is_recip, address) ==
  LET and[i \in DOMAIN rules] ==
        \/ i = 1
        \/ rules[i - 1].code # "&"
        \/ and[i - 1] /\ rule_matches(x, rules[i - 1], is_recip, address)
  IN  {i \in DOMAIN rules : and[i]}

(***************************************************************************)
(* The rules that match are applied in turn until one of them, not an n    *)
(* rule, answers.                                                          *)
(***************************************************************************)
run_rules(x0, rules, is_recip, address) ==
  LET x    == IF is_recip THEN x0 ELSE [x0 EXCEPT !.saved_sender = address]
      hits == {i \in prev_and(x, rules, is_recip, address) :
                 rules[i].code # "&" /\ rule_matches(x, rules[i], is_recip, address)}
      ends == {i \in hits : rules[i].code # "n"}
      stop == IF ends = {} THEN Len(rules) ELSE Min(ends)
      after[i \in 0 .. stop] ==
        IF i = 0 THEN x
        ELSE IF i \in hits THEN apply_rule(after[i - 1], rules[i]) ELSE after[i - 1]
  IN  IF x0.loaded
      THEN Reply(after[stop],
                 IF ends = {} THEN "none" ELSE build_response(rules[Min(ends)].code))
      ELSE Reply(x0, "none")

validate_sender(x, address)    == run_rules(x, Rules.sender, FALSE, address)
validate_recipient(x, address) == run_rules(x, Rules.recip, TRUE, address)

=============================================================================
