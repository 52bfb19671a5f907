-------------------------------- MODULE Plugins --------------------------------
(***************************************************************************)
(* A mailfront process from its command line to the end of its session,    *)
(* seen from the plugins: modules.c builds the list, mailfront.c calls the *)
(* hooks along it, and an SMTP client drives the handlers.  The plugins    *)
(* are those that share state through the session: counters, mailrules and *)
(* the built-ins; "lua" stands for a script that answers what it likes but *)
(* leaves the session alone, and whose refusal of a message stands: the    *)
(* one record that all its answers share (plugin-lua.c get_response) is    *)
(* overwritten by its own reset hook, if it has one.  The backend answers  *)
(* what it likes too; its own state is in the modules of the backends.     *)
(***************************************************************************)
EXTENDS ModuleList, Mailrules, Responses

CONSTANTS
  Wrapped,      \* directives of the wrapper script's command line
  Directive,    \* directives of $PLUGINS
  MaxDirectives,\* bound on their number
  Chains,       \* bound: the lists that sessions are run with
  Sender, Recipient,   \* addresses
  Size,         \* SIZE parameters of MAIL, 0 for none
  MaxRecipients,\* bound on RCPT commands between two resets
  MaxBlocks,    \* bound on the blocks of one message, a byte each
  MaxMessages   \* bound on the messages that reach counters_end

ASSUME PluginsAssumption ==
  /\ \A i \in DOMAIN Wrapped : IsDirective(Wrapped[i])
  /\ \A d \in Directive : IsDirective(d)
  /\ "none" \notin Plugin

VARIABLES
  pc,        \* "loading", "starting", "command", "body", "swallow", "closed"
  modules,   \* the plugin list
  listed,    \* what the directives so far say the list is
  loads,     \* how many directives were read
  chain,     \* the list as the session walks it, once nothing changes it
  saw_mail, saw_rcpt,
  x,         \* the session record of SessionStore, Counters and Mailrules
  last,      \* the last hook called: [hook, address, resp, by], by the plugin
             \* whose answer ended the chain
  era,       \* since the last reset: the limits that rules gave (limits; tried
             \* if the command was refused), the recipients asked for and
             \* accepted, and whether a rule allowed relaying; and the sender
  sent,      \* bytes of the message that is arriving
  acks       \* messages answered with an acceptance

vars == <<pc, modules, listed, loads, chain, saw_mail, saw_rcpt, x, last, era, sent, acks>>

(***************************************************************************)
(* The hooks: a hook is the set of what plugin p may answer, [x, resp].  A *)
(* plugin without the hook answers nothing.  A script answers with any     *)
(* number.                                                                 *)
(***************************************************************************)
LuaAnswers(y) == {Reply(y, r) : r \in Response}

reset_hook(p, y) ==
  CASE p = "counters"  -> {counters_reset(y)}
    [] p = "mailrules" -> {mailrules_reset(y)}
    [] p = "lua"       -> LuaAnswers(y)
    [] OTHER           -> {Reply(y, "none")}

relayclient_recip(y) ==
  Reply(y, IF IsSet(y, "RELAYCLIENT") \/ session_getnum(y, "authenticated", 0) # 0
           THEN "ok" ELSE "none")

require_auth(y) ==
  Reply(y, IF session_getnum(y, "authenticated", 0) = 0 /\ ~ IsSet(y, "RELAYCLIENT")
           THEN "perm" ELSE "none")

\* A refusal that the environment asks for (a value without a leading minus).
reject(y) ==
  Reply(y, IF IsSet(y, "SMTPREJECT") \/ IsSet(y, "REJECT") THEN "temp" ELSE "none")

acceptor(y) == Reply(y, "ok")

sender_hook(p, y, address, size) ==
  CASE p = "counters"     -> {counters_sender(y, size)}
    [] p = "mailrules"    -> {validate_sender(y, address)}
    [] p = "require-auth" -> {require_auth(y)}
    [] p = "reject"       -> {reject(y)}
    [] p \in {"accept", "accept-sender"} -> {acceptor(y)}
    [] p = "lua"          -> LuaAnswers(y)
    [] OTHER              -> {Reply(y, "none")}

recipient_hook(p, y, address) ==
  CASE p = "counters"    -> {counters_recipient(y)}
    [] p = "mailrules"   -> {validate_recipient(y, address)}
    [] p = "relayclient" -> {relayclient_recip(y)}
    [] p \in {"accept", "accept-recipient"} -> {acceptor(y)}
    [] p = "lua"         -> LuaAnswers(y)
    [] OTHER             -> {Reply(y, "none")}

\* init, and the hooks of a message, of which a block is one byte.  Whoever
\* calls data_block looks for errors only, so that no answer to it is final.
other_hook(p, y, name) ==
  CASE p = "counters" -> {CASE name = "init"       -> counters_init(y)
                            [] name = "data_start" -> counters_start(y)
                            [] name = "data_block" -> counters_block(y, 1)
                            [] name = "message_end" -> counters_end(y)}
    [] p = "mailrules" /\ name = "init" -> {mailrules_init(y)}
    [] p = "lua" -> {o \in LuaAnswers(y) : name = "data_block" => o.resp # "final"}
    [] OTHER -> {Reply(y, "none")}

Hook(name) == [name |-> name]
SenderHook(address, size) == [name |-> "sender", address |-> address, size |-> size]
RecipientHook(address) == [name |-> "recipient", address |-> address]

\* plugin->NAME PARAMS
answers(p, y, hook) ==
  CASE hook.name = "reset"     -> reset_hook(p, y)
    [] hook.name = "sender"    -> sender_hook(p, y, hook.address, hook.size)
    [] hook.name = "recipient" -> recipient_hook(p, y, hook.address)
    [] OTHER                   -> other_hook(p, y, hook.name)

(***************************************************************************)
(* MODULE_CALL, with plugins that change the session as they answer: the   *)
(* possible outcomes [x, resp, by].                                        *)
(***************************************************************************)
Call(hook, y) ==
  LET step(acc, p) ==
        IF acc.by # "none" THEN {acc}
        ELSE {[x    |-> o.x,
               resp |-> MODULE_CALL(acc.resp, <<o.resp>>),
               by   |-> IF Ends(o.resp) THEN p ELSE "none"] : o \in answers(p, acc.x, hook)}
      after[i \in 0 .. Len(chain)] ==
        IF i = 0 THEN {[x |-> y, resp |-> "none", by |-> "none"]}
        ELSE UNION {step(acc, chain[i]) : acc \in after[i - 1]}
  IN  after[Len(chain)]

handle_reset(y) == Call(Hook("reset"), y)

(***************************************************************************)
(* Loading.  A plugin that does not load ends the program before it has    *)
(* said anything, and is left out.                                         *)
(***************************************************************************)
Without(l, name) ==
  LET at == {i \in DOMAIN l : l[i] = name}
  IN  IF name = "*" THEN <<>>
      ELSE IF at = {} THEN l ELSE RemoveAt(l, CHOOSE i \in at : TRUE)

ListedAfter(l, d) ==
  CASE d.op = "-" -> Without(l, d.name)
    [] d.op = "+" -> <<d.name>> \o Without(l, d.name)
    [] OTHER      -> Append(Without(l, d.name), d.name)

EraOf(sender) == [sender |-> sender, limits |-> {}, tried |-> {}, asked |-> 0,
                  took |-> 0, relays |-> FALSE]
NewEra == EraOf("none")
NoHook == [hook |-> "none", address |-> "none", resp |-> "none", by |-> "none"]

Init ==
  /\ pc = "loading"
  /\ modules = NoPlugins /\ listed = <<>>
  /\ loads = 0 /\ chain = <<>>
  /\ saw_mail = FALSE /\ saw_rcpt = FALSE
  /\ x = session_init
  /\ last = NoHook /\ era = NewEra
  /\ sent = 0 /\ acks = 0

\* The directives of the command line come first.
Load(d) ==
  /\ pc = "loading"
  /\ IF loads < Len(Wrapped) THEN d = Wrapped[loads + 1]
     ELSE d \in Directive /\ loads < Len(Wrapped) + MaxDirectives
  /\ modules' = load_add_plugin(modules, d)
  /\ listed' = ListedAfter(listed, d)
  /\ loads' = loads + 1
  /\ UNCHANGED <<pc, chain, saw_mail, saw_rcpt, x, last, era, sent, acks>>

\* load_modules is done: from here on the list is its walk.
ListStands ==
  /\ pc = "loading" /\ loads >= Len(Wrapped) /\ Walk(modules) \in Chains
  /\ chain' = Walk(modules)
  /\ modules' = NoPlugins /\ listed' = <<>> /\ loads' = 0
  /\ pc' = "starting"
  /\ UNCHANGED <<saw_mail, saw_rcpt, x, last, era, sent, acks>>

Loaded == <<modules, listed, loads, chain>>

\* handle_init: an error of a plugin, or of the backend, ends the program.
Start ==
  /\ pc = "starting"
  /\ \E o \in Call(Hook("init"), x) :
       /\ x' = o.x
       /\ pc' \in IF response_ok(o.resp) THEN {"command", "closed"} ELSE {"closed"}
  /\ UNCHANGED <<saw_mail, saw_rcpt, last, era, sent, acks, Loaded>>

Mailed == <<sent, acks>>
EraAfterReset == EraOf(era.sender)

\* HELO and EHLO reset, and leave saw_mail and saw_rcpt as they are.
HELO ==
  /\ pc = "command"
  /\ \E o \in handle_reset(x) : x' = o.x
  /\ era' = EraAfterReset /\ last' = NoHook
  /\ UNCHANGED <<pc, saw_mail, saw_rcpt, Loaded, Mailed>>

\* do_reset: an error of a reset hook ends the session (with one more reset).
RSET ==
  /\ pc = "command"
  /\ \E o \in handle_reset(x) :
       IF response_ok(o.resp)
       THEN x' = o.x /\ saw_mail' = FALSE /\ saw_rcpt' = FALSE /\ pc' = pc
       ELSE /\ \E e \in handle_reset(o.x) : x' = e.x
            /\ pc' = "closed"
            /\ UNCHANGED <<saw_mail, saw_rcpt>>
  /\ era' = EraAfterReset /\ last' = NoHook
  /\ UNCHANGED <<Loaded, Mailed>>

\* What the backend answers: all that matters is whether it is an error.
Backend == {"ok", "temp"}

\* What the handler answers: nobody's opinion is a refusal.
Verdict(resp, backend) ==
  IF resp = "none" THEN "perm"
  ELSE IF response_ok(resp) /\ ~ response_ok(backend) THEN backend
  ELSE resp

(***************************************************************************)
(* The rules as mailrules.html describes them: the rules of a table that   *)
(* apply to a sender, and to a recipient with that sender; what they give. *)
(***************************************************************************)
Applied(rules, is_recip, sender, address) ==
  LET hit  == {i \in DOMAIN rules : /\ matches(rules[i].sender, sender)
                                    /\ is_recip => matches(rules[i].recipient, address)}
      ands == {i \in DOMAIN rules : rules[i].code = "&"}
      open == {i \in hit \ ands : \A j \in 1 .. i - 1 : j .. i - 1 \subseteq ands => j \in hit}
  IN  [at |-> {i \in open : \A j \in open : j < i => rules[j].code = "n"}, rules |-> rules]

ForSender == [s \in Sender |-> Applied(Rules.sender, FALSE, s, s)]
ForRecipient ==
  [s \in Sender |-> [a \in Recipient |-> Applied(Rules.recip, TRUE, s, a)]]

Assigned(applied, name) ==
  {a[2] : a \in {b \in UNION {applied.rules[i].environment : i \in applied.at} : b[1] = name}}
\* What the rules that apply answer.
AnswerOf(applied) ==
  LET stops == {i \in applied.at : applied.rules[i].code # "n"}
  IN  IF stops = {} THEN "none" ELSE build_response(applied.rules[Min(stops)].code)
LimitsOf(applied) ==
  ({applied.rules[i].databytes : i \in applied.at} \cup Assigned(applied, "DATABYTES")) \ {0}
Relays(applied) == Assigned(applied, "RELAYCLIENT") # {}

\* MAIL resets first; a reset that fails ends the session as RSET's does.
MAIL(a, size) ==
  /\ pc = "command"
  /\ \E y \in {r.x : r \in {r \in handle_reset(x) : response_ok(r.resp)}} :
     \E o \in Call(SenderHook(a, size), y), b \in Backend :
       /\ x' = o.x
       /\ saw_mail' = response_ok(Verdict(o.resp, b))
       /\ last' = [hook |-> "sender", address |-> a, resp |-> o.resp, by |-> o.by]
       /\ era' = [NewEra EXCEPT
            !.sender = a, !.tried = LimitsOf(ForSender[a]),
            !.limits = IF response_ok(o.resp) THEN LimitsOf(ForSender[a]) ELSE {},
            !.relays = Relays(ForSender[a])]
  /\ saw_rcpt' = FALSE
  /\ UNCHANGED <<pc, Loaded, Mailed>>

\* The plugins of list c up to p.
UpTo(c, p) == {c[i] : i \in {i \in DOMAIN c : \A j \in 1 .. i - 1 : c[j] # p}}

\* The plugins accept a recipient, and none that counters never hears of: a
\* final answer of a plugin in front of it ends the call.
Accepts(o) == o.resp # "none" /\ response_ok(o.resp) /\ o.by \notin UpTo(chain, "counters")

RCPT(a) ==
  /\ pc = "command" /\ saw_mail /\ era.asked < MaxRecipients
  /\ \E o \in Call(RecipientHook(a), x) : \E b \in Backend :
       LET given == ForRecipient[era.sender][a]
       IN  /\ x' = o.x
           /\ saw_rcpt' = (saw_rcpt \/ response_ok(Verdict(o.resp, b)))
           /\ last' = [hook |-> "recipient", address |-> a, resp |-> o.resp, by |-> o.by]
           /\ era' = [era EXCEPT
                !.tried  = @ \cup LimitsOf(given),
                !.limits = IF response_ok(o.resp) THEN @ \cup LimitsOf(given) ELSE @,
                !.asked  = @ + 1,
                !.took   = IF Accepts(o) THEN @ + 1 ELSE @,
                !.relays = @ \/ Relays(given)]
  /\ UNCHANGED <<pc, saw_mail, Loaded, Mailed>>

\* cmd_AUTH of plugin-cvm-authenticate, when the exchange succeeds.
AUTH ==
  /\ pc = "command" /\ session_getnum(x, "authenticated", 0) = 0
  /\ "cvm-authenticate" \in Range(chain)
  /\ x' = session_setnum(x, "authenticated", 1)
  /\ UNCHANGED <<pc, saw_mail, saw_rcpt, last, era, Loaded, Mailed>>

\* A message that a hook or the backend refuses at its start or end.
Refused(y) ==
  /\ \E o \in handle_reset(y) : x' = o.x
  /\ era' = EraAfterReset
  /\ pc' = "command"
  /\ sent' = 0 /\ acks' = acks

(***************************************************************************)
(* DATA.  The backend's data_start comes first; an error of it or of a     *)
(* plugin resets, and leaves saw_mail and saw_rcpt as they are.            *)
(***************************************************************************)
DATA ==
  /\ pc = "command" /\ saw_mail /\ saw_rcpt
  /\ x.msg_count < MaxMessages
  /\ \/ Refused(x)  \* by the backend
     \/ \E o \in Call(Hook("data_start"), x) :
          IF ~ response_ok(o.resp) THEN Refused(o.x)
          ELSE x' = o.x /\ pc' = "body" /\ sent' = 0 /\ UNCHANGED <<era, acks>>
  /\ last' = NoHook
  /\ UNCHANGED <<saw_mail, saw_rcpt, Loaded>>

(***************************************************************************)
(* A block of one byte.  A refusal resets, and the rest of the message is  *)
(* swallowed: data_response (pc "swallow") is what its end answers.        *)
(***************************************************************************)
Block ==
  /\ pc = "body" /\ sent < MaxBlocks
  /\ \E o \in Call(Hook("data_block"), x) :
       IF response_ok(o.resp)
       THEN x' = o.x /\ sent' = sent + 1 /\ UNCHANGED <<pc, era>>
       ELSE /\ \E r \in handle_reset(o.x) : x' = r.x
            /\ pc' = "swallow" /\ sent' = 0 /\ era' = EraAfterReset
  /\ UNCHANGED <<saw_mail, saw_rcpt, last, acks, Loaded>>

\* The end of the body.  Nothing resets after a message that is accepted.
End ==
  /\ pc = "body"
  /\ \E o \in Call(Hook("message_end"), x) :
       \/ Refused(o.x)  \* by a plugin or, after the plugins, by the backend
       \/ /\ response_ok(o.resp)
          /\ x' = o.x /\ pc' = "command" /\ sent' = 0 /\ acks' = acks + 1 /\ era' = era
  /\ UNCHANGED <<saw_mail, saw_rcpt, last, Loaded>>

EndSwallowed ==
  /\ pc = "swallow"
  /\ pc' = "command"
  /\ UNCHANGED <<saw_mail, saw_rcpt, x, last, era, Loaded, Mailed>>

Next ==
  \/ \E d \in Directive \cup Range(Wrapped) : Load(d)
  \/ ListStands \/ Start
  \/ HELO \/ RSET \/ AUTH
  \/ \E a \in Sender, size \in Size : MAIL(a, size)
  \/ \E a \in Recipient : RCPT(a)
  \/ DATA \/ Block \/ End \/ EndSwallowed

Spec == Init /\ [][Next]_vars

(***************************************************************************)
(* TypeOK: the ends of the plugin list agree, every number that plugins    *)
(* share is a limit that can be reached (no hook ever stores a zero, which *)
(* counters would read as no limit), and the counts are naturals.          *)
(***************************************************************************)
TypeOK ==
  /\ pc \in {"loading", "starting", "command", "body", "swallow", "closed"}
  /\ (modules.head = Null) = (modules.tail = Null)
  /\ \A n \in DOMAIN x.nums : x.nums[n] > 0
  /\ {x.rcpt_count, x.msg_count, x.data_bytes, sent, acks} \subseteq Nat
  /\ x.saved_sender \in Sender \cup {"none"}

(***************************************************************************)
(* ListIsAsLoaded: following the pointers from session.plugin_list gives   *)
(* the plugins in the order that the directives ask for, none twice, and   *)
(* session.plugin_tail is the last of them (modules.c, mailfront.html:48). *)
(***************************************************************************)
ListIsAsLoaded ==
  /\ Walk(modules) = listed
  /\ listed # <<>> => modules.tail = Last(listed) /\ modules.next[modules.tail] = Null

SizeInForce == session_getnum(x, "maxdatabytes", Unlimited)
OfProcess(name) == IF name \in DOMAIN Environ THEN {Environ[name]} ELSE {}

(***************************************************************************)
(* SizeLimitIsLeast: while a message arrives, the limit on its size is no  *)
(* more than $DATABYTES (0 sets none) and than any limit that the rules    *)
(* applied to its sender and recipients since the last reset gave, and it  *)
(* is one of them: nothing is left of an earlier message's                 *)
(* (plugin-counters.c minenv and reset, plugin-mailrules.c apply_rule and  *)
(* reset).                                                                 *)
(***************************************************************************)
SizeLimitIsLeast ==
  pc = "body" =>
    /\ \A limit \in era.limits \cup (OfProcess("DATABYTES") \ {0}) : SizeInForce <= limit
    /\ SizeInForce \in era.tried \cup OfProcess("DATABYTES") \cup {Unlimited}

(***************************************************************************)
(* SizeLimited: a message is accepted only if the bytes of all its blocks  *)
(* are within the limit in force (plugin-counters.c block, and the         *)
(* data_response that keeps its refusal until the end of the message).     *)
(***************************************************************************)
SizeLimited == [][acks' # acks => sent <= SizeInForce]_vars

(***************************************************************************)
(* MessagesLimited: no more messages are accepted in a session than        *)
(* $MAXMSGS, however DATA, resets and refusals follow each other           *)
(* (plugin-counters.c sender, start and end).                              *)
(***************************************************************************)
MessagesLimited == \A max \in OfProcess("MAXMSGS") : acks <= max

Assignment == UNION {RuleFile[i].environment : i \in RuleLines}
RecipientLimits ==
  (OfProcess("MAXRCPTS") \cup {a[2] : a \in {b \in Assignment : b[1] = "MAXRCPTS"}}) \ {0}

(***************************************************************************)
(* RecipientsLimited: a message gets no more recipients than $MAXRCPTS,    *)
(* not counting those that a plugin in front of counters accepts with a    *)
(* final answer, whatever rules lower the limit and however messages,      *)
(* resets and refusals follow each other (plugin-counters.c recipient).    *)
(***************************************************************************)
RecipientsLimited == \A max \in OfProcess("MAXRCPTS") : era.took <= max

(***************************************************************************)
(* RefusedForThisMessage: counters refuses a recipient only once more were *)
(* asked for in this message than $MAXRCPTS or a rule's allows, so that no *)
(* earlier message's are held against it (plugin-counters.c reset).        *)
(***************************************************************************)
RefusedForThisMessage ==
  last.hook = "recipient" /\ last.by = "counters" =>
    \E max \in RecipientLimits : era.asked > max

(***************************************************************************)
(* RelayIsForThisMessage: the session has a $RELAYCLIENT, with which       *)
(* relayclient accepts every recipient and require-auth every sender, only *)
(* if the process has one or a rule applied since the last reset set it    *)
(* (plugin-mailrules.c reset, builtins.c relayclient_recip).               *)
(***************************************************************************)
RelayIsForThisMessage ==
  IsSet(x, "RELAYCLIENT") => era.relays \/ "RELAYCLIENT" \in DOMAIN Environ

(***************************************************************************)
(* NothingIsLeftOver: what earlier messages did is neither held against    *)
(* the recipients of this one nor a right for them (the reset hooks of     *)
(* plugin-counters.c and plugin-mailrules.c).                              *)
(***************************************************************************)
NothingIsLeftOver == RefusedForThisMessage /\ RelayIsForThisMessage

(***************************************************************************)
(* RulesAnswer: mailrules answers a command with the code of the first     *)
(* rule that matches, and whose ands match, with the sender of this very   *)
(* message; an n rule never answers; only mailrules itself or a plugin     *)
(* before it answers when that code is final or an error                   *)
(* (plugin-mailrules.c run_rules, against mailrules.html:49-70).           *)
(***************************************************************************)
RulesAnswer ==
  LET resp == AnswerOf(IF last.hook = "recipient" THEN ForRecipient[era.sender][last.address]
                       ELSE ForSender[last.address])
  IN  last.hook # "none" =>
        /\ last.by = "mailrules" => last.resp = resp
        /\ Ends(resp) => last.by \in UpTo(chain, "mailrules")
        /\ resp = "ok" => last.resp # "none"

=============================================================================
