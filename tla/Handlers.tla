------------------------------- MODULE Handlers -------------------------------
(***************************************************************************)
(* The message handlers of mailfront.c, through which every protocol       *)
(* drives the plugins and the backend.  The backend is a parameter: its    *)
(* hooks are constant operators, as `session.backend' is a table of        *)
(* function pointers.                                                      *)
(*                                                                         *)
(* A handler takes the container's own state s, the backend's state b and  *)
(* the answers the loaded plugins give to the hook, and returns the set of *)
(* its possible outcomes, [sess, be, resp].  There is more than one when a *)
(* system call may fail, and none while the backend blocks.  resp "busy"   *)
(* means that the backend has not finished its message_end.                *)
(*                                                                         *)
(* Container state:                                                        *)
(*   need  FLAG_NEED_FILE is set in session.flags (fixed once the plugins  *)
(*         are loaded)                                                     *)
(*   fd    session.fd >= 0: the temporary message file is open             *)
(*   file  the blocks in that file                                         *)
(*   dresp data_response                                                   *)
(*   n     messages started so far (it names a message; not in the code)   *)
(***************************************************************************)
EXTENDS Responses

CONSTANTS
  backend_reset(_),           \* state after reset (every backend returns 0)
  backend_sender(_, _),       \* outcomes [be, resp] of sender(address)
  backend_recipient(_, _),    \* ... of recipient(address)
  backend_data_start(_, _, _),\* ... of data_start(fd) for message n
  backend_data_block(_),      \* ... of data_block, one block
  backend_message_end(_, _, _), \* ... of message_end(fd) with its file
  backend_busy(_),            \* ... of the next step of a busy message_end
  HandlerFaults               \* of {"scratch"}: what may fail here

Outcome(s, b, r) == [sess |-> s, be |-> b, resp |-> r]

CloseFile(s) == [s EXCEPT !.fd = FALSE, !.file = 0]

handle_reset(s, b, answers) ==
  Outcome(CloseFile(s), backend_reset(b), MODULE_CALL("none", answers))

\* A handler that resets on its way out ignores what the reset returns.
ResetAnd(s, b, r) == Outcome(CloseFile(s), backend_reset(b), r)

(***************************************************************************)
(* Nobody in the chain having an opinion is a refusal.  Otherwise the      *)
(* backend is called, and its error wins over the plugins' acceptance.     *)
(***************************************************************************)
handle_sender(s, b, address, answers) ==
  LET resp == MODULE_CALL("none", answers)
  IN  IF resp = "none" THEN {Outcome(s, b, "perm")}
      ELSE IF ~ response_ok(resp) THEN {Outcome(s, b, resp)}
      ELSE {Outcome(s, o.be, IF response_ok(o.resp) THEN resp ELSE o.resp) :
              o \in backend_sender(b, address)}

handle_recipient(s, b, address, answers) ==
  LET resp == MODULE_CALL("none", answers)
  IN  IF resp = "none" THEN {Outcome(s, b, "perm")}
      ELSE IF ~ response_ok(resp) THEN {Outcome(s, b, resp)}
      ELSE {Outcome(s, o.be, IF response_ok(o.resp) THEN resp ELSE o.resp) :
              o \in backend_recipient(b, address)}

\* Mutant of handle_data_start: data_response is whatever the chain answered.
handle_data_start_storing_all(s0, b, answers) ==
  LET s == [CloseFile(s0) EXCEPT !.n = @ + 1, !.fd = s0.need]
  IN  {LET resp == MODULE_CALL(o.resp, answers)
       IN  Outcome([s EXCEPT !.dresp = resp], o.be, resp) :
         o \in backend_data_start(b, s.fd, s.n)}

(***************************************************************************)
(* The backend goes first here, and the plugins only when it accepts.      *)
(* Failing to create the temporary file returns before data_response is    *)
(* cleared and without a reset; a plugin's error resets but leaves         *)
(* data_response clear; the backend's error does both.                     *)
(***************************************************************************)
handle_data_start(s0, b, answers) ==
  LET s      == [CloseFile(s0) EXCEPT !.n = @ + 1]
      opened == [s EXCEPT !.fd = s.need, !.dresp = "none"]
      noFile == IF s.need /\ "scratch" \in HandlerFaults
                THEN {Outcome(s, b, "temp")} ELSE {}
      then(o) == LET resp == MODULE_CALL(o.resp, answers)
                 IN  IF ~ response_ok(o.resp)
                     THEN ResetAnd([opened EXCEPT !.dresp = o.resp], o.be, o.resp)
                     ELSE IF ~ response_ok(resp) THEN ResetAnd(opened, o.be, resp)
                     ELSE Outcome(opened, o.be, resp)
  IN  noFile \cup {then(o) : o \in backend_data_start(b, opened.fd, opened.n)}

\* Mutant of handle_data_bytes: a block that the file does not take is forgotten.
handle_data_bytes_losing(s, b, answers) ==
  IF ~ response_ok(s.dresp) THEN {Outcome(s, b, "none")}
  ELSE {Outcome([s EXCEPT !.file = m], o.be, "none") :
          o \in backend_data_block(b), m \in IF s.fd THEN {s.file, s.file + 1} ELSE {s.file}}

(***************************************************************************)
(* One block: the plugins see it, then the backend, then the temporary     *)
(* file.  What the backend's data_block returns is ignored.                *)
(***************************************************************************)
handle_data_bytes(s, b, answers) ==
  LET resp   == FirstError(answers)
      toFile(o) ==
        IF ~ s.fd THEN {Outcome(s, o.be, "none")}
        ELSE {Outcome([s EXCEPT !.file = @ + 1], o.be, "none")}
             \cup (IF "scratch" \in HandlerFaults
                   THEN {ResetAnd([s EXCEPT !.dresp = "temp"], o.be, "none")}
                   ELSE {})
  IN  IF ~ response_ok(s.dresp) THEN {Outcome(s, b, "none")}
      ELSE IF ~ response_ok(resp)
      THEN {ResetAnd([s EXCEPT !.dresp = resp], b, "none")}
      ELSE UNION {toFile(o) : o \in backend_data_block(b)}

\* The end of handle_message_end, once the backend has returned resp.
MessageEnded(s, b, resp) ==
  IF resp = "busy" THEN Outcome(s, b, resp)
  ELSE IF response_ok(resp) THEN Outcome(CloseFile(s), b, resp)
  ELSE ResetAnd(s, b, resp)

handle_message_end(s, b, answers) ==
  LET resp == MODULE_CALL("none", answers)
  IN  IF ~ response_ok(s.dresp) THEN {Outcome(s, b, s.dresp)}
      ELSE IF ~ response_ok(resp) THEN {ResetAnd(s, b, resp)}
      ELSE {MessageEnded(s, o.be, o.resp) :
              o \in backend_message_end(b, s.fd, s.file)}

\* A later step of a handle_message_end whose backend was busy.
handle_message_end_goes_on(s, b) ==
  {MessageEnded(s, o.be, o.resp) : o \in backend_busy(b)}

\* exitfn: every exit(), from a handler of SIGALRM too, resets first.
exitfn(s, b) == ResetAnd(s, b, "none")

=============================================================================
