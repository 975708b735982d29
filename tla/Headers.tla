------------------------------ MODULE Headers -------------------------------
(***************************************************************************)
(* Response heads: cbits/headers.c, which libcurl feeds one header line at *)
(* a time, and the two ways a head reaches the user: awaitResponseHead of  *)
(* Streaming.hs, before the body, and takeBufferedResponse of Response.hs, *)
(* after the transfer.                                                     *)
(*                                                                         *)
(* Two threads: the reactor, which runs the libcurl callbacks and the      *)
(* completion, and the one user of the transfer.  One step is one critical *)
(* section of headers->mutex, one wake-up or one wait.  What libcurl does  *)
(* between two lines is external: it may follow a redirect, answer a       *)
(* challenge or leave a proxy's reply behind, and it never sends another   *)
(* block after one that headers.c publishes early.                         *)
(***************************************************************************)
EXTENDS Naturals, Sequences

CONSTANTS
  MaxBlocks,     \* header blocks of one transfer
  MaxFields,     \* fields of a block
  MaxTrailers    \* lines behind the last block

ASSUME HeadersAssumption ==
  MaxBlocks \in Nat \ {0} /\ MaxFields \in Nat /\ MaxTrailers \in Nat

VARIABLES
  (* header_data_s; a buffer is the sequence of its lines *)
  current, completed, current_status, completed_status,
  in_block, ready, response_available, transfer_completed, terminal_code,
  waiter_present,
  (* the reactor, and libcurl's progress in the response *)
  block,      \* status lines so far
  answer,     \* what the last status line says
  at,         \* "start" | "fields" | "body": which lines come next
  following,  \* libcurl goes on to another response
  lines,      \* fields of the block, or trailers, so far
  refused,    \* a callback returned 0
  phase,      \* "running" | "result" | "completed" | "woken"
  result,     \* hs_easy_data.curl_code, "none" until completed
  wake,       \* the reactor has detached the waiter and not fired it yet
  (* the user *)
  mode,       \* "stream" (httpStreaming) or "buffered" (httpLBS)
  pc,
  owner,      \* who owns the StablePtr of the wait
  head        \* what the call gave

bufferVars == <<current, completed, current_status, completed_status, in_block>>
readyVars  == <<ready, response_available, waiter_present>>
endVars    == <<transfer_completed, terminal_code>>
curlVars   == <<block, answer, at, following, lines, refused>>
reactorVars == <<phase, result>>
userVars   == <<mode, pc, head>>
vars == <<bufferVars, readyVars, endVars, curlVars, reactorVars, wake, userVars,
          owner>>

Codes == {"ok", "error", "aborted"}

(* Status lines, by what headers.c tells apart.  "established" marks the    *)
(* reason phrase of a proxy's reply to CONNECT.                             *)
Answers ==
  [status : {100, 101, 200, 302, 401}, established : {FALSE}]
    \cup [status : {200}, established : {TRUE}]

Lines == [block : 0..MaxBlocks, part : {"status", "field", "blank"},
          status : {0, 100, 101, 200, 302, 401}, established : BOOLEAN]

Line(part) ==
  [block |-> block, part |-> part, status |-> 0, established |-> FALSE]

Nothing == [tag |-> "none", code |-> "ok", status |-> 0, lines |-> <<>>]

(* A response without a status line (not HTTP) starts at its body. *)
Init ==
  /\ current = <<>> /\ completed = <<>>
  /\ current_status = 0 /\ completed_status = 0 /\ in_block = FALSE
  /\ ready = FALSE /\ response_available = FALSE
  /\ transfer_completed = FALSE /\ terminal_code = "ok"
  /\ waiter_present = FALSE
  /\ block = 0 /\ answer = [status |-> 0, established |-> FALSE]
  /\ at \in {"start", "body"}
  /\ following = FALSE /\ lines = 0 /\ refused = FALSE
  /\ phase = "running" /\ result = "none" /\ wake = FALSE
  /\ mode \in {"stream", "buffered"}
  /\ pc = IF mode = "stream" THEN "wait" ELSE "awaitDone"
  /\ owner = "user" /\ head = Nothing

-----------------------------------------------------------------------------
(* header_callback *)

Appended(buffer, line, ok) == IF ok THEN Append(buffer, line) ELSE buffer

(* Which statuses are published before the body.  The mutant forgets that a *)
(* redirect may be followed.                                                *)
PublishRedirects(status, proxyConnect) ==
  (status = 101 \/ status >= 200) /\ status \notin {401, 407} /\ ~proxyConnect
PublishEarly(status, proxyConnect) ==
  /\ status = 101 \/ status >= 200
  /\ ~(status >= 300 /\ status < 400)
  /\ status \notin {401, 407}
  /\ ~proxyConnect

(* The block that ends replaces the one before; the mutant adds to it. *)
Accumulated(ended) == completed \o ended
Replaced(ended) == ended

(* The waiter, if there is one, is taken over and fired after the unlock. *)
DetachWaiter ==
  /\ wake' = waiter_present
  /\ waiter_present' = FALSE

(* One line, for which append finds memory (ok) or does not. *)
HeaderCallback(line, ok) ==
  LET starts == line.part = "status"
      inBlock == in_block \/ starts
      buffer == Appended(IF starts THEN <<>> ELSE current, line, ok)
      status == IF starts THEN line.status ELSE current_status
      ends == inBlock /\ ok /\ line.part = "blank"
      proxyConnect == /\ status = 200
                      /\ \E i \in 1..Len(buffer) : buffer[i].established
  IN /\ current_status' = status
     /\ in_block' = (inBlock /\ ~ends)
     /\ IF ends
        THEN /\ completed' = Replaced(buffer) /\ completed_status' = status
             /\ current' = <<>>
        ELSE /\ UNCHANGED completed_status
             /\ current' = IF inBlock THEN buffer ELSE current
             /\ completed' = IF ~inBlock /\ completed # <<>>
                             THEN Appended(completed, line, ok) ELSE completed
     /\ IF ends /\ PublishEarly(status, proxyConnect)
        THEN response_available' = TRUE /\ ready' = TRUE /\ DetachWaiter
        ELSE UNCHANGED <<readyVars, wake>>
     /\ refused' = ~(ok \/ (~inBlock /\ completed = <<>>))
     /\ UNCHANGED <<endVars, reactorVars, userVars, owner>>

-----------------------------------------------------------------------------
(* libcurl, delivering the response *)

Delivering == phase = "running" /\ ~refused /\ ~wake

(* May, or must, another block follow one with answer a? *)
MayFollow(a) ==
  block < MaxBlocks /\ (a.status \in {100, 302, 401} \/ a.established)
MustFollow(a) == a.status = 100

StatusLine(a, ok) ==
  /\ Delivering /\ at = "start"
  /\ MustFollow(a) => block + 1 < MaxBlocks
  /\ block' = block + 1 /\ answer' = a
  /\ at' = "fields" /\ following' = FALSE /\ lines' = 0
  /\ HeaderCallback([block |-> block + 1, part |-> "status",
                     status |-> a.status, established |-> a.established], ok)

Field(ok) ==
  /\ Delivering /\ at = "fields" /\ lines < MaxFields
  /\ lines' = lines + 1
  /\ HeaderCallback(Line("field"), ok)
  /\ UNCHANGED <<block, answer, at, following>>

BlankLine(ok) ==
  /\ Delivering /\ at = "fields"
  /\ following' \in (IF MustFollow(answer) THEN {TRUE}
                     ELSE IF MayFollow(answer) THEN BOOLEAN ELSE {FALSE})
  /\ at' = IF following' THEN "start" ELSE "body"
  /\ lines' = 0
  /\ HeaderCallback(Line("blank"), ok)
  /\ UNCHANGED <<block, answer>>

(* A trailer, or a header line of a protocol without status lines. *)
Trailer(ok) ==
  /\ Delivering /\ at = "body" /\ lines < MaxTrailers
  /\ lines' = lines + 1
  /\ HeaderCallback(Line("field"), ok)
  /\ UNCHANGED <<block, answer, at, following>>

(* header_data_mark_body_started, from the write callback of a stream. *)
BodyStarts ==
  /\ Delivering /\ at = "body" /\ mode = "stream"
  /\ response_available' = (response_available \/ completed_status # 0)
  /\ ready' = TRUE
  /\ DetachWaiter
  /\ UNCHANGED <<bufferVars, endVars, curlVars, reactorVars, userVars, owner>>

-----------------------------------------------------------------------------
(* finish_detached_transfer: the result, the stream's completion, the wake *)

(* A failure or a cancel may end the transfer anywhere. *)
Finish(code) ==
  /\ phase = "running" /\ ~wake
  /\ code = "ok" => at = "body" /\ ~refused
  /\ result' = code
  /\ phase' = IF mode = "stream" THEN "result" ELSE "completed"
  /\ UNCHANGED <<bufferVars, readyVars, endVars, curlVars, wake, userVars, owner>>

MarkComplete ==
  /\ phase = "result"
  /\ transfer_completed' = TRUE
  /\ terminal_code' = result
  /\ ready' = TRUE
  /\ DetachWaiter
  /\ phase' = "completed"
  /\ UNCHANGED <<bufferVars, response_available, curlVars, result, userVars, owner>>

(* hs_easy_data_wake: doneRequest is put. *)
WakeResult ==
  /\ phase = "completed" /\ ~wake
  /\ phase' = "woken"
  /\ UNCHANGED <<bufferVars, readyVars, endVars, curlVars, result, wake,
                 userVars, owner>>

(* wake_up_waker consumes the pointer, which C must still own. *)
Fire ==
  /\ wake
  /\ wake' = FALSE
  /\ owner' = IF owner = "c" THEN "fired" ELSE "corrupt"
  /\ UNCHANGED <<bufferVars, readyVars, endVars, curlVars, reactorVars, userVars>>

-----------------------------------------------------------------------------
(* The user *)

quiet == <<bufferVars, response_available, endVars, curlVars, reactorVars, wake>>

Goto(l) == pc' = l /\ UNCHANGED <<mode, head>>

Return(h) == pc' = "returned" /\ head' = h /\ UNCHANGED mode

Left(code) == [Nothing EXCEPT !.tag = "left", !.code = code]
Right(status) ==
  [Nothing EXCEPT !.tag = "right", !.status = status, !.lines = completed]
Thrown == [Nothing EXCEPT !.tag = "thrown"]

(* header_data_wait looks at ready before it registers; the mutant does not. *)
NeverReady == FALSE
IsReady == ready

(* awaitHeaderBlock: register under the lock, or go on with what is there. *)
Wait ==
  /\ pc = "wait"
  /\ waiter_present' = ~IsReady
  /\ owner' = IF IsReady THEN "freed" ELSE "c"
  /\ Goto(IF IsReady THEN "snapshot" ELSE "blocked")
  /\ UNCHANGED <<quiet, ready>>

Woken ==
  /\ pc = "blocked" /\ owner = "fired"
  /\ Goto("snapshot")
  /\ UNCHANGED <<quiet, ready, waiter_present, owner>>

Interrupt ==
  /\ pc = "blocked"
  /\ Goto("unregister")
  /\ UNCHANGED <<quiet, ready, waiter_present, owner>>

(* header_data_cancel_wait hands the pointer back only while it is          *)
(* registered; the mutant always does.                                      *)
AlwaysReturned == TRUE
HandedBack == waiter_present

Unregister ==
  /\ pc = "unregister"
  /\ waiter_present' = FALSE
  /\ owner' = IF HandedBack THEN "freed" ELSE owner
  /\ Return(Thrown)
  /\ UNCHANGED <<quiet, ready>>

TerminalBeforeResponse == transfer_completed /\ ~response_available

(* awaitResponseHead: a failure, a response, or neither yet. *)
Snapshot ==
  /\ pc = "snapshot"
  /\ IF TerminalBeforeResponse /\ terminal_code # "ok"
     THEN Return(Left(terminal_code))
     ELSE IF completed_status # 0 THEN Return(Right(completed_status))
     ELSE Goto("awaitDone")
  /\ UNCHANGED <<quiet, ready, waiter_present, owner>>

(* readMVar doneRequest, then the result and the head, for a buffered       *)
(* response and for a stream without a status line.  The status libcurl     *)
(* kept stands in for a missing one.                                        *)
CompletedHead ==
  /\ pc = "awaitDone" /\ phase = "woken"
  /\ Return(IF result # "ok" THEN Left(result)
            ELSE Right(IF completed_status = 0 THEN answer.status
                       ELSE completed_status))
  /\ UNCHANGED <<quiet, ready, waiter_present, owner>>

(* An exception outside the wait, or no memory for the copy of the block. *)
Throw ==
  /\ pc \in {"wait", "snapshot", "awaitDone"}
  /\ Return(Thrown)
  /\ UNCHANGED <<quiet, ready, waiter_present, owner>>

-----------------------------------------------------------------------------
Receive ==
  \E ok \in BOOLEAN :
    (\E a \in Answers : StatusLine(a, ok)) \/ Field(ok) \/ BlankLine(ok) \/ Trailer(ok)

Complete == MarkComplete \/ WakeResult \/ Fire

-----------------------------------------------------------------------------
(* Properties *)

(* Every variable has its type; in particular no pointer is fired after it  *)
(* was freed or fired (header_data_cancel_wait against the callbacks).      *)
TypeOK ==
  /\ current \in Seq(Lines) /\ completed \in Seq(Lines)
  /\ current_status \in {0} \cup {a.status : a \in Answers}
  /\ completed_status \in {0} \cup {a.status : a \in Answers}
  /\ {in_block, ready, response_available, transfer_completed,
      waiter_present, following, refused, wake} \subseteq BOOLEAN
  /\ terminal_code \in Codes /\ result \in Codes \cup {"none"}
  /\ block \in 0..MaxBlocks /\ lines \in Nat
  /\ at \in {"start", "fields", "body"}
  /\ phase \in {"running", "result", "completed", "woken"}
  /\ mode \in {"stream", "buffered"}
  /\ pc \in {"wait", "blocked", "unregister", "snapshot", "awaitDone", "returned"}
  /\ owner \in {"user", "c", "fired", "freed"}
  /\ head.tag \in {"none", "left", "right", "thrown"}

(* The lines are one block of the response: its status line first, nothing  *)
(* of another block, and complete up to its blank line.                     *)
OneBlock(buffer, status) ==
  /\ buffer[1].part = "status" /\ buffer[1].status = status
  /\ \A i \in 1..Len(buffer) : buffer[i].block = buffer[1].block
  /\ \A i \in 2..Len(buffer) : buffer[i].part # "status"
  /\ \E i \in 2..Len(buffer) : buffer[i].part = "blank"

(* headers.h:25: "Redirect and informational blocks are replaced, never     *)
(* mixed", neither in the buffer a snapshot copies nor in what a caller got.*)
(* The pointer of the wait is fired or freed once (TypeOK).                 *)
NeverMixed ==
  /\ TypeOK
  /\ completed # <<>> => OneBlock(completed, completed_status)
  /\ head.lines # <<>> => OneBlock(head.lines, head.status)

(* A head given to a caller stays the last one of the transfer: no redirect *)
(* or challenge that libcurl went on from, also when the next hop fails.  A *)
(* failure is the transfer's own result.                                    *)
HeadIsFinal ==
  /\ head.tag = "right" => block = (IF head.lines = <<>> THEN 0
                                    ELSE head.lines[1].block) /\ ~following
  /\ head.tag = "left" => head.code = result

(* A published response and an ended transfer reach the caller, however     *)
(* they race with its wait, and though the server may send nothing more.    *)
HeadArrives ==
  /\ response_available /\ mode = "stream" ~> pc = "returned"
  /\ result # "none" ~> pc = "returned"
=============================================================================
