---------------------------- MODULE HeadersProofs ----------------------------
(***************************************************************************)
(* Safety of response heads, for any number of blocks, fields and trailers *)
(* and whatever the body does beside them: blocks are never mixed, a wait  *)
(* pointer is fired or freed once, and the head a caller is given is the   *)
(* last one of its transfer.  Then the body: it is whole and truly counted *)
(* at every width of size_t.                                               *)
(***************************************************************************)
EXTENDS Response, SequenceTheorems, WellFoundedInduction, TLAPS

Statuses == {0, 100, 101, 200, 302, 401}

(* What TypeOK leaves open. *)
RestType ==
  /\ answer \in Answers \/ answer = [status |-> 0, established |-> FALSE]
  /\ head \in [tag : {"none", "left", "right", "thrown"}, code : Codes \cup {"none"},
               status : Statuses, lines : Seq(Lines)]

(* The block libcurl is in the middle of. *)
OpenInv ==
  /\ ~refused => (in_block <=> at = "fields")
  /\ in_block => current_status = answer.status /\ answer \in Answers
  /\ in_block /\ ~refused => current # <<>>
  /\ current # <<>> => /\ in_block
                       /\ current[1].part = "status" /\ current[1].status = current_status
                       /\ current[1].established = answer.established
                       /\ \A i \in 1..Len(current) : current[i].block = block
                       /\ \A i \in 2..Len(current) : current[i].part # "status"
  /\ at = "start" /\ ~refused => block < MaxBlocks
  /\ answer.status = 100 => block < MaxBlocks
  /\ following => at = "start"

(* No other block can come, and what is completed is the last one. *)
Settled ==
  /\ at = "body" /\ ~following
  /\ block = IF completed = <<>> THEN 0 ELSE completed[1].block

(* The block a snapshot copies, and when it may be shown. *)
BlockInv ==
  /\ completed # <<>> <=> completed_status # 0
  /\ completed # <<>> => OneBlock(completed, completed_status)
  /\ at = "body" /\ ~refused => Settled
  /\ response_available => Settled
  /\ result = "ok" => Settled
  /\ ready => Settled \/ (transfer_completed /\ ~response_available /\ terminal_code # "ok")

(* The pointer of the wait. *)
WaitInv ==
  /\ pc = "wait" => owner = "user"
  /\ waiter_present => owner = "c" /\ ~wake
  /\ wake => owner = "c"
  /\ wake \/ owner = "fired" \/ pc = "snapshot" => ready

(* The end of the transfer. *)
EndInv ==
  /\ phase = "running" <=> result = "none"
  /\ transfer_completed => terminal_code = result /\ phase # "running" /\ phase # "result"

(* The head the caller was given. *)
HeadInv ==
  /\ head.lines # <<>> => OneBlock(head.lines, head.status)
  /\ head.tag = "right" =>
       /\ at = "body" /\ ~following
       /\ block = IF head.lines = <<>> THEN 0 ELSE head.lines[1].block
  /\ head.tag = "left" => head.code = result /\ phase # "running"

(* A chunk is inside the write callback only while libcurl goes on. *)
WriteInv == writing # 0 => ~refused /\ mode = "stream"

IInv == TypeOK /\ RestType /\ OpenInv /\ BlockInv /\ WaitInv /\ EndInv /\ HeadInv
        /\ WriteInv

-----------------------------------------------------------------------------
(* What the head sees of a call: its own steps, and a body that may make    *)
(* libcurl end the transfer.                                                *)
Refuse ==
  /\ refused' \in {refused, TRUE}
  /\ UNCHANGED <<bufferVars, readyVars, endVars, block, answer, at, following,
                 lines, reactorVars, wake, userVars, owner>>

HeadNext ==
  \/ Receive \/ BodyStarts \/ Refuse \/ MarkComplete \/ WakeResult \/ Fire
  \/ (\E c \in Codes : Finish(c))
  \/ Wait \/ Woken \/ Interrupt \/ Unregister \/ Snapshot \/ CompletedHead \/ Throw

LEMMA Projection == TypeOK /\ WriteInv /\ [ResponseNext]_allVars => [HeadNext]_vars /\ WriteInv'
<1> SUFFICES ASSUME TypeOK, WriteInv, [ResponseNext]_allVars PROVE [HeadNext]_vars /\ WriteInv'
  OBVIOUS
<1> DEFINE Goal == [HeadNext]_vars /\ WriteInv'
<1>t. refused \in BOOLEAN
  BY DEF TypeOK
<1>w. ASSUME UNCHANGED writing, UNCHANGED <<refused, mode>> \/ (writing = 0) PROVE WriteInv'
  BY <1>w DEF WriteInv
<1>1. CASE ReceiveHead
  BY <1>1, <1>w DEF ReceiveHead, HeadNext, bodyVars, ringVars
<1>2. ASSUME NEW n \in ChunkSizes, StreamWriteBegins(n) PROVE Goal
  BY <1>2, <1>t DEF StreamWriteBegins, BodyStarts, Delivering, HeadNext, WriteInv, curlVars, userVars
<1>3. ASSUME NEW n \in ChunkSizes, NEW ok \in BOOLEAN, BufferWrite(n, ok) PROVE Goal
  <2>1. Refuse
    BY <1>3 DEF BufferWrite, Refuse
  <2>2. writing = 0
    BY <1>3 DEF BufferWrite, WriteInv
  <2>3. writing' = writing
    BY <1>3 DEF BufferWrite, ringVars
  <2>q. QED
    BY <1>w, <2>1, <2>2, <2>3 DEF HeadNext
<1>4. CASE Complete /\ UNCHANGED bodyVars
  BY <1>4, <1>w DEF Complete, HeadNext, MarkComplete, WakeResult, Fire, curlVars, userVars, bodyVars,
                    ringVars
<1>5. ASSUME NEW ok \in BOOLEAN, NEW paused \in BOOLEAN, StreamWrite(ok, paused)
      PROVE Goal
  <2>1. refused' \in BOOLEAN /\ refused = FALSE /\ writing' = 0
    BY <1>5, <1>t DEF StreamWrite, WriteInv
  <2>2. Refuse
    BY <1>5, <2>1 DEF StreamWrite, Refuse
  <2>q. QED
    BY <2>1, <2>2 DEF WriteInv, HeadNext
<1>6. CASE CallStep
  <2>1. [HeadNext]_vars
    BY <1>6 DEF CallStep, HeadStep, TakeBuffered, HeadNext
  <2>2. UNCHANGED <<writing, refused, mode>>
    BY <1>6 DEF CallStep, HeadStep, TakeBuffered, Wait, Woken, Unregister, Snapshot, CompletedHead,
                quiet, curlVars, Goto, Return, ringVars
  <2>q. QED
    BY <1>w, <2>1, <2>2
<1>7. ASSUME NEW c \in Codes, FinishWithMetrics(c) PROVE Goal
  BY <1>7, <1>w DEF FinishWithMetrics, HeadNext, Finish, ringVars
<1>8. CASE HeadStep(Interrupt \/ Throw)
  <2>1. UNCHANGED <<writing, refused, mode>>
    BY <1>8 DEF HeadStep, Interrupt, Throw, quiet, curlVars, Goto, Return
  <2>q. QED
    BY <1>8, <1>w, <2>1 DEF HeadStep, HeadNext
<1>9. CASE ReadChunk \/ Resume \/ Completion \/ UNCHANGED allVars
  BY <1>9, <1>w DEF ReadChunk, Resume, Completion, allVars, vars, curlVars, userVars, bodyVars, ringVars
<1>q. QED
  BY <1>1, <1>2, <1>3, <1>4, <1>5, <1>6, <1>7, <1>8, <1>9
  DEF ResponseNext, BodyArrives, ReactorStep

(* What a status line may say. *)
LEMMA AnswerFacts ==
  /\ \A a \in Answers : a.status \in Statuses /\ a.status # 0 /\ a.established \in BOOLEAN
  /\ {0} \cup {a.status : a \in Answers} = Statuses
<1> DEFINE Plain == [status : {100, 101, 200, 302, 401}, established : {FALSE}]
           Tunnel == [status : {200}, established : {TRUE}]
<1>1. ASSUME NEW a \in Plain
      PROVE a.status \in Statuses /\ a.status # 0 /\ a.established \in BOOLEAN
  <2>1. a.status \in {100, 101, 200, 302, 401} /\ a.established = FALSE
    OBVIOUS
  <2>2. a.status \in Statuses /\ a.status # 0
    BY <2>1 DEF Statuses
  <2>q. QED
    BY <2>1, <2>2
<1>2. ASSUME NEW a \in Tunnel
      PROVE a.status \in Statuses /\ a.status # 0 /\ a.established \in BOOLEAN
  <2>1. a.status = 200 /\ a.established = TRUE
    OBVIOUS
  <2>2. a.status \in Statuses /\ a.status # 0
    BY <2>1 DEF Statuses
  <2>q. QED
    BY <2>1, <2>2
<1>3. \A a \in Answers : a.status \in Statuses /\ a.status # 0 /\ a.established \in BOOLEAN
  <2>1. Answers = Plain \cup Tunnel
    BY DEF Answers
  <2> HIDE DEF Plain, Tunnel
  <2>q. QED
    BY <1>1, <1>2, <2>1
<1>4. ASSUME NEW s \in Statuses, s # 0 PROVE \E a \in Answers : a.status = s
  <2>1. [status |-> s, established |-> FALSE] \in Answers
    BY <1>4 DEF Answers, Statuses
  <2>q. QED
    BY <2>1
<1>q. QED
  BY <1>3, <1>4 DEF Statuses

(* What header_callback does with each kind of line. *)
LEMMA StatusEffect ==
  ASSUME NEW a \in Answers, NEW ok \in BOOLEAN, StatusLine(a, ok)
  PROVE /\ phase = "running" /\ ~refused /\ ~wake /\ at = "start"
        /\ MustFollow(a) => block + 1 < MaxBlocks
        /\ block' = block + 1 /\ answer' = a /\ at' = "fields" /\ following' = FALSE /\ lines' = 0
        /\ current' = IF ok THEN <<[block |-> block + 1, part |-> "status", status |-> a.status,
                                    established |-> a.established]>> ELSE <<>>
        /\ current_status' = a.status /\ in_block' = TRUE /\ refused' = ~ok
        /\ UNCHANGED <<completed, completed_status, readyVars, wake, endVars, reactorVars, userVars,
                       owner>>
<1> DEFINE line == [block |-> block + 1, part |-> "status", status |-> a.status,
                    established |-> a.established]
<1>1. line.part = "status" /\ line.status = a.status
  OBVIOUS
<1>2. HeaderCallback(line, ok)
  BY DEF StatusLine
<1> HIDE DEF line
<1>3. Appended(<<>>, line, ok) = IF ok THEN <<line>> ELSE <<>>
  BY DEF Appended
<1>4. /\ current' = IF ok THEN <<line>> ELSE <<>>
      /\ current_status' = a.status /\ in_block' = TRUE /\ refused' = ~ok
      /\ UNCHANGED <<completed, completed_status, readyVars, wake, endVars, reactorVars, userVars,
                     owner>>
  BY <1>1, <1>2, <1>3 DEF HeaderCallback
<1>q. QED
  BY <1>4 DEF StatusLine, Delivering, line

LEMMA FieldEffect ==
  ASSUME NEW ok \in BOOLEAN, Field(ok), OpenInv
  PROVE /\ phase = "running" /\ ~refused /\ ~wake /\ at = "fields" /\ in_block
        /\ UNCHANGED <<block, answer, at, following>> /\ lines' = lines + 1
        /\ current' = IF ok THEN Append(current, Line("field")) ELSE current
        /\ in_block' = TRUE /\ refused' = ~ok
        /\ UNCHANGED <<completed, completed_status, current_status, readyVars, wake, endVars,
                       reactorVars, userVars, owner>>
<1> DEFINE line == Line("field")
<1>1. line.part = "field"
  BY DEF Line
<1>2. HeaderCallback(line, ok) /\ at = "fields" /\ ~refused
  BY DEF Field, Delivering
<1>3. in_block
  BY <1>2 DEF OpenInv
<1> HIDE DEF line
<1>4. /\ current' = IF ok THEN Append(current, line) ELSE current
      /\ in_block' = TRUE /\ refused' = ~ok
      /\ UNCHANGED <<completed, completed_status, current_status, readyVars, wake, endVars,
                     reactorVars, userVars, owner>>
  BY <1>1, <1>2, <1>3 DEF HeaderCallback, Appended
<1>q. QED
  BY <1>3, <1>4 DEF Field, Delivering, line

LEMMA BlankEffect ==
  ASSUME NEW ok \in BOOLEAN, BlankLine(ok), OpenInv
  PROVE /\ phase = "running" /\ ~refused /\ ~wake /\ at = "fields" /\ in_block
        /\ UNCHANGED <<block, answer, current_status, endVars, reactorVars, userVars, owner>>
        /\ following' \in BOOLEAN /\ lines' = 0
        /\ following' => MayFollow(answer) \/ MustFollow(answer)
        /\ at' = IF following' THEN "start" ELSE "body"
        /\ refused' = ~ok
        /\ ok => /\ completed' = Append(current, Line("blank"))
                 /\ completed_status' = current_status
                 /\ current' = <<>> /\ in_block' = FALSE
        /\ ~ok => UNCHANGED <<completed, completed_status, current, in_block>>
        /\ \/ UNCHANGED <<readyVars, wake>>
           \/ /\ ok /\ response_available' = TRUE /\ ready' = TRUE
              /\ wake' = waiter_present /\ waiter_present' = FALSE
              /\ PublishEarly(current_status,
                   current_status = 200 /\ \E i \in 1..Len(completed') : completed'[i].established)
<1> DEFINE line == Line("blank")
<1>1. line.part = "blank"
  BY DEF Line
<1>2. HeaderCallback(line, ok) /\ at = "fields" /\ ~refused
  BY DEF BlankLine, Delivering
<1>3. in_block
  BY <1>2 DEF OpenInv
<1> HIDE DEF line
<1>4. /\ ok => /\ completed' = Append(current, line)
               /\ completed_status' = current_status
               /\ current' = <<>> /\ in_block' = FALSE
      /\ ~ok => UNCHANGED <<completed, completed_status, current>> /\ in_block' = TRUE
      /\ UNCHANGED <<current_status, endVars, reactorVars, userVars, owner>>
      /\ refused' = ~ok
  BY <1>1, <1>2, <1>3 DEF HeaderCallback, Appended, Replaced
<1>5. ~ok => UNCHANGED <<readyVars, wake>>
  BY <1>1, <1>2, <1>3 DEF HeaderCallback
<1>6. ASSUME ok
      PROVE \/ UNCHANGED <<readyVars, wake>>
            \/ /\ response_available' = TRUE /\ ready' = TRUE
               /\ wake' = waiter_present /\ waiter_present' = FALSE
               /\ PublishEarly(current_status,
                    current_status = 200 /\ \E i \in 1..Len(completed') : completed'[i].established)
  <2> DEFINE buffer == Append(current, line)
             pub == PublishEarly(current_status,
                      current_status = 200 /\ \E i \in 1..Len(buffer) : buffer[i].established)
  <2>1. IF pub THEN response_available' = TRUE /\ ready' = TRUE /\ DetachWaiter
        ELSE UNCHANGED <<readyVars, wake>>
    <3>1. Appended(IF line.part = "status" THEN <<>> ELSE current, line, ok) = buffer
      BY <1>1, <1>6 DEF Appended
    <3>2. (IF line.part = "status" THEN line.status ELSE current_status) = current_status
      BY <1>1
    <3>3. in_block \/ line.part = "status"
      BY <1>3
    <3> DEFINE b == Appended(IF line.part = "status" THEN <<>> ELSE current, line, ok)
               st == IF line.part = "status" THEN line.status ELSE current_status
               early == PublishEarly(st, st = 200 /\ \E i \in 1..Len(b) : b[i].established)
    <3>4. IF ((in_block \/ line.part = "status") /\ ok /\ line.part = "blank") /\ early
          THEN response_available' = TRUE /\ ready' = TRUE /\ DetachWaiter
          ELSE UNCHANGED <<readyVars, wake>>
      BY <1>2 DEF HeaderCallback
    <3>5. early <=> pub
      BY <3>1, <3>2
    <3> HIDE DEF early, pub
    <3>q. QED
      BY <1>1, <1>6, <3>3, <3>4, <3>5
  <2>2. completed' = buffer
    BY <1>4, <1>6
  <2> HIDE DEF buffer
  <2>q. QED
    BY <2>1, <2>2 DEF DetachWaiter
<1>7. following' \in BOOLEAN /\ (following' => MayFollow(answer) \/ MustFollow(answer))
  BY DEF BlankLine
<1>8. /\ phase = "running" /\ ~refused /\ ~wake /\ at = "fields" /\ lines' = 0
      /\ UNCHANGED <<block, answer>> /\ at' = IF following' THEN "start" ELSE "body"
  BY DEF BlankLine, Delivering
<1>q. QED
  BY <1>3, <1>4, <1>5, <1>6, <1>7, <1>8 DEF line

LEMMA TrailerEffect ==
  ASSUME NEW ok \in BOOLEAN, Trailer(ok), OpenInv
  PROVE /\ phase = "running" /\ ~refused /\ ~wake /\ at = "body" /\ ~in_block
        /\ UNCHANGED <<block, answer, at, following>> /\ lines' = lines + 1
        /\ completed' = IF completed # <<>> /\ ok THEN Append(completed, Line("field")) ELSE completed
        /\ in_block' = FALSE /\ refused' \in BOOLEAN
        /\ UNCHANGED <<current, completed_status, current_status, readyVars, wake, endVars,
                       reactorVars, userVars, owner>>
<1> DEFINE line == Line("field")
<1>1. line.part = "field"
  BY DEF Line
<1>2. HeaderCallback(line, ok) /\ at = "body" /\ ~refused
  BY DEF Trailer, Delivering
<1>3. ~in_block
  BY <1>2 DEF OpenInv
<1> HIDE DEF line
<1>4. /\ completed' = IF completed # <<>> /\ ok THEN Append(completed, line) ELSE completed
      /\ in_block' = FALSE /\ refused' \in BOOLEAN
      /\ UNCHANGED <<current, completed_status, current_status, readyVars, wake, endVars,
                     reactorVars, userVars, owner>>
  BY <1>1, <1>2, <1>3 DEF HeaderCallback, Appended
<1>q. QED
  BY <1>3, <1>4 DEF Trailer, Delivering, line

-----------------------------------------------------------------------------
(* Steps *)

(* A block is opened by its status line and collects only its own lines. *)
LEMMA OpenStep == TypeOK /\ OpenInv /\ [HeadNext]_vars => OpenInv'
<1> SUFFICES ASSUME TypeOK, OpenInv, [HeadNext]_vars PROVE OpenInv'
  OBVIOUS
<1> USE DEF vars, bufferVars, readyVars, endVars, curlVars, reactorVars,
            userVars, quiet, Goto, Return
<1>t. current \in Seq(Lines) /\ block \in 0..MaxBlocks /\ refused \in BOOLEAN
  BY DEF TypeOK
<1>f. ASSUME UNCHANGED <<current, current_status, in_block, block, answer, at, following>>,
             refused' \in {refused, TRUE}
      PROVE OpenInv'
  BY <1>f DEF OpenInv
<1>1. ASSUME NEW a \in Answers, NEW ok \in BOOLEAN, StatusLine(a, ok) PROVE OpenInv'
  <2>1. /\ ~refused /\ at = "start" /\ (MustFollow(a) => block + 1 < MaxBlocks)
        /\ block' = block + 1 /\ answer' = a /\ at' = "fields" /\ following' = FALSE
        /\ current' = IF ok THEN <<[block |-> block + 1, part |-> "status", status |-> a.status,
                                    established |-> a.established]>> ELSE <<>>
        /\ current_status' = a.status /\ in_block' = TRUE /\ refused' = ~ok
    BY <1>1, StatusEffect
  <2>2. current' # <<>> =>
          /\ Len(current') = 1 /\ current'[1].part = "status" /\ current'[1].status = a.status
          /\ current'[1].established = a.established /\ current'[1].block = block + 1
    BY <2>1
  <2>3. ok => current' # <<>>
    BY <2>1
  <2>4. a.status = 100 => block + 1 < MaxBlocks
    BY <2>1 DEF MustFollow
  <2>q. QED
    <3>1. current' # <<>> => /\ \A i \in 1..Len(current') : current'[i].block = block'
                             /\ \A i \in 2..Len(current') : current'[i].part # "status"
      BY <2>1, <2>2
    <3>2. ~refused' => current' # <<>>
      BY <2>1, <2>3
    <3>3. /\ at' = "fields" /\ in_block' = TRUE /\ following' = FALSE /\ answer' = a
          /\ current_status' = a.status
      BY <2>1
    <3>4. answer'.status = 100 => block' < MaxBlocks
      BY <2>1, <2>4
    <3>q. QED
      BY <2>2, <3>1, <3>2, <3>3, <3>4 DEF OpenInv
<1>2. ASSUME NEW ok \in BOOLEAN, Field(ok) PROVE OpenInv'
  <2>1. /\ ~refused /\ in_block /\ at = "fields" /\ UNCHANGED <<block, answer, at, following, current_status>>
        /\ current' = IF ok THEN Append(current, Line("field")) ELSE current
        /\ in_block' = TRUE /\ refused' = ~ok
    BY <1>2, FieldEffect
  <2>2. CASE ~ok
    BY <2>1, <2>2 DEF OpenInv
  <2>3. CASE ok
    <3>1. Line("field") \in Lines /\ Line("field").part = "field" /\ Line("field").block = block
      BY <1>t DEF Line, Lines
    <3>2. /\ current' # <<>> /\ Len(current') = Len(current) + 1 /\ Len(current) \in Nat
          /\ \A i \in 1..Len(current) : current'[i] = current[i]
          /\ current'[Len(current) + 1] = Line("field")
      BY <1>t, <2>1, <2>3, <3>1, AppendProperties, LenProperties
    <3>3. current # <<>> /\ 1 \in 1..Len(current)
      BY <1>t, <2>1, LenProperties, EmptySeq DEF OpenInv
    <3>4. /\ current[1].part = "status" /\ current[1].status = current_status
          /\ current[1].established = answer.established
          /\ \A i \in 1..Len(current) : current[i].block = block
          /\ \A i \in 2..Len(current) : current[i].part # "status"
      BY <3>3 DEF OpenInv
    <3>5. current'[1] = current[1]
      BY <3>2, <3>3
    <3>6. \A i \in 1..Len(current') : current'[i].block = block'
      BY <2>1, <3>1, <3>2, <3>4
    <3>7. \A i \in 2..Len(current') : current'[i].part # "status"
      BY <3>1, <3>2, <3>4
    <3>q. QED
      BY <2>1, <3>2, <3>4, <3>5, <3>6, <3>7 DEF OpenInv
  <2>q. QED
    BY <2>2, <2>3
<1>3. ASSUME NEW ok \in BOOLEAN, BlankLine(ok) PROVE OpenInv'
  <2>1. /\ ~refused /\ in_block /\ at = "fields" /\ UNCHANGED <<block, answer, current_status>>
        /\ following' \in BOOLEAN /\ at' = (IF following' THEN "start" ELSE "body")
        /\ (following' => MayFollow(answer) \/ MustFollow(answer))
        /\ refused' = ~ok
        /\ (ok => current' = <<>> /\ in_block' = FALSE)
        /\ (~ok => UNCHANGED <<current, in_block>>)
    BY <1>3, BlankEffect
  <2>2. following' => block < MaxBlocks
    BY <2>1 DEF MayFollow, MustFollow, OpenInv
  <2>3. CASE ok
    BY <2>1, <2>2, <2>3 DEF OpenInv
  <2>4. CASE ~ok
    BY <2>1, <2>2, <2>4 DEF OpenInv
  <2>q. QED
    BY <2>3, <2>4
<1>4. ASSUME NEW ok \in BOOLEAN, Trailer(ok) PROVE OpenInv'
  <2>1. /\ ~refused /\ ~in_block /\ UNCHANGED <<current, current_status, block, answer, at, following>>
        /\ in_block' = FALSE /\ refused' \in BOOLEAN
    BY <1>4, TrailerEffect
  <2>2. refused' \in {refused, TRUE} /\ in_block' = in_block
    BY <1>t, <2>1 DEF TypeOK
  <2>q. QED
    BY <1>f, <2>1, <2>2
<1>5. CASE BodyStarts
  BY <1>5, <1>f DEF BodyStarts, DetachWaiter, Delivering
<1>6. CASE Refuse
  BY <1>6, <1>f DEF Refuse
<1>7. CASE MarkComplete
  BY <1>7, <1>f DEF MarkComplete, DetachWaiter
<1>8. CASE WakeResult
  BY <1>8, <1>f DEF WakeResult
<1>9. CASE Fire
  BY <1>9, <1>f DEF Fire
<1>10. ASSUME NEW c \in Codes, Finish(c) PROVE OpenInv'
  BY <1>10, <1>f DEF Finish
<1>11. CASE Wait
  BY <1>11, <1>f DEF Wait, IsReady
<1>12. CASE Woken
  BY <1>12, <1>f DEF Woken
<1>13. CASE Interrupt
  BY <1>13, <1>f DEF Interrupt
<1>14. CASE Unregister
  BY <1>14, <1>f DEF Unregister, HandedBack
<1>15. CASE Snapshot
  BY <1>15, <1>f DEF Snapshot
<1>16. CASE CompletedHead
  BY <1>16, <1>f DEF CompletedHead
<1>17. CASE Throw
  BY <1>17, <1>f DEF Throw
<1>u. CASE UNCHANGED vars
  BY <1>u, <1>f
<1> HIDE DEF vars, bufferVars, readyVars, endVars, curlVars, reactorVars, userVars, quiet, Goto, Return
<1>q. QED
  BY <1>1, <1>2, <1>3, <1>4, <1>5, <1>6, <1>7, <1>8, <1>9, <1>10, <1>11,
     <1>12, <1>13, <1>14, <1>15, <1>16, <1>17, <1>u
  DEF HeadNext, Receive

(* The result is set once, and the terminal code of the head is a copy of   *)
(* it.                                                                      *)
LEMMA EndStep == OpenInv /\ EndInv /\ [HeadNext]_vars => EndInv'
<1> SUFFICES ASSUME OpenInv, EndInv, [HeadNext]_vars PROVE EndInv'
  OBVIOUS
<1> USE DEF vars, bufferVars, readyVars, endVars, curlVars, reactorVars,
            userVars, quiet, Goto, Return
<1>f. ASSUME UNCHANGED <<phase, result, transfer_completed, terminal_code>> PROVE EndInv'
  BY <1>f DEF EndInv
<1>1. ASSUME NEW a \in Answers, NEW ok \in BOOLEAN, StatusLine(a, ok) PROVE EndInv'
  BY <1>1, <1>f, StatusEffect
<1>2. ASSUME NEW ok \in BOOLEAN, Field(ok) PROVE EndInv'
  BY <1>2, <1>f, FieldEffect
<1>3. ASSUME NEW ok \in BOOLEAN, BlankLine(ok) PROVE EndInv'
  BY <1>3, <1>f, BlankEffect
<1>4. ASSUME NEW ok \in BOOLEAN, Trailer(ok) PROVE EndInv'
  BY <1>4, <1>f, TrailerEffect
<1>5. CASE BodyStarts
  BY <1>5, <1>f DEF BodyStarts, DetachWaiter, Delivering
<1>6. CASE Refuse
  BY <1>6, <1>f DEF Refuse
<1>7. CASE MarkComplete
  BY <1>7 DEF MarkComplete, EndInv
<1>8. CASE WakeResult
  BY <1>8 DEF WakeResult, EndInv
<1>9. CASE Fire
  BY <1>9, <1>f DEF Fire
<1>10. ASSUME NEW c \in Codes, Finish(c) PROVE EndInv'
  BY <1>10 DEF Finish, EndInv, Codes
<1>11. CASE Wait
  BY <1>11, <1>f DEF Wait, IsReady
<1>12. CASE Woken
  BY <1>12, <1>f DEF Woken
<1>13. CASE Interrupt
  BY <1>13, <1>f DEF Interrupt
<1>14. CASE Unregister
  BY <1>14, <1>f DEF Unregister, HandedBack
<1>15. CASE Snapshot
  BY <1>15, <1>f DEF Snapshot
<1>16. CASE CompletedHead
  BY <1>16, <1>f DEF CompletedHead
<1>17. CASE Throw
  BY <1>17, <1>f DEF Throw
<1>u. CASE UNCHANGED vars
  BY <1>u, <1>f
<1> HIDE DEF vars, bufferVars, readyVars, endVars, curlVars, reactorVars, userVars, quiet, Goto, Return
<1>q. QED
  BY <1>1, <1>2, <1>3, <1>4, <1>5, <1>6, <1>7, <1>8, <1>9, <1>10, <1>11,
     <1>12, <1>13, <1>14, <1>15, <1>16, <1>17, <1>u
  DEF HeadNext, Receive

(* Registering, detaching, firing and taking back hand the pointer from one *)
(* owner to the next.                                                       *)
LEMMA WaitStep == TypeOK /\ OpenInv /\ WaitInv /\ [HeadNext]_vars => WaitInv'
<1> SUFFICES ASSUME TypeOK, OpenInv, WaitInv, [HeadNext]_vars PROVE WaitInv'
  OBVIOUS
<1> USE DEF vars, bufferVars, readyVars, endVars, curlVars, reactorVars,
            userVars, quiet, Goto, Return
<1>f. ASSUME UNCHANGED <<pc, owner, waiter_present, wake, ready>> PROVE WaitInv'
  BY <1>f DEF WaitInv
<1>t. waiter_present \in BOOLEAN /\ wake \in BOOLEAN /\ ready \in BOOLEAN
  BY DEF TypeOK
<1>g. ASSUME UNCHANGED <<pc, owner>>, ready' = TRUE, wake' = waiter_present, waiter_present' = FALSE
      PROVE WaitInv'
  BY <1>g, <1>t DEF WaitInv
<1>1. ASSUME NEW a \in Answers, NEW ok \in BOOLEAN, StatusLine(a, ok) PROVE WaitInv'
  BY <1>1, <1>f, StatusEffect
<1>2. ASSUME NEW ok \in BOOLEAN, Field(ok) PROVE WaitInv'
  BY <1>2, <1>f, FieldEffect
<1>3. ASSUME NEW ok \in BOOLEAN, BlankLine(ok) PROVE WaitInv'
  <2>1. UNCHANGED <<pc, owner>>
    BY <1>3, BlankEffect
  <2>2. \/ UNCHANGED <<waiter_present, wake, ready>>
        \/ ready' = TRUE /\ wake' = waiter_present /\ waiter_present' = FALSE
    BY <1>3, BlankEffect
  <2>q. QED
    BY <1>f, <1>g, <2>1, <2>2
<1>4. ASSUME NEW ok \in BOOLEAN, Trailer(ok) PROVE WaitInv'
  BY <1>4, <1>f, TrailerEffect
<1>5. CASE BodyStarts
  BY <1>5, <1>g DEF BodyStarts, DetachWaiter, Delivering
<1>6. CASE Refuse
  BY <1>6, <1>f DEF Refuse
<1>7. CASE MarkComplete
  BY <1>7, <1>g DEF MarkComplete, DetachWaiter
<1>8. CASE WakeResult
  BY <1>8, <1>f DEF WakeResult
<1>9. CASE Fire
  BY <1>9, <1>t DEF Fire, WaitInv
<1>10. ASSUME NEW c \in Codes, Finish(c) PROVE WaitInv'
  BY <1>10, <1>f DEF Finish
<1>11. CASE Wait
  BY <1>11, <1>t DEF Wait, IsReady, WaitInv
<1>12. CASE Woken
  BY <1>12, <1>t DEF Woken, WaitInv
<1>13. CASE Interrupt
  BY <1>13, <1>t DEF Interrupt, WaitInv
<1>14. CASE Unregister
  BY <1>14, <1>t DEF Unregister, HandedBack, WaitInv
<1>15. CASE Snapshot
  BY <1>15, <1>t DEF Snapshot, WaitInv
<1>16. CASE CompletedHead
  BY <1>16, <1>t DEF CompletedHead, WaitInv
<1>17. CASE Throw
  BY <1>17, <1>t DEF Throw, WaitInv
<1>u. CASE UNCHANGED vars
  BY <1>u, <1>f
<1> HIDE DEF vars, bufferVars, readyVars, endVars, curlVars, reactorVars, userVars, quiet, Goto, Return
<1>q. QED
  BY <1>1, <1>2, <1>3, <1>4, <1>5, <1>6, <1>7, <1>8, <1>9, <1>10, <1>11,
     <1>12, <1>13, <1>14, <1>15, <1>16, <1>17, <1>u
  DEF HeadNext, Receive

(* A block replaces the one before it as a whole, and is shown only when no *)
(* other can follow.                                                        *)
LEMMA BlockStep ==
  TypeOK /\ OpenInv /\ EndInv /\ BlockInv /\ [HeadNext]_vars => BlockInv'
<1> SUFFICES ASSUME TypeOK, OpenInv, EndInv, BlockInv, [HeadNext]_vars PROVE BlockInv'
  OBVIOUS
<1> USE DEF vars, bufferVars, readyVars, endVars, curlVars, reactorVars,
            userVars, quiet, Goto, Return
<1>t. /\ current \in Seq(Lines) /\ completed \in Seq(Lines) /\ block \in 0..MaxBlocks
      /\ refused \in BOOLEAN
  BY DEF TypeOK
<1>f. ASSUME UNCHANGED <<completed, completed_status, at, following, block, response_available, ready,
                         transfer_completed, terminal_code, result>>,
             refused' \in {refused, TRUE}
      PROVE BlockInv'
  <2>1. Settled' <=> Settled
    BY <1>f DEF Settled
  <2>2. completed' # <<>> => OneBlock(completed', completed_status')
    BY <1>f DEF BlockInv
  <2>q. QED
    BY <1>f, <2>1, <2>2 DEF BlockInv
<1>r. ASSUME phase = "running", at # "body"
      PROVE ~response_available /\ ~ready /\ result = "none" /\ ~transfer_completed
  BY <1>r DEF BlockInv, Settled, EndInv
<1>g. ASSUME UNCHANGED <<completed, completed_status, response_available, ready, transfer_completed,
                         terminal_code, result>>,
             phase = "running", at # "body", at' # "body" \/ refused' = TRUE
      PROVE BlockInv'
  <2>1. ~response_available' /\ ~ready' /\ result' = "none"
    BY <1>g, <1>r
  <2>2. completed' # <<>> => OneBlock(completed', completed_status')
    BY <1>g DEF BlockInv
  <2>q. QED
    BY <1>g, <2>1, <2>2 DEF BlockInv
<1>1. ASSUME NEW a \in Answers, NEW ok \in BOOLEAN, StatusLine(a, ok) PROVE BlockInv'
  <2>1. /\ UNCHANGED <<completed, completed_status, response_available, ready, transfer_completed,
                       terminal_code, result>>
        /\ phase = "running" /\ at # "body" /\ at' # "body"
    BY <1>1, StatusEffect
  <2>q. QED
    BY <1>g, <2>1
<1>2. ASSUME NEW ok \in BOOLEAN, Field(ok) PROVE BlockInv'
  <2>1. /\ UNCHANGED <<completed, completed_status, response_available, ready, transfer_completed,
                       terminal_code, result>>
        /\ phase = "running" /\ at # "body" /\ at' # "body"
    BY <1>2, FieldEffect
  <2>q. QED
    BY <1>g, <2>1
<1>3. ASSUME NEW ok \in BOOLEAN, BlankLine(ok) PROVE BlockInv'
  <2>1. /\ phase = "running" /\ at = "fields" /\ ~refused /\ in_block
        /\ UNCHANGED <<block, answer, transfer_completed, terminal_code, result>>
        /\ following' \in BOOLEAN /\ at' = (IF following' THEN "start" ELSE "body")
        /\ (following' => MayFollow(answer) \/ MustFollow(answer))
        /\ refused' = ~ok
    BY <1>3, BlankEffect
  <2>2. CASE ~ok
    <3>1. UNCHANGED <<completed, completed_status, response_available, ready>>
      BY <1>3, <2>2, BlankEffect
    <3>q. QED
      BY <1>g, <2>1, <2>2, <3>1
  <2>3. CASE ok
    <3> DEFINE blank == Line("blank")
    <3>1. completed' = Append(current, blank) /\ completed_status' = current_status
      BY <1>3, <2>3, BlankEffect
    <3>2. blank \in Lines /\ blank.part = "blank" /\ blank.block = block
      BY <1>t DEF Line, Lines
    <3> HIDE DEF blank
    <3>3. /\ completed' # <<>> /\ Len(completed') = Len(current) + 1 /\ Len(current) \in Nat
          /\ \A i \in 1..Len(current) : completed'[i] = current[i]
          /\ completed'[Len(current) + 1] = blank
      BY <1>t, <3>1, <3>2, AppendProperties, LenProperties
    <3>4. current # <<>> /\ 1 \in 1..Len(current)
      BY <1>t, <2>1, LenProperties, EmptySeq DEF OpenInv
    <3>5. /\ current[1].part = "status" /\ current[1].status = current_status
          /\ current[1].established = answer.established
          /\ \A i \in 1..Len(current) : current[i].block = block
          /\ \A i \in 2..Len(current) : current[i].part # "status"
          /\ current_status = answer.status /\ answer \in Answers
      BY <2>1, <3>4 DEF OpenInv
    <3>6. completed'[1] = current[1]
      BY <3>3, <3>4
    <3>7. OneBlock(completed', completed_status')
      <4>1. \A i \in 1..Len(completed') : completed'[i].block = completed'[1].block
        BY <3>2, <3>3, <3>4, <3>5, <3>6
      <4>2. \A i \in 2..Len(completed') : completed'[i].part # "status"
        BY <3>2, <3>3, <3>5
      <4>3. \E i \in 2..Len(completed') : completed'[i].part = "blank"
        BY <3>2, <3>3, <3>4
      <4>q. QED
        BY <3>1, <3>5, <3>6, <4>1, <4>2, <4>3 DEF OneBlock
    <3>8. completed_status' # 0
      BY <3>1, <3>5, AnswerFacts
    <3>9. at' = "body" => Settled'
      BY <2>1, <3>3, <3>4, <3>5, <3>6 DEF Settled
    <3>10. result' = "none" /\ ~response_available /\ ~ready
      BY <1>r, <2>1
    <3>11. ASSUME response_available' \/ ready' PROVE Settled'
      <4>1. PublishEarly(current_status,
              current_status = 200 /\ \E i \in 1..Len(completed') : completed'[i].established)
        BY <1>3, <3>10, <3>11, BlankEffect
      <4>2. answer.established => \E i \in 1..Len(completed') : completed'[i].established
        <5>1. 1 \in 1..Len(completed')
          BY <3>3
        <5>q. QED
          BY <3>5, <3>6, <5>1
      <4>3. answer.status \notin {100, 302, 401} /\ ~answer.established
        <5>1. current_status \notin {100, 302, 401}
          BY <4>1 DEF PublishEarly
        <5>2. answer.established => current_status = 200
          BY <3>5 DEF Answers
        <5>3. ~(current_status = 200 /\ \E i \in 1..Len(completed') : completed'[i].established)
          BY <4>1 DEF PublishEarly
        <5>q. QED
          BY <3>5, <4>2, <5>1, <5>2, <5>3
      <4>4. ~following'
        BY <2>1, <4>3 DEF MayFollow, MustFollow
      <4>q. QED
        BY <2>1, <3>9, <4>4
    <3>q. QED
      BY <3>3, <3>7, <3>8, <3>9, <3>10, <3>11 DEF BlockInv
  <2>q. QED
    BY <2>2, <2>3
<1>4. ASSUME NEW ok \in BOOLEAN, Trailer(ok) PROVE BlockInv'
  <2>1. /\ at = "body" /\ ~refused
        /\ UNCHANGED <<block, at, following, completed_status, ready, response_available,
                       transfer_completed, terminal_code, result>>
        /\ completed' = IF completed # <<>> /\ ok THEN Append(completed, Line("field")) ELSE completed
        /\ refused' \in BOOLEAN
    BY <1>4, TrailerEffect
  <2>2. Settled
    BY <2>1 DEF BlockInv
  <2>3. CASE completed' = completed
    BY <1>f, <1>t, <2>1, <2>3
  <2>4. CASE completed # <<>> /\ completed' = Append(completed, Line("field"))
    <3> DEFINE line == Line("field")
    <3>2. line \in Lines /\ line.part = "field" /\ line.block = block
      BY <1>t DEF Line, Lines
    <3> HIDE DEF line
    <3>3. /\ completed' # <<>> /\ Len(completed') = Len(completed) + 1 /\ Len(completed) \in Nat
          /\ \A i \in 1..Len(completed) : completed'[i] = completed[i]
          /\ completed'[Len(completed) + 1] = line
      BY <1>t, <2>4, <3>2, AppendProperties, LenProperties DEF line
    <3>4. 1 \in 1..Len(completed)
      BY <1>t, <2>4, LenProperties, EmptySeq
    <3>5. completed'[1] = completed[1] /\ completed[1].block = block
      BY <2>2, <2>4, <3>3, <3>4 DEF Settled
    <3>6. OneBlock(completed, completed_status)
      BY <2>4 DEF BlockInv
    <3>7. OneBlock(completed', completed_status')
      <4>1. \A i \in 1..Len(completed') : completed'[i].block = completed'[1].block
        BY <3>2, <3>3, <3>5, <3>6 DEF OneBlock
      <4>2. \A i \in 2..Len(completed') : completed'[i].part # "status"
        BY <3>2, <3>3, <3>6 DEF OneBlock
      <4>3. \E i \in 2..Len(completed') : completed'[i].part = "blank"
        BY <3>3, <3>6 DEF OneBlock
      <4>q. QED
        BY <2>1, <3>5, <3>6, <4>1, <4>2, <4>3 DEF OneBlock
    <3>8. Settled'
      BY <2>1, <2>2, <3>3, <3>5 DEF Settled
    <3>q. QED
      BY <2>1, <2>4, <3>3, <3>7, <3>8 DEF BlockInv
  <2>q. QED
    BY <2>1, <2>3, <2>4
<1>5. CASE BodyStarts
  <2>1. /\ at = "body" /\ ~refused
        /\ UNCHANGED <<completed, completed_status, block, at, following, refused, transfer_completed,
                       terminal_code, result>>
    BY <1>5 DEF BodyStarts, Delivering
  <2>2. Settled
    BY <2>1 DEF BlockInv
  <2>3. Settled'
    BY <2>1, <2>2 DEF Settled
  <2>4. completed' # <<>> => OneBlock(completed', completed_status')
    BY <2>1 DEF BlockInv
  <2>q. QED
    BY <2>1, <2>3, <2>4 DEF BlockInv
<1>6. CASE Refuse
  BY <1>6, <1>f DEF Refuse
<1>7. CASE MarkComplete
  <2>1. /\ UNCHANGED <<completed, completed_status, block, at, following, refused, response_available, result>>
        /\ transfer_completed' = TRUE /\ terminal_code' = result /\ ready' = TRUE
    BY <1>7 DEF MarkComplete, DetachWaiter
  <2>2. Settled' <=> Settled
    BY <2>1 DEF Settled
  <2>3. completed' # <<>> => OneBlock(completed', completed_status')
    BY <2>1 DEF BlockInv
  <2>q. QED
    BY <2>1, <2>2, <2>3 DEF BlockInv
<1>8. CASE WakeResult
  BY <1>8, <1>f DEF WakeResult
<1>9. CASE Fire
  BY <1>9, <1>f DEF Fire
<1>10. ASSUME NEW c \in Codes, Finish(c) PROVE BlockInv'
  <2>1. /\ UNCHANGED <<completed, completed_status, block, at, following, refused, response_available, ready,
                       transfer_completed, terminal_code>>
        /\ result' = c /\ (c = "ok" => at = "body" /\ ~refused)
    BY <1>10 DEF Finish
  <2>2. Settled' <=> Settled
    BY <2>1 DEF Settled
  <2>3. completed' # <<>> => OneBlock(completed', completed_status')
    BY <2>1 DEF BlockInv
  <2>q. QED
    BY <2>1, <2>2, <2>3 DEF BlockInv
<1>11. CASE Wait
  BY <1>11, <1>f DEF Wait, IsReady
<1>12. CASE Woken
  BY <1>12, <1>f DEF Woken
<1>13. CASE Interrupt
  BY <1>13, <1>f DEF Interrupt
<1>14. CASE Unregister
  BY <1>14, <1>f DEF Unregister, HandedBack
<1>15. CASE Snapshot
  BY <1>15, <1>f DEF Snapshot
<1>16. CASE CompletedHead
  BY <1>16, <1>f DEF CompletedHead
<1>17. CASE Throw
  BY <1>17, <1>f DEF Throw
<1>u. CASE UNCHANGED vars
  BY <1>u, <1>f
<1> HIDE DEF vars, bufferVars, readyVars, endVars, curlVars, reactorVars, userVars, quiet, Goto, Return
<1>q. QED
  BY <1>1, <1>2, <1>3, <1>4, <1>5, <1>6, <1>7, <1>8, <1>9, <1>10, <1>11,
     <1>12, <1>13, <1>14, <1>15, <1>16, <1>17, <1>u
  DEF HeadNext, Receive

(* What a caller is given is settled: later steps of libcurl cannot make it *)
(* stale.                                                                   *)
LEMMA GivenStep ==
  OpenInv /\ EndInv /\ BlockInv /\ WaitInv /\ HeadInv /\ [HeadNext]_vars => HeadInv'
<1> SUFFICES ASSUME OpenInv, EndInv, BlockInv, WaitInv, HeadInv, [HeadNext]_vars PROVE HeadInv'
  OBVIOUS
<1> USE DEF vars, bufferVars, readyVars, endVars, curlVars, reactorVars,
            userVars, quiet, Goto, Return
<1>f. ASSUME UNCHANGED head, head.tag = "right" => UNCHANGED <<block, at, following>>,
             head.tag = "left" => UNCHANGED result /\ phase' # "running"
      PROVE HeadInv'
  <2>1. head'.lines # <<>> => OneBlock(head'.lines, head'.status)
    BY <1>f DEF HeadInv
  <2>q. QED
    BY <1>f, <2>1 DEF HeadInv
<1>n. head.tag = "right" => at = "body"
  BY DEF HeadInv
<1>m. head.tag = "left" => phase # "running"
  BY DEF HeadInv
<1>h. ASSUME head' = Thrown PROVE HeadInv'
  <2>1. head'.lines = <<>> /\ head'.tag = "thrown"
    BY <1>h DEF Thrown, Nothing
  <2>q. QED
    BY <2>1 DEF HeadInv
<1>e. ASSUME NEW code, head' = Left(code), code = result, UNCHANGED <<result, phase>>, phase # "running"
      PROVE HeadInv'
  <2>1. head'.lines = <<>> /\ head'.tag = "left" /\ head'.code = code
    BY <1>e DEF Left, Nothing
  <2>q. QED
    BY <1>e, <2>1 DEF HeadInv
<1>r. ASSUME NEW st, head' = Right(st), completed_status # 0 => st = completed_status, Settled,
             UNCHANGED <<block, at, following>>
      PROVE HeadInv'
  <2>1. head'.lines = completed /\ head'.tag = "right" /\ head'.status = st
    BY <1>r DEF Right, Nothing
  <2>2. completed # <<>> => OneBlock(completed, completed_status) /\ completed_status # 0
    BY DEF BlockInv
  <2>3. head'.lines # <<>> => OneBlock(head'.lines, head'.status)
    BY <1>r, <2>1, <2>2
  <2>q. QED
    BY <1>r, <2>1, <2>3 DEF HeadInv, Settled
<1>1. ASSUME NEW a \in Answers, NEW ok \in BOOLEAN, StatusLine(a, ok) PROVE HeadInv'
  <2>1. UNCHANGED <<head, result, phase>> /\ phase = "running" /\ (at = "body" => UNCHANGED <<block, at, following>>)
    BY <1>1, StatusEffect
  <2>q. QED
    BY <1>f, <1>m, <1>n, <2>1
<1>2. ASSUME NEW ok \in BOOLEAN, Field(ok) PROVE HeadInv'
  <2>1. UNCHANGED <<head, result, phase>> /\ phase = "running" /\ (at = "body" => UNCHANGED <<block, at, following>>)
    BY <1>2, FieldEffect
  <2>q. QED
    BY <1>f, <1>m, <1>n, <2>1
<1>3. ASSUME NEW ok \in BOOLEAN, BlankLine(ok) PROVE HeadInv'
  <2>1. UNCHANGED <<head, result, phase>> /\ phase = "running" /\ (at = "body" => UNCHANGED <<block, at, following>>)
    BY <1>3, BlankEffect
  <2>q. QED
    BY <1>f, <1>m, <1>n, <2>1
<1>4. ASSUME NEW ok \in BOOLEAN, Trailer(ok) PROVE HeadInv'
  <2>1. UNCHANGED <<head, result, phase>> /\ phase = "running" /\ (at = "body" => UNCHANGED <<block, at, following>>)
    BY <1>4, TrailerEffect
  <2>q. QED
    BY <1>f, <1>m, <1>n, <2>1
<1>5. CASE BodyStarts
  BY <1>5, <1>f, <1>m, <1>n DEF BodyStarts, DetachWaiter, Delivering
<1>6. CASE Refuse
  BY <1>6, <1>f, <1>m, <1>n DEF Refuse
<1>7. CASE MarkComplete
  BY <1>7, <1>f, <1>m, <1>n DEF MarkComplete, DetachWaiter
<1>8. CASE WakeResult
  BY <1>8, <1>f, <1>m, <1>n DEF WakeResult
<1>9. CASE Fire
  BY <1>9, <1>f, <1>m, <1>n DEF Fire
<1>10. ASSUME NEW c \in Codes, Finish(c) PROVE HeadInv'
  BY <1>10, <1>f, <1>m, <1>n DEF Finish
<1>11. CASE Wait
  BY <1>11, <1>f, <1>m, <1>n DEF Wait, IsReady
<1>12. CASE Woken
  BY <1>12, <1>f, <1>m, <1>n DEF Woken
<1>13. CASE Interrupt
  BY <1>13, <1>f, <1>m, <1>n DEF Interrupt
<1>14. CASE Unregister
  BY <1>14, <1>h DEF Unregister
<1>15. CASE Snapshot
  <2>1. pc = "snapshot" /\ ready /\ UNCHANGED <<block, at, following, result, phase>>
    BY <1>15 DEF Snapshot, WaitInv
  <2>2. CASE TerminalBeforeResponse /\ terminal_code # "ok"
    <3>1. head' = Left(terminal_code)
      BY <1>15, <2>2 DEF Snapshot
    <3>2. terminal_code = result /\ phase # "running"
      BY <2>2 DEF TerminalBeforeResponse, EndInv
    <3>q. QED
      BY <1>e, <2>1, <3>1, <3>2
  <2>3. CASE ~(TerminalBeforeResponse /\ terminal_code # "ok") /\ completed_status # 0
    <3>1. head' = Right(completed_status)
      BY <1>15, <2>3 DEF Snapshot
    <3>2. Settled
      BY <2>1, <2>3 DEF BlockInv, TerminalBeforeResponse
    <3>q. QED
      BY <1>r, <2>1, <3>1, <3>2
  <2>4. CASE ~(TerminalBeforeResponse /\ terminal_code # "ok") /\ completed_status = 0
    <3>1. UNCHANGED head
      BY <1>15, <2>4 DEF Snapshot
    <3>q. QED
      BY <1>f, <1>m, <2>1, <3>1
  <2>q. QED
    BY <2>2, <2>3, <2>4
<1>16. CASE CompletedHead
  <2>1. phase = "woken" /\ UNCHANGED <<block, at, following, result, phase>>
    BY <1>16 DEF CompletedHead
  <2>2. CASE result # "ok"
    <3>1. head' = Left(result)
      BY <1>16, <2>2 DEF CompletedHead
    <3>q. QED
      BY <1>e, <2>1, <3>1
  <2>3. CASE result = "ok"
    <3>1. head' = Right(IF completed_status = 0 THEN answer.status ELSE completed_status)
      BY <1>16, <2>3 DEF CompletedHead
    <3>2. Settled
      BY <2>3 DEF BlockInv
    <3>q. QED
      BY <1>r, <2>1, <3>1, <3>2
  <2>q. QED
    BY <2>2, <2>3
<1>17. CASE Throw
  BY <1>17, <1>h DEF Throw
<1>u. CASE UNCHANGED vars
  BY <1>u, <1>f, <1>m
<1> HIDE DEF vars, bufferVars, readyVars, endVars, curlVars, reactorVars, userVars, quiet, Goto, Return
<1>q. QED
  BY <1>1, <1>2, <1>3, <1>4, <1>5, <1>6, <1>7, <1>8, <1>9, <1>10, <1>11,
     <1>12, <1>13, <1>14, <1>15, <1>16, <1>17, <1>u
  DEF HeadNext, Receive

(* A wake finds the pointer still owned by C, and no block starts past the  *)
(* last one.                                                                *)
LEMMA TypeStep == TypeOK /\ OpenInv /\ WaitInv /\ EndInv /\ [HeadNext]_vars => TypeOK'
<1> SUFFICES ASSUME TypeOK, OpenInv, WaitInv, EndInv, [HeadNext]_vars PROVE TypeOK'
  OBVIOUS
<1> USE DEF vars, bufferVars, readyVars, endVars, curlVars, reactorVars,
            userVars, quiet, Goto, Return
<1>b. /\ current \in Seq(Lines) /\ completed \in Seq(Lines)
      /\ current_status \in Statuses /\ completed_status \in Statuses
      /\ block \in 0..MaxBlocks /\ lines \in Nat /\ MaxBlocks \in Nat
  BY AnswerFacts, HeadersAssumption DEF TypeOK
<1>p. ASSUME current' \in Seq(Lines), completed' \in Seq(Lines),
             current_status' \in Statuses, completed_status' \in Statuses,
             block' \in 0..MaxBlocks, lines' \in Nat, at' \in {"start", "fields", "body"},
             in_block' \in BOOLEAN, following' \in BOOLEAN, refused' \in BOOLEAN,
             UNCHANGED <<transfer_completed, terminal_code, result, phase, mode, pc, owner, head>>,
             ready' \in BOOLEAN, response_available' \in BOOLEAN,
             waiter_present' \in BOOLEAN, wake' \in BOOLEAN
      PROVE TypeOK'
  BY <1>p, AnswerFacts DEF TypeOK
<1>f. ASSUME UNCHANGED <<bufferVars, response_available, curlVars>>, ready' \in BOOLEAN,
             transfer_completed' \in BOOLEAN, waiter_present' \in BOOLEAN, wake' \in BOOLEAN,
             terminal_code' \in Codes, result' \in Codes \cup {"none"},
             phase' \in {"running", "result", "completed", "woken"}, UNCHANGED mode,
             pc' \in {"wait", "blocked", "unregister", "snapshot", "awaitDone", "returned"},
             owner' \in {"user", "c", "fired", "freed"},
             head'.tag \in {"none", "left", "right", "thrown"}
      PROVE TypeOK'
  BY <1>f DEF TypeOK
<1>g. ASSUME NEW b \in Seq(Lines), NEW part \in {"status", "field", "blank"}
      PROVE Append(b, Line(part)) \in Seq(Lines)
  <2>1. Line(part) \in Lines
    BY <1>b, <1>g DEF Line, Lines
  <2>q. QED
    BY <2>1, AppendProperties
<1>e. /\ in_block \in BOOLEAN /\ ready \in BOOLEAN /\ response_available \in BOOLEAN
      /\ transfer_completed \in BOOLEAN /\ waiter_present \in BOOLEAN /\ following \in BOOLEAN
      /\ refused \in BOOLEAN /\ wake \in BOOLEAN /\ at \in {"start", "fields", "body"}
      /\ terminal_code \in Codes /\ result \in Codes \cup {"none"}
      /\ phase \in {"running", "result", "completed", "woken"}
      /\ pc \in {"wait", "blocked", "unregister", "snapshot", "awaitDone", "returned"}
      /\ owner \in {"user", "c", "fired", "freed"}
      /\ head.tag \in {"none", "left", "right", "thrown"}
  BY DEF TypeOK
<1>1. ASSUME NEW a \in Answers, NEW ok \in BOOLEAN, StatusLine(a, ok) PROVE TypeOK'
  <2>1. /\ ~refused /\ at = "start" /\ block' = block + 1 /\ at' = "fields"
        /\ following' = FALSE /\ lines' = 0
        /\ current' = IF ok THEN <<[block |-> block + 1, part |-> "status", status |-> a.status,
                                    established |-> a.established]>> ELSE <<>>
        /\ current_status' = a.status /\ in_block' = TRUE /\ refused' = ~ok
        /\ UNCHANGED <<completed, completed_status, readyVars, wake, endVars, reactorVars, userVars,
                       owner>>
    BY <1>1, StatusEffect
  <2>2. block < MaxBlocks
    BY <2>1 DEF OpenInv
  <2>3. block' \in 0..MaxBlocks
    BY <1>b, <2>1, <2>2
  <2>4. a.status \in Statuses /\ a.established \in BOOLEAN
    BY AnswerFacts
  <2>5. current' \in Seq(Lines)
    <3> DEFINE line == [block |-> block + 1, part |-> "status", status |-> a.status,
                        established |-> a.established]
    <3>1. line \in Lines
      BY <2>1, <2>3, <2>4 DEF Lines, Statuses
    <3>2. current' = <<line>> \/ current' = <<>>
      BY <2>1
    <3> HIDE DEF line
    <3>3. <<>> \in Seq(Lines) /\ <<line>> = Append(<<>>, line)
      OBVIOUS
    <3>4. Append(<<>>, line) \in Seq(Lines)
      BY <3>1, <3>3, AppendProperties
    <3>q. QED
      BY <3>2, <3>3, <3>4
  <2>6. refused' \in BOOLEAN
    BY <2>1
  <2>q. QED
    BY <1>b, <1>e, <1>p, <2>1, <2>3, <2>4, <2>5, <2>6
<1>2. ASSUME NEW ok \in BOOLEAN, Field(ok) PROVE TypeOK'
  <2>1. /\ UNCHANGED <<block, answer, at, following>> /\ lines' = lines + 1
        /\ current' = IF ok THEN Append(current, Line("field")) ELSE current
        /\ in_block' = TRUE /\ refused' = ~ok
        /\ UNCHANGED <<completed, completed_status, current_status, readyVars, wake, endVars,
                       reactorVars, userVars, owner>>
    BY <1>2, FieldEffect
  <2>2. current' \in Seq(Lines)
    BY <1>b, <1>g, <2>1
  <2>3. refused' \in BOOLEAN /\ lines' \in Nat
    BY <1>b, <2>1
  <2>q. QED
    BY <1>b, <1>e, <1>p, <2>1, <2>2, <2>3
<1>3. ASSUME NEW ok \in BOOLEAN, BlankLine(ok) PROVE TypeOK'
  <2>1. /\ UNCHANGED <<block, answer, current_status, endVars, reactorVars, userVars, owner>>
        /\ following' \in BOOLEAN /\ lines' = 0
        /\ at' = IF following' THEN "start" ELSE "body"
        /\ refused' = ~ok
        /\ ok => /\ completed' = Append(current, Line("blank"))
                 /\ completed_status' = current_status
                 /\ current' = <<>> /\ in_block' = FALSE
        /\ ~ok => UNCHANGED <<completed, completed_status, current, in_block>>
    BY <1>3, BlankEffect
  <2>2. \/ UNCHANGED <<readyVars, wake>>
        \/ /\ response_available' = TRUE /\ ready' = TRUE
           /\ wake' = waiter_present /\ waiter_present' = FALSE
    BY <1>3, BlankEffect
  <2>3. /\ ready' \in BOOLEAN /\ response_available' \in BOOLEAN
        /\ waiter_present' \in BOOLEAN /\ wake' \in BOOLEAN
    BY <1>e, <2>2
  <2>4. current' \in Seq(Lines) /\ completed' \in Seq(Lines)
    <3>1. CASE ok
      <4>1. current' = <<>> /\ completed' = Append(current, Line("blank"))
        BY <2>1, <3>1
      <4>q. QED
        BY <1>b, <1>g, <4>1
    <3>2. CASE ~ok
      BY <1>b, <2>1, <3>2
    <3>q. QED
      BY <3>1, <3>2
  <2>5. /\ completed_status' \in Statuses /\ in_block' \in BOOLEAN /\ refused' \in BOOLEAN
        /\ at' \in {"start", "fields", "body"}
    BY <1>b, <1>e, <2>1
  <2>q. QED
    BY <1>b, <1>e, <1>p, <2>1, <2>3, <2>4, <2>5
<1>4. ASSUME NEW ok \in BOOLEAN, Trailer(ok) PROVE TypeOK'
  <2>1. /\ UNCHANGED <<block, answer, at, following>> /\ lines' = lines + 1
        /\ completed' = IF completed # <<>> /\ ok THEN Append(completed, Line("field")) ELSE completed
        /\ in_block' = FALSE /\ refused' \in BOOLEAN
        /\ UNCHANGED <<current, completed_status, current_status, readyVars, wake, endVars,
                       reactorVars, userVars, owner>>
    BY <1>4, TrailerEffect
  <2>2. completed' \in Seq(Lines)
    BY <1>b, <1>g, <2>1
  <2>3. lines' \in Nat
    BY <1>b, <2>1
  <2>q. QED
    BY <1>b, <1>e, <1>p, <2>1, <2>2, <2>3
<1>5. CASE BodyStarts
  <2>1. response_available' \in BOOLEAN
    BY <1>5, <1>e DEF BodyStarts
  <2>q. QED
    BY <1>5, <1>b, <1>e, <1>p, <2>1 DEF BodyStarts, DetachWaiter
<1>6. CASE Refuse
  BY <1>6, <1>b, <1>e, <1>p DEF Refuse
<1>7. CASE MarkComplete
  <2>1. result \in Codes
    BY <1>7, <1>e DEF MarkComplete, EndInv
  <2>q. QED
    BY <1>7, <1>e, <1>f, <2>1 DEF MarkComplete, DetachWaiter
<1>8. CASE WakeResult
  BY <1>8, <1>e, <1>f DEF WakeResult
<1>9. CASE Fire
  <2>1. owner = "c"
    BY <1>9 DEF Fire, WaitInv
  <2>q. QED
    <3>1. wake' = FALSE /\ owner' = "fired"
      BY <1>9, <2>1 DEF Fire
    <3>2. UNCHANGED <<bufferVars, readyVars, endVars, curlVars, reactorVars, userVars>>
      BY <1>9 DEF Fire
    <3>3. owner' \in {"user", "c", "fired", "freed"} /\ wake' \in BOOLEAN
      BY <3>1
    <3>4. UNCHANGED <<ready, response_available, transfer_completed, waiter_present, terminal_code,
                      result, phase, mode, pc, head>>
      BY <3>2
    <3>5. /\ ready' \in BOOLEAN /\ transfer_completed' \in BOOLEAN /\ waiter_present' \in BOOLEAN
          /\ terminal_code' \in Codes /\ result' \in Codes \cup {"none"}
      BY <1>e, <3>4
    <3>q. QED
      BY <1>e, <1>f, <3>2, <3>3, <3>4, <3>5
<1>10. ASSUME NEW c \in Codes, Finish(c) PROVE TypeOK'
  BY <1>10, <1>e, <1>f DEF Finish
<1>11. CASE Wait
  <2>1. waiter_present' \in BOOLEAN
    BY <1>11, <1>e DEF Wait, IsReady
  <2>q. QED
    BY <1>11, <1>e, <1>f, <2>1 DEF Wait
<1>12. CASE Woken
  BY <1>12, <1>e, <1>f DEF Woken
<1>13. CASE Interrupt
  BY <1>13, <1>e, <1>f DEF Interrupt
<1>14. CASE Unregister
  <2>1. head'.tag = "thrown"
    BY <1>14 DEF Unregister, Thrown, Nothing
  <2>q. QED
    BY <1>14, <1>e, <1>f, <2>1 DEF Unregister
<1>15. CASE Snapshot
  <2>1. head' = head \/ head'.tag = "left" \/ head'.tag = "right"
    BY <1>15 DEF Snapshot, Left, Right, Nothing
  <2>q. QED
    BY <1>15, <1>e, <1>f, <2>1 DEF Snapshot
<1>16. CASE CompletedHead
  <2>1. head'.tag = "left" \/ head'.tag = "right"
    BY <1>16 DEF CompletedHead, Left, Right, Nothing
  <2>q. QED
    BY <1>16, <1>e, <1>f, <2>1 DEF CompletedHead
<1>17. CASE Throw
  <2>1. head'.tag = "thrown"
    BY <1>17 DEF Throw, Thrown, Nothing
  <2>q. QED
    BY <1>17, <1>e, <1>f, <2>1 DEF Throw
<1>u. CASE UNCHANGED vars
  BY <1>u, <1>e, <1>f
<1> HIDE DEF vars, bufferVars, readyVars, endVars, curlVars, reactorVars, userVars, quiet, Goto, Return
<1>q. QED
  BY <1>1, <1>2, <1>3, <1>4, <1>5, <1>6, <1>7, <1>8, <1>9, <1>10, <1>11,
     <1>12, <1>13, <1>14, <1>15, <1>16, <1>17, <1>u
  DEF HeadNext, Receive

(* The head a caller is given is built from typed parts. *)
LEMMA RestStep == TypeOK /\ OpenInv /\ RestType /\ [HeadNext]_vars => RestType'
<1> SUFFICES ASSUME TypeOK, OpenInv, RestType, [HeadNext]_vars PROVE RestType'
  OBVIOUS
<1> USE DEF vars, bufferVars, readyVars, endVars, curlVars, reactorVars,
            userVars, quiet, Goto, Return
<1>b. /\ completed \in Seq(Lines) /\ completed_status \in Statuses /\ <<>> \in Seq(Lines)
      /\ terminal_code \in Codes /\ result \in Codes \cup {"none"}
  BY AnswerFacts DEF TypeOK
<1> DEFINE Heads == [tag : {"none", "left", "right", "thrown"}, code : Codes \cup {"none"},
                     status : Statuses, lines : Seq(Lines)]
<1>f. ASSUME UNCHANGED answer \/ answer' \in Answers, head' \in Heads PROVE RestType'
  BY <1>f DEF RestType
<1>e. head \in Heads
  BY DEF RestType
<1>h. Thrown \in Heads
  BY <1>b DEF Thrown, Nothing, Statuses, Codes
<1>l. ASSUME NEW c \in Codes \cup {"none"} PROVE Left(c) \in Heads
  <2>1. Nothing \in Heads
    BY <1>b DEF Nothing, Statuses, Codes
  <2>q. QED
    BY <1>l, <2>1 DEF Left
<1>r. ASSUME NEW st \in Statuses PROVE Right(st) \in Heads
  <2>1. Nothing \in Heads
    BY <1>b DEF Nothing, Statuses, Codes
  <2>q. QED
    BY <1>b, <1>r, <2>1 DEF Right
<1>a. answer.status \in Statuses
  <2>1. CASE answer \in Answers
    BY <2>1, AnswerFacts
  <2>2. CASE answer = [status |-> 0, established |-> FALSE]
    BY <2>2 DEF Statuses
  <2>q. QED
    BY <2>1, <2>2 DEF RestType
<1> HIDE DEF Heads
<1>1. ASSUME NEW a \in Answers, NEW ok \in BOOLEAN, StatusLine(a, ok) PROVE RestType'
  BY <1>1, <1>e, <1>f, StatusEffect
<1>2. ASSUME NEW ok \in BOOLEAN, Field(ok) PROVE RestType'
  BY <1>2, <1>e, <1>f, FieldEffect
<1>3. ASSUME NEW ok \in BOOLEAN, BlankLine(ok) PROVE RestType'
  BY <1>3, <1>e, <1>f, BlankEffect
<1>4. ASSUME NEW ok \in BOOLEAN, Trailer(ok) PROVE RestType'
  BY <1>4, <1>e, <1>f, TrailerEffect
<1>5. CASE BodyStarts
  BY <1>5, <1>e, <1>f DEF BodyStarts, DetachWaiter, Delivering
<1>6. CASE Refuse
  BY <1>6, <1>e, <1>f DEF Refuse
<1>7. CASE MarkComplete
  BY <1>7, <1>e, <1>f DEF MarkComplete, DetachWaiter
<1>8. CASE WakeResult
  BY <1>8, <1>e, <1>f DEF WakeResult
<1>9. CASE Fire
  BY <1>9, <1>e, <1>f DEF Fire
<1>10. ASSUME NEW c \in Codes, Finish(c) PROVE RestType'
  BY <1>10, <1>e, <1>f DEF Finish
<1>11. CASE Wait
  BY <1>11, <1>e, <1>f DEF Wait, IsReady
<1>12. CASE Woken
  BY <1>12, <1>e, <1>f DEF Woken
<1>13. CASE Interrupt
  BY <1>13, <1>e, <1>f DEF Interrupt
<1>14. CASE Unregister
  BY <1>14, <1>f, <1>h DEF Unregister
<1>15. CASE Snapshot
  <2>1. head' = head \/ head' = Left(terminal_code) \/ head' = Right(completed_status)
    BY <1>15 DEF Snapshot
  <2>2. head' \in Heads
    BY <1>b, <1>e, <1>l, <1>r, <2>1
  <2>q. QED
    BY <1>15, <1>f, <2>2 DEF Snapshot
<1>16. CASE CompletedHead
  <2> DEFINE st == IF completed_status = 0 THEN answer.status ELSE completed_status
  <2>1. head' = Left(result) \/ head' = Right(st)
    BY <1>16 DEF CompletedHead
  <2>2. st \in Statuses
    BY <1>a, <1>b
  <2> HIDE DEF st
  <2>3. head' \in Heads
    BY <1>b, <1>l, <1>r, <2>1, <2>2
  <2>q. QED
    BY <1>16, <1>f, <2>3 DEF CompletedHead
<1>17. CASE Throw
  BY <1>17, <1>f, <1>h DEF Throw
<1>u. CASE UNCHANGED vars
  BY <1>u, <1>e, <1>f
<1> HIDE DEF vars, bufferVars, readyVars, endVars, curlVars, reactorVars, userVars, quiet, Goto, Return
<1>q. QED
  BY <1>1, <1>2, <1>3, <1>4, <1>5, <1>6, <1>7, <1>8, <1>9, <1>10, <1>11,
     <1>12, <1>13, <1>14, <1>15, <1>16, <1>17, <1>u
  DEF HeadNext, Receive

-----------------------------------------------------------------------------
LEMMA InitIInv == ResponseInit => IInv
<1> SUFFICES ASSUME ResponseInit PROVE IInv
  OBVIOUS
<1>0. Init /\ writing = 0
  BY DEF ResponseInit
<1>1. 0 \in {0} \cup {a.status : a \in Answers} /\ <<>> \in Seq(Lines) /\ 0 \in 0..MaxBlocks
  BY HeadersAssumption
<1>n. Nothing.tag = "none" /\ Nothing.lines = <<>>
  BY DEF Nothing
<1>2. TypeOK
  BY <1>0, <1>1, <1>n DEF Init, TypeOK, Codes
<1>3. RestType
  BY <1>0, <1>1 DEF Init, RestType, Nothing, Codes, Statuses
<1>4. OpenInv
  BY <1>0, HeadersAssumption DEF Init, OpenInv
<1>5. BlockInv
  BY <1>0 DEF Init, BlockInv, Settled
<1>6. WaitInv /\ EndInv
  BY <1>0 DEF Init, WaitInv, EndInv
<1>7. HeadInv
  BY <1>0, <1>n DEF Init, HeadInv
<1>8. WriteInv
  BY <1>0 DEF WriteInv
<1>q. QED
  BY <1>2, <1>3, <1>4, <1>5, <1>6, <1>7, <1>8 DEF IInv

LEMMA Invariance == ResponseSpec => []IInv
<1>1. IInv /\ [ResponseNext]_allVars => IInv'
  <2> SUFFICES ASSUME IInv, [ResponseNext]_allVars PROVE IInv'
    OBVIOUS
  <2>1. [HeadNext]_vars /\ WriteInv'
    BY Projection DEF IInv
  <2>q. QED
    BY <2>1, TypeStep, RestStep, OpenStep, BlockStep, WaitStep, EndStep, GivenStep DEF IInv
<1>2. ResponseSpec => ResponseInit /\ [][ResponseNext]_allVars
  BY PTL DEF ResponseSpec
<1>q. QED
  BY InitIInv, <1>1, <1>2, PTL

(* The buffer a snapshot copies and the head a caller was given are each    *)
(* one whole block of the response, behind its own status line, and the     *)
(* wait's pointer is fired or freed once: header_callback against           *)
(* header_data_cancel_wait, for any number of blocks, fields and trailers.  *)
THEOREM BlocksNeverMixed == ResponseSpec => []NeverMixed
<1>1. IInv => NeverMixed
  BY DEF IInv, NeverMixed, BlockInv, HeadInv
<1>q. QED
  BY <1>1, Invariance, PTL

(* A head that awaitResponseHead or takeBufferedResponse gave stays the     *)
(* last one of its transfer, and a failure is the transfer's own result,    *)
(* whatever libcurl goes on to do.                                          *)
THEOREM HeadStaysFinal == ResponseSpec => []HeadIsFinal
<1>1. IInv => HeadIsFinal
  BY DEF IInv, HeadIsFinal, HeadInv
<1>q. QED
  BY <1>1, Invariance, PTL
-----------------------------------------------------------------------------
(* The body *)

Capped(n) == IF n > Int64Max THEN Int64Max ELSE n

(* Types, and the buffer: room for the body so far and its NUL.             *)
BufferInv ==
  /\ len \in Nat /\ sent \in Nat /\ capacity \in 0..SizeMax /\ held \in BOOLEAN
  /\ left \in Nat /\ writing \in {0} \cup ChunkSizes /\ overrun = FALSE
  /\ held => /\ len < capacity /\ len <= MaxLen
             /\ len = IF mode = "buffered" THEN sent ELSE 0

(* A chunk in the write callback is one of those left; none is there when   *)
(* the transfer ends, and success means that none is left.                  *)
WholeInv ==
  /\ writing # 0 => left > 0
  /\ phase # "running" => writing = 0 /\ (result = "ok" => left = 0)

(* add_bytes counts a stream as it goes, and curl_metrics_finish leaves     *)
(* that alone; what the caller was given is final.                          *)
ReportInv ==
  /\ mode = "stream" => download_progress = Capped(sent)
  /\ body # NoReport => /\ phase # "running" /\ result = "ok"
                        /\ body = sent /\ body <= MaxLen
  /\ mode = "stream" /\ report # NoReport =>
       phase # "running" /\ report = Capped(sent)

BodyInv == BufferInv /\ WholeInv /\ ReportInv

(* A set of naturals has a least element. *)
LEMMA LeastNatural ==
  ASSUME NEW T, T \subseteq Nat, T # {}
  PROVE \E x \in T : \A y \in T : x <= y
<1> DEFINE R == OpToRel(<, Nat)
<1>1. IsWellFoundedOn(R, Nat)
  BY NatLessThanWellFounded, Zenon
<1>2. \A x, y \in Nat : <<x, y>> \in R <=> x < y
  BY DEF OpToRel
<1> HIDE DEF R
<1>3. PICK x \in T : \A y \in T : ~ (<<y, x>> \in R)
  BY <1>1, WFMin
<1>4. ASSUME NEW y \in T PROVE x <= y
  <2>1. x \in Nat /\ y \in Nat
    OBVIOUS
  <2>2. ~ (<<y, x>> \in R)
    BY <1>3
  <2>3. ~ (y < x)
    BY <1>2, <2>1, <2>2, Zenon
  <2>q. QED
    BY <2>1, <2>3
<1>q. QED
  BY <1>4

(* A set of sizes that holds with a size the one below it holds them all.   *)
LEMMA Descent ==
  ASSUME NEW T, T \subseteq 1..SizeMax, SizeMax \in T,
         \A k \in T : k > 1 => k - 1 \in T
  PROVE  1 \in T
<1>0. SizeMax \in Nat
  BY ResponseAssumption DEF SizeMax
<1>1. T \subseteq Nat /\ T # {}
  BY <1>0
<1>2. PICK k \in T : \A y \in T : k <= y
  BY <1>1, LeastNatural
<1>3. k \in Nat /\ k >= 1
  BY <1>0
<1>4. ~ (k > 1)
  BY <1>2, <1>3
<1>q. QED
  BY <1>3, <1>4

(* One turn of the doubling loop from capacity c, with f for the rest. *)
Turn(f, c, need) ==
  IF c >= need THEN c ELSE IF c > SizeMax \div 2 THEN need ELSE f[2 * c]

(* The doubling loop ends, with enough for what is needed and no more than  *)
(* a size_t holds.                                                          *)
LEMMA GrownFacts ==
  ASSUME NEW size \in 1..SizeMax, NEW need \in 1..SizeMax
  PROVE  Grown(size, need) \in need..SizeMax
<1>0. SizeMax \in Nat /\ need \in Nat /\ SizeMax >= 1
  BY ResponseAssumption DEF SizeMax
<1>d. \A c \in 1..SizeMax : ~ (c > SizeMax \div 2) => 2 * c \in (c + 1)..SizeMax
  BY <1>0
<1>1. \E f : f = [c \in 1..SizeMax |-> Turn(f, c, need)]
  <2> DEFINE Good(k, f) == /\ f \in [k..SizeMax -> 1..SizeMax]
                           /\ \A c \in k..SizeMax : f[c] = Turn(f, c, need)
             T == {k \in 1..SizeMax : \E f \in [k..SizeMax -> 1..SizeMax] : Good(k, f)}
  <2>1. SizeMax \in T
    <3> DEFINE f == [c \in SizeMax..SizeMax |-> SizeMax]
    <3>1. f \in [SizeMax..SizeMax -> 1..SizeMax]
      BY <1>0
    <3>2. \A c \in SizeMax..SizeMax : f[c] = Turn(f, c, need)
      BY <1>0 DEF Turn
    <3> HIDE DEF f
    <3>q. QED
      BY <1>0, <3>1, <3>2
  <2>2. ASSUME NEW k \in T, k > 1 PROVE k - 1 \in T
    <3>1. PICK f \in [k..SizeMax -> 1..SizeMax] : \A c \in k..SizeMax : f[c] = Turn(f, c, need)
      OBVIOUS
    <3>2. k \in 1..SizeMax /\ k \in Nat
      BY <1>0
    <3> DEFINE j == k - 1
               g == [c \in j..SizeMax |-> IF c = j THEN Turn(f, j, need) ELSE f[c]]
    <3>3. j \in 1..SizeMax /\ j + 1 = k /\ j \in Nat
      BY <1>0, <2>2, <3>2
    <3> HIDE DEF j
    <3>4. Turn(f, j, need) \in 1..SizeMax
      <4>1. ~ (j > SizeMax \div 2) => f[2 * j] \in 1..SizeMax
        BY <1>d, <3>1, <3>3
      <4>q. QED
        BY <4>1, <3>3 DEF Turn
    <3>5. g \in [j..SizeMax -> 1..SizeMax]
      BY <1>0, <3>1, <3>3, <3>4
    <3>6. ASSUME NEW c \in j..SizeMax PROVE g[c] = Turn(g, c, need)
      <4>1. c \in 1..SizeMax /\ c \in Nat
        BY <1>0, <3>3
      <4>2. ~ (c > SizeMax \div 2) => g[2 * c] = f[2 * c]
        <5> SUFFICES ASSUME ~ (c > SizeMax \div 2) PROVE g[2 * c] = f[2 * c]
          OBVIOUS
        <5>1. 2 * c \in (c + 1)..SizeMax
          BY <1>d, <4>1
        <5>2. 2 * c \in j..SizeMax /\ 2 * c # j
          BY <1>0, <3>3, <4>1, <5>1
        <5>q. QED
          BY <5>2
      <4>3. Turn(g, c, need) = Turn(f, c, need)
        BY <4>2 DEF Turn
      <4>4. CASE c = j
        BY <4>3, <4>4
      <4>5. CASE c # j
        <5>1. c \in k..SizeMax
          BY <1>0, <3>2, <3>3, <4>5
        <5>q. QED
          BY <3>1, <4>3, <4>5, <5>1
      <4>q. QED
        BY <4>4, <4>5
    <3> HIDE DEF g
    <3>7. j \in T
      BY <3>3, <3>5, <3>6
    <3>q. QED
      BY <3>7 DEF j
  <2>3. 1 \in T
    <3>1. T \subseteq 1..SizeMax
      OBVIOUS
    <3> HIDE DEF T
    <3>q. QED
      BY <2>1, <2>2, <3>1, Descent
  <2>4. PICK f \in [1..SizeMax -> 1..SizeMax] : \A c \in 1..SizeMax : f[c] = Turn(f, c, need)
    BY <2>3
  <2>5. f = [c \in 1..SizeMax |-> Turn(f, c, need)]
    BY <2>4
  <2>q. QED
    BY <2>5
<1> DEFINE F == CHOOSE f : f = [c \in 1..SizeMax |-> Turn(f, c, need)]
<1>2. F = [c \in 1..SizeMax |-> Turn(F, c, need)]
  BY <1>1
<1>3. Grown(size, need) = F[size]
  <2>1. size # 0
    OBVIOUS
  <2>q. QED
    BY <2>1, Zenon DEF Grown, Turn
<1> HIDE DEF F
<1>4. \A c \in 1..SizeMax : F[c] = Turn(F, c, need)
  BY <1>2
<1>5. \A c \in 1..SizeMax : F[c] \in need..SizeMax
  <2> DEFINE T == {k \in 1..SizeMax : \A c \in k..SizeMax : F[c] \in need..SizeMax}
  <2>1. SizeMax \in T
    BY <1>0, <1>4 DEF Turn
  <2>2. ASSUME NEW k \in T, k > 1 PROVE k - 1 \in T
    <3> DEFINE j == k - 1
    <3>1. j \in 1..SizeMax /\ j + 1 = k /\ j \in Nat
      BY <1>0, <2>2
    <3>2. \A c \in k..SizeMax : F[c] \in need..SizeMax
      OBVIOUS
    <3> HIDE DEF j
    <3>3. F[j] \in need..SizeMax
      <4>1. ~ (j > SizeMax \div 2) => F[2 * j] \in need..SizeMax
        BY <1>d, <3>1, <3>2
      <4>q. QED
        BY <1>0, <1>4, <3>1, <4>1 DEF Turn
    <3>4. \A c \in j..SizeMax : c = j \/ c \in k..SizeMax
      BY <1>0, <3>1
    <3>5. j \in T
      BY <3>1, <3>2, <3>3, <3>4
    <3>q. QED
      BY <3>5 DEF j
  <2>3. 1 \in T
    <3>1. T \subseteq 1..SizeMax
      OBVIOUS
    <3> HIDE DEF T
    <3>q. QED
      BY <2>1, <2>2, <3>1, Descent
  <2>q. QED
    BY <2>3
<1>q. QED
  BY <1>3, <1>5

(* Counting on from a capped sum gives the capped sum of both. *)
LEMMA SaturatingFacts ==
  ASSUME NEW m \in Nat, NEW n \in Nat
  PROVE  Saturating(Capped(m), n) = Capped(m + n)
BY ResponseAssumption DEF Saturating, Capped

(* Every step of a call keeps its body whole and its counter true. *)
LEMMA BodyStep == IInv /\ BodyInv /\ [ResponseNext]_allVars => BodyInv'
<1> SUFFICES ASSUME IInv, BodyInv, [ResponseNext]_allVars PROVE BodyInv'
  OBVIOUS
<1>i. /\ phase \in {"running", "result", "completed", "woken"}
      /\ mode \in {"stream", "buffered"} /\ (phase = "running" <=> result = "none")
      /\ writing # 0 => mode = "stream"
  BY DEF IInv, TypeOK, EndInv, WriteInv
<1>a. /\ Word \in Nat /\ Word >= 2 /\ MaxLen \in 0..SizeMax /\ Int64Max \in Nat
      /\ ChunkSizes \subseteq 1..SizeMax /\ SizeMax = Word - 1
  BY ResponseAssumption DEF SizeMax
<1>f. ASSUME UNCHANGED <<stringVars, writing, left, sent, download_progress, body, report, mode>>,
             UNCHANGED <<phase, result>> \/ (phase # "running" /\ phase' # "running" /\ UNCHANGED result)
      PROVE  BodyInv'
  BY <1>f DEF BodyInv, BufferInv, WholeInv, ReportInv, stringVars, Capped
<1>1. CASE ReceiveHead
  <2>0. \A line, ok : HeaderCallback(line, ok) => UNCHANGED <<reactorVars, userVars>>
    BY DEF HeaderCallback
  <2>1. UNCHANGED <<reactorVars, userVars>>
    BY <1>1, <2>0 DEF ReceiveHead, Receive, StatusLine, Field, BlankLine, Trailer
  <2>q. QED
    BY <1>1, <1>f, <2>1 DEF ReceiveHead, bodyVars, ringVars, reactorVars, userVars
<1>2. ASSUME NEW n \in ChunkSizes, StreamWriteBegins(n) PROVE BodyInv'
  <2>1. /\ UNCHANGED <<stringVars, left, sent, download_progress, body, report, mode, phase, result>>
        /\ phase = "running" /\ writing' = n /\ left > 0
    BY <1>2 DEF StreamWriteBegins, BodyStarts, Delivering, reactorVars, userVars
  <2>q. QED
    BY <2>1 DEF BodyInv, BufferInv, WholeInv, ReportInv, stringVars, Capped
<1>3. ASSUME NEW n \in ChunkSizes, NEW ok \in BOOLEAN, BufferWrite(n, ok) PROVE BodyInv'
  <2> DEFINE newLen == Wrap(len + n)
             need == Wrap(newLen + 1)
  <2>1. /\ UNCHANGED <<held, writing, download_progress, body, report, mode, phase, result>>
        /\ phase = "running" /\ mode = "buffered" /\ left > 0
    BY <1>3 DEF BufferWrite, Delivering, reactorVars, userVars, ringVars
  <2>2. CASE UNCHANGED <<capacity, overrun, len, sent, left>>
    BY <2>1, <2>2 DEF BodyInv, BufferInv, WholeInv, ReportInv, Capped
  <2>3. CASE ~ UNCHANGED <<capacity, overrun, len, sent, left>>
    <3>1. /\ held /\ n <= SizeMax - len /\ newLen <= MaxLen /\ newLen # SizeMax
          /\ capacity' = IF need > capacity THEN Grown(capacity, need) ELSE capacity
          /\ overrun' = (overrun \/ newLen + 1 > capacity')
          /\ len' = newLen /\ sent' = sent + n /\ left' = left - 1
      BY <1>3, <2>3 DEF BufferWrite, Terminable
    <3>2. /\ n \in 1..SizeMax /\ len \in Nat /\ capacity \in 1..SizeMax /\ len = sent
          /\ sent \in Nat /\ left \in Nat /\ overrun = FALSE
      BY <1>a, <2>1, <3>1 DEF BodyInv, BufferInv
    <3>3. newLen = len + n /\ newLen \in Nat
      BY <1>a, <3>1, <3>2 DEF Wrap
    <3>4. need = newLen + 1 /\ need \in 1..SizeMax
      <4> HIDE DEF newLen
      <4>1. newLen + 1 < Word
        BY <1>a, <3>1, <3>3
      <4>q. QED
        BY <1>a, <3>3, <4>1 DEF Wrap
    <3> HIDE DEF newLen, need
    <3>5. capacity' \in need..SizeMax
      <4>1. Grown(capacity, need) \in need..SizeMax
        BY <3>2, <3>4, GrownFacts
      <4>q. QED
        BY <1>a, <3>1, <3>2, <3>4, <4>1
    <3>6. BufferInv'
      <4>0. newLen + 1 <= capacity' /\ capacity' \in Nat /\ capacity' <= SizeMax
        BY <1>a, <3>3, <3>4, <3>5
      <4>1. overrun' = FALSE /\ len' < capacity' /\ capacity' \in 0..SizeMax
        <5>1. ~ (newLen + 1 > capacity')
          BY <3>3, <4>0
        <5>2. overrun' = FALSE
          BY <3>1, <3>2, <5>1
        <5>3. len' < capacity' /\ capacity' \in 0..SizeMax
          BY <1>a, <3>1, <3>3, <4>0
        <5>q. QED
          BY <5>2, <5>3
      <4>2. len' \in Nat /\ sent' \in Nat /\ left' \in Nat /\ len' = sent' /\ len' <= MaxLen
        BY <1>a, <2>1, <3>1, <3>2, <3>3
      <4>q. QED
        BY <2>1, <4>1, <4>2 DEF BodyInv, BufferInv
    <3>q. QED
      BY <1>i, <2>1, <3>6 DEF BodyInv, WholeInv, ReportInv
  <2>q. QED
    BY <2>2, <2>3
<1>4. CASE Complete /\ UNCHANGED bodyVars
  <2>1. UNCHANGED userVars
    BY <1>4 DEF Complete, MarkComplete, WakeResult, Fire
  <2>2. UNCHANGED <<phase, result>> \/ (phase # "running" /\ phase' # "running" /\ UNCHANGED result)
    BY <1>4 DEF Complete, MarkComplete, WakeResult, Fire, reactorVars
  <2>q. QED
    BY <1>4, <1>f, <2>1, <2>2 DEF bodyVars, ringVars, userVars
<1>5. ASSUME NEW ok \in BOOLEAN, NEW paused \in BOOLEAN, StreamWrite(ok, paused)
      PROVE BodyInv'
  <2>1. /\ UNCHANGED <<stringVars, body, report, mode, phase, result>>
        /\ writing # 0 /\ writing' = 0 /\ phase = "running" /\ mode = "stream"
    BY <1>5, <1>i DEF StreamWrite, reactorVars, userVars, BodyInv, WholeInv
  <2>2. CASE UNCHANGED <<left, sent, download_progress>>
    BY <2>1, <2>2 DEF BodyInv, BufferInv, WholeInv, ReportInv, stringVars, Capped
  <2>3. CASE ~ UNCHANGED <<left, sent, download_progress>>
    <3>1. /\ download_progress' = Saturating(download_progress, writing)
          /\ sent' = sent + writing /\ left' = left - 1
      BY <1>5, <2>3 DEF StreamWrite
    <3>2. left > 0
      BY <2>1 DEF BodyInv, WholeInv
    <3>3. writing \in Nat /\ sent \in Nat /\ left \in Nat
      BY <1>a DEF BodyInv, BufferInv
    <3>4. download_progress' = Capped(sent')
      BY <2>1, <3>1, <3>3, SaturatingFacts DEF BodyInv, ReportInv
    <3>5. sent' \in Nat /\ left' \in Nat
      BY <3>1, <3>2, <3>3
    <3>q. QED
      BY <2>1, <3>4, <3>5 DEF BodyInv, BufferInv, WholeInv, ReportInv, stringVars, Capped
  <2>q. QED
    BY <2>2, <2>3
<1>6. CASE HeadStep(Wait \/ Woken \/ Unregister \/ Snapshot) \/ HeadStep(mode = "stream" /\ CompletedHead)
           \/ HeadStep(Interrupt \/ Throw)
  <2>1. UNCHANGED <<mode, phase, result>>
    BY <1>6 DEF HeadStep, Wait, Woken, Unregister, Snapshot, CompletedHead, Interrupt, Throw,
                quiet, reactorVars, Goto, Return
  <2>q. QED
    BY <1>6, <1>f, <2>1 DEF HeadStep
<1>7. CASE TakeBuffered
  <2>1. /\ UNCHANGED <<overrun, writing, left, sent, download_progress, mode, phase, result>>
        /\ mode = "buffered" /\ phase = "woken" /\ (head'.tag = "right" => result = "ok")
    BY <1>7 DEF TakeBuffered, CompletedHead, Return, Left, Nothing, quiet, reactorVars, ringVars
  <2>2. CASE head'.tag # "right"
    BY <1>7, <1>f, <2>1, <2>2 DEF TakeBuffered, stringVars
  <2>3. CASE head'.tag = "right"
    <3>1. /\ held /\ held' = FALSE /\ body' = len /\ len' = 0 /\ capacity' = 0
          /\ report' = download_progress
      BY <1>7, <2>3 DEF TakeBuffered
    <3>2. 0 \in 0..SizeMax
      BY <1>a
    <3>q. QED
      BY <2>1, <2>3, <3>1, <3>2 DEF BodyInv, BufferInv, WholeInv, ReportInv, Capped
  <2>q. QED
    BY <2>2, <2>3
<1>8. ASSUME NEW c \in Codes, FinishWithMetrics(c) PROVE BodyInv'
  <2>1. /\ UNCHANGED <<stringVars, writing, left, sent, body, report, mode>>
        /\ phase = "running" /\ phase' # "running" /\ result' = c
        /\ writing = 0 /\ (c = "ok" => left = 0)
    BY <1>8 DEF FinishWithMetrics, Finish, userVars, ringVars
  <2>2. mode = "stream" => download_progress' = download_progress
    BY <1>8 DEF FinishWithMetrics, StoredSizes
  <2>q. QED
    BY <2>1, <2>2 DEF BodyInv, BufferInv, WholeInv, ReportInv, stringVars, Capped
<1>9. CASE Completion
  <2>1. /\ UNCHANGED <<stringVars, writing, left, sent, download_progress, body, mode, phase, result>>
        /\ phase = "woken" /\ report' = download_progress
    BY <1>9 DEF Completion, ringVars, vars, reactorVars, userVars
  <2>q. QED
    BY <2>1 DEF BodyInv, BufferInv, WholeInv, ReportInv, stringVars, Capped
<1>10. CASE ReadChunk \/ Resume \/ UNCHANGED allVars
  BY <1>10, <1>f DEF ReadChunk, Resume, allVars, vars, reactorVars, userVars, bodyVars, ringVars
<1>q. QED
  BY <1>1, <1>2, <1>3, <1>4, <1>5, <1>6, <1>7, <1>8, <1>9, <1>10
  DEF ResponseNext, BodyArrives, ReactorStep, CallStep

(* A successful buffered call gives the caller every byte of its body, no   *)
(* chunk is written past the memory simple_string_writefunc has grown, and  *)
(* a completed streaming call reports the bytes that arrived or INT64_MAX   *)
(* whatever size libcurl reports, for every width of size_t and every       *)
(* sequence of chunks.                                                      *)
THEOREM BodyReachesCaller == ResponseSpec => []ResponseIsWhole
<1>1. ResponseInit => BodyInv
  <2> SUFFICES ASSUME ResponseInit PROVE BodyInv
    OBVIOUS
  <2>1. /\ len = 0 /\ capacity = FirstCapacity /\ held = TRUE /\ overrun = FALSE /\ writing = 0
        /\ left \in 0..MaxChunks /\ sent = 0 /\ download_progress = 0
        /\ body = NoReport /\ report = NoReport /\ phase = "running"
    BY DEF ResponseInit, Init
  <2>2. FirstCapacity \in 1..SizeMax
    BY ResponseAssumption DEF FirstCapacity, SizeMax
  <2>3. left \in Nat /\ SizeMax \in Nat /\ MaxLen \in Nat /\ Int64Max \in Nat
    BY <2>1, ResponseAssumption DEF SizeMax
  <2>4. BufferInv
    BY <2>1, <2>2, <2>3 DEF BufferInv
  <2>q. QED
    BY <2>1, <2>3, <2>4 DEF BodyInv, WholeInv, ReportInv, Capped
<1>2. ResponseSpec => ResponseInit /\ [][ResponseNext]_allVars
  BY PTL DEF ResponseSpec
<1>3. ResponseSpec => []BodyInv
  BY <1>1, <1>2, BodyStep, Invariance, PTL
<1>4. BodyInv => ResponseIsWhole
  BY DEF BodyInv, BufferInv, WholeInv, ReportInv, ResponseIsWhole, Capped
<1>q. QED
  BY <1>3, <1>4, PTL
=============================================================================
