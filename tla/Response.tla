------------------------------ MODULE Response ------------------------------
(***************************************************************************)
(* A whole response: the head of Headers together with its body, which a   *)
(* buffered call collects in a simple_string_t (cbits/simple_string.c) and *)
(* a streaming call in the ring of cbits/stream.c, and with the download   *)
(* counter of cbits/curl_metrics.c that both report at the end.  The ring  *)
(* is reduced to its length; DownloadStream has the protocol in full.      *)
(***************************************************************************)
EXTENDS Headers

CONSTANTS
  Word,          \* SIZE_MAX + 1
  Initial,       \* first capacity of a buffer (4096)
  MaxLen,        \* max_len of simple_string_create
  Int64Max,
  RingCapacity,  \* bufferedChunks of the StreamConfig
  ChunkSizes,    \* sizes libcurl passes to the write callback
  MaxChunks,     \* chunks of one body
  Uploading      \* the request has a streamed body too

ASSUME ResponseAssumption ==
  /\ {Word, Initial, RingCapacity} \subseteq Nat \ {0} /\ Initial < Word
  /\ MaxLen \in 0..(Word - 1) /\ Int64Max \in Nat /\ MaxChunks \in Nat
  /\ ChunkSizes \subseteq 1..(Word - 1) /\ Uploading \in BOOLEAN

VARIABLES
  (* simple_string_t of a buffered call *)
  len, capacity, held,    \* held: the string still has its memory
  overrun,                \* a write went past the memory
  (* hcurl_stream_t of a streaming call *)
  count, closed,
  curlPaused,             \* libcurl receives nothing
  writing,                \* size of the chunk inside the write callback
  (* the transfer *)
  left,                   \* chunks the server has still to send
  sent,                   \* bytes the write callback has accepted
  download_progress,
  body, report            \* body and metric the caller was given

stringVars == <<len, capacity, held, overrun>>
ringVars   == <<count, closed, curlPaused, writing>>
bodyVars   == <<stringVars, ringVars, left, sent, download_progress, body, report>>
allVars    == <<vars, bodyVars>>

SizeMax == Word - 1
NoReport == Word
Wrap(n) == n % Word

(* simple_string_create; the buffer is never larger than max_len + 1. *)
FirstCapacity ==
  IF MaxLen # SizeMax /\ Initial > MaxLen + 1 THEN MaxLen + 1 ELSE Initial

ResponseInit ==
  /\ Init
  /\ len = 0 /\ capacity = FirstCapacity /\ held = TRUE /\ overrun = FALSE
  /\ count = 0 /\ closed = FALSE /\ curlPaused = FALSE /\ writing = 0
  /\ left \in 0..MaxChunks /\ sent = 0 /\ download_progress = 0
  /\ body = NoReport /\ report = NoReport

-----------------------------------------------------------------------------
(* simple_string_writefunc *)

(* The terminating NUL needs a byte too; the mutant forgets that this sum   *)
(* may be 2^64.                                                             *)
AlwaysTerminable(newLen) == TRUE
Terminable(newLen) == newLen # SizeMax

(* The doubling loop, which takes the exact size when doubling overflows. *)
Grown(size, need) ==
  LET doubled[c \in 1..SizeMax] ==
        IF c >= need THEN c
        ELSE IF c > SizeMax \div 2 THEN need ELSE doubled[2 * c]
  IN doubled[IF size = 0 THEN Initial ELSE size]

(* A chunk of n bytes, for which realloc finds memory (ok) or does not. *)
BufferWrite(n, ok) ==
  LET newLen == Wrap(len + n)
      need == Wrap(newLen + 1)
      grows == need > capacity
  IN /\ Delivering /\ at = "body" /\ mode = "buffered" /\ left > 0
     /\ IF /\ held /\ n <= SizeMax - len /\ newLen <= MaxLen
           /\ Terminable(newLen) /\ (grows => ok)
        THEN /\ capacity' = IF grows THEN Grown(capacity, need) ELSE capacity
             /\ overrun' = (overrun \/ newLen + 1 > capacity')
             /\ len' = newLen
             /\ sent' = sent + n /\ left' = left - 1
             /\ UNCHANGED refused
        ELSE /\ refused' = TRUE
             /\ UNCHANGED <<capacity, overrun, len, sent, left>>
     /\ UNCHANGED <<bufferVars, readyVars, endVars, block, answer, at, following,
                    lines, reactorVars, wake, userVars, owner, held, ringVars,
                    download_progress, body, report>>

-----------------------------------------------------------------------------
(* hcurl_download_write_callback, and the reader's side of the ring *)

(* First the head is published and its waiter fired ... *)
StreamWriteBegins(n) ==
  /\ BodyStarts
  /\ left > 0 /\ ~curlPaused /\ writing = 0
  /\ writing' = n
  /\ UNCHANGED <<stringVars, count, closed, curlPaused, left, sent,
                 download_progress, body, report>>

(* add_bytes stops at INT64_MAX; the mutant wraps around it. *)
Wrapping(total, n) == (total + n) % (Int64Max + 1)
Saturating(total, n) ==
  LET increment == IF n > Int64Max THEN Int64Max ELSE n
  IN IF total > Int64Max - increment THEN Int64Max ELSE total + increment

(* ... then the chunk is refused, postponed or stored.  ok: malloc finds    *)
(* memory; paused: curl_easy_pause succeeds on a ring that is now full.     *)
StreamWrite(ok, paused) ==
  /\ writing # 0 /\ ~wake
  /\ writing' = 0
  /\ IF closed \/ (count < RingCapacity /\ ~ok)
     THEN refused' = TRUE
          /\ UNCHANGED <<count, curlPaused, left, sent, download_progress>>
     ELSE IF count = RingCapacity
     THEN curlPaused' = TRUE
          /\ UNCHANGED <<refused, count, left, sent, download_progress>>
     ELSE /\ count' = count + 1
          /\ download_progress' = Saturating(download_progress, writing)
          /\ sent' = sent + writing /\ left' = left - 1
          /\ curlPaused' = (count' = RingCapacity /\ paused)
          /\ refused' = (count' = RingCapacity /\ ~paused)
  /\ UNCHANGED <<bufferVars, readyVars, endVars, block, answer, at, following,
                 lines, reactorVars, wake, userVars, owner, stringVars, closed,
                 body, report>>

(* readBody, which only a caller that has the response can call. *)
ReadChunk ==
  /\ mode = "stream" /\ head.tag = "right" /\ count > 0
  /\ count' = count - 1
  /\ UNCHANGED <<vars, stringVars, closed, curlPaused, writing, left, sent,
                 download_progress, body, report>>

(* RESUME, for a reader that made room or for the upload of the request,    *)
(* whose CURLPAUSE_CONT continues both directions.                          *)
Resume ==
  /\ count < RingCapacity \/ Uploading
  /\ curlPaused /\ phase = "running" /\ ~wake
  /\ curlPaused' = FALSE
  /\ UNCHANGED <<vars, stringVars, count, closed, writing, left, sent,
                 download_progress, body, report>>

-----------------------------------------------------------------------------
(* The end of the transfer and of the call *)

(* Lines come and the transfer ends outside the write callback; success     *)
(* needs the whole body.                                                    *)
ReceiveHead == writing = 0 /\ ~curlPaused /\ Receive /\ UNCHANGED bodyVars

(* curl_metrics_finish leaves alone the counter of a streamed download and  *)
(* stores for any other the size libcurl reports: counted before the        *)
(* content was decoded, 0 when libcurl cannot tell, at most INT64_MAX.  The *)
(* mutant always stores it.                                                 *)
StoredAlways == 0..Int64Max
StoredSizes == IF mode = "stream" THEN {download_progress} ELSE 0..Int64Max

FinishWithMetrics(code) ==
  /\ writing = 0 /\ (code = "ok" => left = 0)
  /\ Finish(code)
  /\ download_progress' \in StoredSizes
  /\ UNCHANGED <<stringVars, ringVars, left, sent, body, report>>

(* A streaming call that throws closes its stream, which drops the ring. *)
HeadStep(A) ==
  /\ A
  /\ closed' = (closed \/ (mode = "stream" /\ head'.tag = "thrown"))
  /\ count' = IF closed' THEN 0 ELSE count
  /\ UNCHANGED <<stringVars, curlPaused, writing, left, sent,
                 download_progress, body, report>>

(* takeBufferedResponse: on success the body, taken out of the string, and  *)
(* the metrics come with the head.                                          *)
TakeBuffered ==
  /\ mode = "buffered" /\ CompletedHead
  /\ IF head'.tag = "right"
     THEN /\ held /\ held' = FALSE
          /\ body' = len /\ len' = 0 /\ capacity' = 0
          /\ report' = download_progress
     ELSE UNCHANGED <<held, len, capacity, body, report>>
  /\ UNCHANGED <<overrun, ringVars, left, sent, download_progress>>

(* completion of a StreamingResponse: awaitCompletion, getTransferResult. *)
Completion ==
  /\ mode = "stream" /\ head.tag = "right" /\ phase = "woken" /\ result = "ok"
  /\ report' = download_progress
  /\ UNCHANGED <<vars, stringVars, ringVars, left, sent, download_progress, body>>

-----------------------------------------------------------------------------
BodyArrives ==
  \E n \in ChunkSizes : StreamWriteBegins(n) \/ (\E ok \in BOOLEAN : BufferWrite(n, ok))

ReactorStep ==
  \/ Complete /\ UNCHANGED bodyVars
  \/ \E ok, paused \in BOOLEAN : StreamWrite(ok, paused)

CallStep ==
  \/ HeadStep(Wait \/ Woken \/ Unregister \/ Snapshot)
  \/ HeadStep(mode = "stream" /\ CompletedHead)
  \/ TakeBuffered

ResponseNext ==
  \/ ReceiveHead \/ BodyArrives \/ ReactorStep \/ CallStep
  \/ (\E c \in Codes : FinishWithMetrics(c))
  \/ HeadStep(Interrupt \/ Throw) \/ ReadChunk \/ Resume \/ Completion

(* Threads that can run do; nothing is assumed of the server. *)
ResponseSpec ==
  /\ ResponseInit /\ [][ResponseNext]_allVars
  /\ WF_allVars(ReactorStep) /\ WF_allVars(CallStep)

(* ... and a server that sends all of its response while libcurl listens, a *)
(* caller that reads what it can, and a RESUME for the room it makes.       *)
ServedSpec ==
  /\ ResponseSpec
  /\ WF_allVars(ReceiveHead) /\ WF_allVars(BodyArrives)
  /\ WF_allVars(FinishWithMetrics("ok"))
  /\ WF_allVars(refused /\ FinishWithMetrics("error"))
  /\ WF_allVars(ReadChunk) /\ WF_allVars(Resume /\ count < RingCapacity)

-----------------------------------------------------------------------------
(* Properties *)

(* A successful buffered call gives the caller every byte of the body, and  *)
(* no chunk was written past the memory: simple_string_writefunc at the     *)
(* limits of size_t, where doubling and the terminating NUL overflow.  The  *)
(* download counter of a completed streaming call is the number of bytes it *)
(* could read, or INT64_MAX, however chunks were postponed and replayed and *)
(* whatever size libcurl itself reports at the end.                         *)
ResponseIsWhole ==
  /\ ~overrun /\ (held => len < capacity /\ len = (IF mode = "buffered" THEN sent ELSE 0))
  /\ body # NoReport => body = sent /\ body <= MaxLen /\ left = 0 /\ result = "ok"
  /\ mode = "stream" /\ report # NoReport =>
       report = IF sent > Int64Max THEN Int64Max ELSE sent

(* Response.hs:24: "A response whose body can be consumed before the        *)
(* transfer has finished", so a served call returns though the transfer     *)
(* waits for the body to be read (awaitResponseHead).                       *)
ServedCallReturns == <>(pc = "returned")
=============================================================================
