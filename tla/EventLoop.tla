----------------------------- MODULE EventLoop ------------------------------
(***************************************************************************)
(* The glue between libcurl and libuv, cbits/curl_uv.c: the poll handle of *)
(* each socket libcurl wants watched, its timer, and the teardown of the   *)
(* loop.  Everything runs on the agent thread; what makes it hard is that  *)
(* libcurl calls back while it is being driven, and that a handle is freed *)
(* only some turns of the loop after it was closed.                        *)
(*                                                                         *)
(* libcurl is external.  It keeps an entry, with the assigned pointer, for *)
(* each socket it has reported and not removed; old releases also drop one *)
(* silently.  A callback that fails makes it return an error, or, in old   *)
(* releases, is ignored.                                                   *)
(***************************************************************************)
EXTENDS Naturals, FiniteSets

CONSTANTS
  Sockets, NoSocket,  \* file descriptors, used again after a close
  Contexts, NoContext \* the memory of socket_context_t, and NULL

ASSUME EventLoopAssumption ==
  NoSocket \notin Sockets /\ NoContext \notin Contexts

VARIABLES
  handle,    \* socket_context_t: "free" | "open" | "closing" | "corrupt"
  fd,        \* context->socket_fd
  events,    \* what the poll handle is started for, {} when stopped
  timer,     \* the uv_timer_t: "off" | "armed" | "closing" | "closed"
  wanted,    \* libcurl: the events it asked for, {} without an entry
  assigned,  \* libcurl: the pointer of the entry (curl_multi_assign)
  deadline,  \* libcurl: a timeout it has asked for is outstanding
  unwatched, \* sockets whose last callback returned -1
  pc,        \* "loop" | "curl" | "shutdown" | "closing" | "closed"
  cause      \* in "curl": the context whose event is handled

contextVars == <<handle, fd, events>>
curlVars    == <<wanted, assigned, deadline>>
vars == <<contextVars, timer, curlVars, unwatched, pc, cause>>

Events == {"in", "out"}
Actions == {"in", "out", "inout"}

Init ==
  /\ handle = [c \in Contexts |-> "free"]
  /\ fd = [c \in Contexts |-> NoSocket]
  /\ events = [c \in Contexts |-> {}]
  /\ timer = "off"
  /\ wanted = [s \in Sockets |-> {}] /\ assigned = [s \in Sockets |-> NoContext]
  /\ deadline = FALSE /\ unwatched = {}
  /\ pc = "loop" /\ cause = NoContext

-----------------------------------------------------------------------------
(* Contexts *)

(* uv_close; closing a handle twice, or one that is gone, is an abort. *)
Closed(c) == [handle EXCEPT ![c] = IF @ = "open" THEN "closing" ELSE "corrupt"]

(* destroy_socket_context asks uv_is_closing first. *)
Destroyed(c) == IF handle[c] = "closing" THEN handle ELSE Closed(c)

(* destroy_socket_context_cb, in a later turn of the loop. *)
FreeContext(c) ==
  /\ pc \in {"loop", "closing"} /\ handle[c] = "closing"
  /\ handle' = [handle EXCEPT ![c] = "free"]
  /\ fd' = [fd EXCEPT ![c] = NoSocket]
  /\ events' = [events EXCEPT ![c] = {}]
  /\ UNCHANGED <<timer, curlVars, unwatched, pc, cause>>

-----------------------------------------------------------------------------
(* libcurl is driven, and calls back *)

(* drive_multi_socket, for an event of a watched socket (socket_callback),  *)
(* for the timer (on_timeout) or from a message handler.                    *)
SocketEvent(c) ==
  /\ pc = "loop" /\ handle[c] = "open" /\ events[c] # {}
  /\ pc' = "curl" /\ cause' = c
  /\ UNCHANGED <<contextVars, timer, curlVars, unwatched>>

OnTimeout ==
  /\ pc = "loop" /\ timer = "armed"
  /\ timer' = "off" /\ deadline' = FALSE
  /\ pc' = "curl" /\ UNCHANGED cause
  /\ UNCHANGED <<contextVars, wanted, assigned, unwatched>>

ControlMessage ==
  /\ pc = "loop"
  /\ pc' = "curl" /\ UNCHANGED cause
  /\ UNCHANGED <<contextVars, timer, curlVars, unwatched>>

InCurl == pc \in {"curl", "shutdown"}

(* The events of an action; the mutant forgets that INOUT writes, too. *)
EventsNoInOut(action) == IF action = "out" THEN {"out"} ELSE {"in"}
EventsOf(action) ==
  (IF action # "in" THEN {"out"} ELSE {}) \cup (IF action # "out" THEN {"in"} ELSE {})

(* What libcurl means by it. *)
Meaning == [in |-> {"in"}, out |-> {"out"}, inout |-> {"in", "out"}]

(* The context of an entry is used again unless it is closing. *)
Reusable(c) == c # NoContext /\ handle[c] # "closing"

(* A socket is polled by one handle at a time (UV_EEXIST). *)
Polled(s) == \E c \in Contexts : handle[c] = "open" /\ fd[c] = s /\ events[c] # {}

(* new_socket_context; a closing one was not assigned and is destroyed. *)
NewContext(c, s, state) ==
  /\ handle[c] = "free"
  /\ handle' = [handle EXCEPT ![c] = state]
  /\ fd' = [fd EXCEPT ![c] = s]

(* curl_socket_function for IN, OUT and INOUT *)
WatchOk(s, action) ==
  /\ InCurl /\ wanted[s] # Meaning[action]
  /\ wanted' = [wanted EXCEPT ![s] = Meaning[action]]
  /\ unwatched' = unwatched \ {s}
  /\ \/ /\ Reusable(assigned[s])
        /\ events' = [events EXCEPT ![assigned[s]] = EventsOf(action)]
        /\ UNCHANGED <<handle, fd, assigned>>
     \/ /\ ~Reusable(assigned[s]) /\ ~Polled(s)
        /\ \E c \in Contexts :
             /\ NewContext(c, s, "open")
             /\ events' = [events EXCEPT ![c] = EventsOf(action)]
             /\ assigned' = [assigned EXCEPT ![s] = c]
  /\ UNCHANGED <<timer, deadline, pc, cause>>

(* -1: nothing has changed, a new context could not be assigned, or it was  *)
(* and uv_poll_start failed.                                                *)
WatchFails(s, action) ==
  /\ InCurl /\ wanted[s] # Meaning[action]
  /\ wanted' = [wanted EXCEPT ![s] = Meaning[action]]
  /\ unwatched' = unwatched \cup {s}
  /\ \/ UNCHANGED <<handle, fd, assigned>>
     \/ /\ ~Reusable(assigned[s]) /\ ~Polled(s)
        /\ \E c \in Contexts :
             \/ NewContext(c, s, "closing") /\ UNCHANGED assigned
             \/ NewContext(c, s, "open") /\ assigned' = [assigned EXCEPT ![s] = c]
  /\ UNCHANGED <<events, timer, deadline, pc, cause>>

(* curl_socket_function for REMOVE; libcurl deletes the entry. *)
Unwatch(s) ==
  /\ InCurl /\ wanted[s] # {}
  /\ LET c == assigned[s] IN
     /\ handle' = IF c = NoContext THEN handle ELSE Destroyed(c)
     /\ events' = IF c = NoContext THEN events ELSE [events EXCEPT ![c] = {}]
  /\ wanted' = [wanted EXCEPT ![s] = {}]
  /\ assigned' = [assigned EXCEPT ![s] = NoContext]
  /\ unwatched' = unwatched \ {s}
  /\ UNCHANGED <<fd, timer, deadline, pc, cause>>

(* An old libcurl drops an entry without a word. *)
Forget(s) ==
  /\ pc = "curl" /\ wanted[s] # {}
  /\ wanted' = [wanted EXCEPT ![s] = {}]
  /\ assigned' = [assigned EXCEPT ![s] = NoContext]
  /\ unwatched' = unwatched \ {s}
  /\ UNCHANGED <<contextVars, timer, deadline, pc, cause>>

(* Does a timeout of ms stop the timer?  Zero is passed through to libuv;   *)
(* the mutant stops on it.                                                  *)
StopsAtZero(ms) == ms = "negative" \/ ms = "zero"
Stops(ms) == ms = "negative"

(* curl_timer_function *)
SetTimer(ms) ==
  /\ InCurl /\ timer \in {"off", "armed"}
  /\ deadline' = (ms # "negative")
  /\ timer' = IF Stops(ms) THEN "off" ELSE "armed"
  /\ UNCHANGED <<contextVars, wanted, assigned, unwatched, pc, cause>>

-----------------------------------------------------------------------------
(* libcurl returns *)

CurlOk ==
  /\ pc = "curl"
  /\ pc' = "loop" /\ cause' = NoContext
  /\ UNCHANGED <<contextVars, timer, curlVars, unwatched>>

(* After CURLM_BAD_SOCKET, may the watcher be closed?  It may have been, in *)
(* the call that has just returned; the mutant does not ask.                *)
RetireAlways == TRUE
MayRetire == handle[cause] # "closing"

(* libcurl has no entry for the socket of the event: retire its watcher. *)
BadSocket ==
  /\ pc = "curl" /\ cause # NoContext /\ wanted[fd[cause]] = {}
  /\ handle' = IF MayRetire THEN Closed(cause) ELSE handle
  /\ events' = IF MayRetire THEN [events EXCEPT ![cause] = {}] ELSE events
  /\ pc' = "loop" /\ cause' = NoContext
  /\ UNCHANGED <<fd, timer, curlVars, unwatched>>

(* Any other code, and STOP_AGENT: shutdown_message_context, uv_stop, and   *)
(* agent_shutdown.  libcurl calls back while the transfers are removed and  *)
(* in curl_multi_cleanup.                                                   *)
Shutdown ==
  /\ pc \in {"loop", "curl"}
  /\ pc' = "shutdown" /\ cause' = NoContext
  /\ UNCHANGED <<contextVars, timer, curlVars, unwatched>>

(* close_handle_cb for the poll handles; the mutant closes idle ones only. *)
WalkIdle == [c \in Contexts |-> IF handle[c] = "open" /\ events[c] = {}
                                THEN "closing" ELSE handle[c]]
Walked == [c \in Contexts |-> IF handle[c] = "open" THEN "closing" ELSE handle[c]]

(* curl_multi_cleanup has freed the entries; uv_walk closes every handle.   *)
MultiCleanup ==
  /\ pc = "shutdown"
  /\ wanted' = [s \in Sockets |-> {}]
  /\ assigned' = [s \in Sockets |-> NoContext]
  /\ deadline' = FALSE /\ unwatched' = {}
  /\ handle' = Walked
  /\ timer' = "closing"
  /\ pc' = "closing"
  /\ UNCHANGED <<fd, events, cause>>

CloseTimer ==
  /\ pc = "closing" /\ timer = "closing"
  /\ timer' = "closed"
  /\ UNCHANGED <<contextVars, curlVars, unwatched, pc, cause>>

(* uv_loop_alive is false: uv_loop_close, and the contexts are freed. *)
LoopClose ==
  /\ pc = "closing" /\ timer = "closed"
  /\ \A c \in Contexts : handle[c] = "free"
  /\ pc' = "closed"
  /\ UNCHANGED <<contextVars, timer, curlVars, unwatched, cause>>

-----------------------------------------------------------------------------
CallBack ==
  \/ \E s \in Sockets : \/ Unwatch(s) \/ Forget(s)
                        \/ \E a \in Actions : WatchOk(s, a) \/ WatchFails(s, a)
  \/ \E ms \in {"negative", "zero", "positive"} : SetTimer(ms)

Return == CurlOk \/ BadSocket

Next ==
  \/ CallBack \/ Return \/ OnTimeout \/ ControlMessage \/ Shutdown
  \/ (\E c \in Contexts : SocketEvent(c) \/ FreeContext(c))
  \/ MultiCleanup \/ CloseTimer \/ LoopClose

(* libcurl returns from each call, every turn of the loop runs the due      *)
(* timers, and uv_run is called until no handle is left.                    *)
Spec ==
  /\ Init /\ [][Next]_vars
  /\ WF_vars(Return) /\ SF_vars(OnTimeout)
  /\ WF_vars(MultiCleanup) /\ WF_vars(CloseTimer) /\ WF_vars(LoopClose)
  /\ \A c \in Contexts : WF_vars(FreeContext(c))

-----------------------------------------------------------------------------
(* Properties *)

TypeOK ==
  /\ handle \in [Contexts -> {"free", "open", "closing"}]
  /\ fd \in [Contexts -> Sockets \cup {NoSocket}]
  /\ events \in [Contexts -> SUBSET Events] /\ wanted \in [Sockets -> SUBSET Events]
  /\ timer \in {"off", "armed", "closing", "closed"} /\ deadline \in BOOLEAN
  /\ assigned \in [Sockets -> Contexts \cup {NoContext}] /\ unwatched \subseteq Sockets
  /\ pc \in {"loop", "curl", "shutdown", "closing", "closed"}
  /\ cause \in Contexts \cup {NoContext}

(* No handle is closed twice (TypeOK), and no memory is reachable after it  *)
(* was freed: what libcurl and an event that is being handled point to is   *)
(* allocated, and libcurl's pointer is that of the socket's own context,    *)
(* never of one that is closing (curl_uv.c:155).                            *)
ContextsAreLive ==
  /\ TypeOK
  /\ \A s \in Sockets : assigned[s] # NoContext =>
       handle[assigned[s]] = "open" /\ fd[assigned[s]] = s
  /\ cause # NoContext => handle[cause] # "free"

(* Every socket libcurl waits for is polled, by one handle, for the events  *)
(* it asked for, unless a callback has told it of a failure.                *)
SocketsAreWatched ==
  \A s \in Sockets :
    /\ wanted[s] # {} /\ s \notin unwatched =>
         assigned[s] # NoContext /\ events[assigned[s]] = wanted[s]
    /\ Cardinality({c \in Contexts : handle[c] = "open" /\ fd[c] = s
                                     /\ events[c] # {}}) <= 1

(* A timeout libcurl asked for makes the loop drive it, however busy its    *)
(* sockets are, until libcurl takes it back or the agent stops.             *)
DeadlineIsServed == deadline ~> ~deadline

(* agent_shutdown ends, with every context freed. *)
ShutdownEnds == pc = "shutdown" ~> pc = "closed"
=============================================================================
