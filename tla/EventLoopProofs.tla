-------------------------- MODULE EventLoopProofs ---------------------------
(***************************************************************************)
(* Proofs about EventLoop: for any set of sockets and any pool of contexts *)
(* the glue never reaches freed memory, never closes a handle twice, and   *)
(* polls what libcurl waits for.                                           *)
(***************************************************************************)
EXTENDS EventLoop, FiniteSetTheorems, TLAPS

(* libcurl's pointers: to open contexts of the entry's own socket, and none *)
(* without an entry.  An event is handled only while libcurl is driven, and *)
(* what it points to may be closing by then, but is not freed.              *)
PointerInv ==
  /\ \A s \in Sockets : assigned[s] # NoContext =>
       /\ wanted[s] # {}
       /\ handle[assigned[s]] = "open" /\ fd[assigned[s]] = s
  /\ cause # NoContext => pc = "curl" /\ handle[cause] # "free"

Polls(c, s) == handle[c] = "open" /\ fd[c] = s /\ events[c] # {}

(* A socket is polled by one context at a time.  A context libcurl has      *)
(* forgotten may still poll, but then the socket has no other.              *)
PollInv ==
  \A s \in Sockets :
    /\ wanted[s] # {} /\ s \notin unwatched =>
         assigned[s] # NoContext /\ events[assigned[s]] = wanted[s]
    /\ \A c \in Contexts : Polls(c, s) /\ assigned[s] # NoContext => c = assigned[s]
    /\ \A c, d \in Contexts : Polls(c, s) /\ Polls(d, s) => c = d

IInv == TypeOK /\ PointerInv /\ PollInv

-----------------------------------------------------------------------------
(* curl_socket_function translates every action into the events libcurl     *)
(* means by it, CURL_POLL_INOUT included.                                   *)
LEMMA EventsAreMeant ==
  ASSUME NEW a \in Actions
  PROVE  /\ EventsOf(a) = Meaning[a]
         /\ Meaning[a] \in SUBSET Events /\ Meaning[a] # {}
<1>1. CASE a = "in"
  BY <1>1 DEF EventsOf, Meaning, Events
<1>2. CASE a = "out"
  BY <1>2 DEF EventsOf, Meaning, Events
<1>3. CASE a = "inout"
  BY <1>3 DEF EventsOf, Meaning, Events
<1>q. QED
  BY <1>1, <1>2, <1>3 DEF Actions

(* The loop starts without contexts and libcurl without entries. *)
LEMMA InitIInv == Init => IInv
BY EventLoopAssumption
DEF Init, IInv, TypeOK, PointerInv, PollInv, Polls, Events

(* No step closes a handle twice or one that is gone: the CURLM_BAD_SOCKET  *)
(* path asks uv_is_closing, and what libcurl points to is open.             *)
LEMMA TypeStep == TypeOK /\ PointerInv /\ [Next]_vars => TypeOK'
<1> SUFFICES ASSUME TypeOK, PointerInv, [Next]_vars PROVE TypeOK'
  OBVIOUS
<1> USE EventLoopAssumption, EventsAreMeant
    DEF vars, contextVars, curlVars, InCurl, TypeOK, PointerInv
<1>1. ASSUME NEW s \in Sockets, Unwatch(s) PROVE TypeOK'
  BY <1>1 DEF Unwatch, Destroyed, Closed
<1>2. ASSUME NEW s \in Sockets, Forget(s) PROVE TypeOK'
  BY <1>2 DEF Forget
<1>3. ASSUME NEW s \in Sockets, NEW a \in Actions, WatchOk(s, a) PROVE TypeOK'
  BY <1>3 DEF WatchOk, NewContext, Reusable, Polled
<1>4. ASSUME NEW s \in Sockets, NEW a \in Actions, WatchFails(s, a) PROVE TypeOK'
  BY <1>4 DEF WatchFails, NewContext, Reusable, Polled
<1>5. ASSUME NEW ms \in {"negative", "zero", "positive"}, SetTimer(ms) PROVE TypeOK'
  BY <1>5 DEF SetTimer
<1>6. CASE CurlOk
  BY <1>6 DEF CurlOk
<1>7. CASE BadSocket
  BY <1>7 DEF BadSocket, MayRetire, Closed
<1>8. CASE OnTimeout
  BY <1>8 DEF OnTimeout
<1>9. CASE ControlMessage
  BY <1>9 DEF ControlMessage
<1>10. CASE Shutdown
  BY <1>10 DEF Shutdown
<1>11. ASSUME NEW c \in Contexts, SocketEvent(c) PROVE TypeOK'
  BY <1>11 DEF SocketEvent
<1>12. ASSUME NEW c \in Contexts, FreeContext(c) PROVE TypeOK'
  BY <1>12 DEF FreeContext
<1>13. CASE MultiCleanup
  BY <1>13 DEF MultiCleanup, Walked
<1>14. CASE CloseTimer
  BY <1>14 DEF CloseTimer
<1>15. CASE LoopClose
  BY <1>15 DEF LoopClose
<1>u. CASE UNCHANGED vars
  BY <1>u
<1> HIDE DEF TypeOK, PointerInv
<1>q. QED
  BY <1>1, <1>2, <1>3, <1>4, <1>5, <1>6, <1>7, <1>8, <1>9, <1>10, <1>11,
     <1>12, <1>13, <1>14, <1>15, <1>u
  DEF Next, CallBack, Return

(* A context is closed only after libcurl's pointer to it is gone, and      *)
(* freed only when no event of it is being handled.                         *)
LEMMA PointerStep == TypeOK /\ PointerInv /\ [Next]_vars => PointerInv'
<1> SUFFICES ASSUME TypeOK, PointerInv, [Next]_vars PROVE PointerInv'
  OBVIOUS
<1> USE EventLoopAssumption, EventsAreMeant
    DEF vars, contextVars, curlVars, InCurl, TypeOK, PointerInv
<1>1. ASSUME NEW s \in Sockets, Unwatch(s) PROVE PointerInv'
  BY <1>1 DEF Unwatch, Destroyed, Closed
<1>2. ASSUME NEW s \in Sockets, Forget(s) PROVE PointerInv'
  BY <1>2 DEF Forget
<1>3. ASSUME NEW s \in Sockets, NEW a \in Actions, WatchOk(s, a) PROVE PointerInv'
  BY <1>3 DEF WatchOk, NewContext, Reusable, Polled
<1>4. ASSUME NEW s \in Sockets, NEW a \in Actions, WatchFails(s, a) PROVE PointerInv'
  BY <1>4 DEF WatchFails, NewContext, Reusable, Polled
<1>5. ASSUME NEW ms \in {"negative", "zero", "positive"}, SetTimer(ms) PROVE PointerInv'
  BY <1>5 DEF SetTimer
<1>6. CASE CurlOk
  BY <1>6 DEF CurlOk
<1>7. CASE BadSocket
  BY <1>7 DEF BadSocket, MayRetire, Closed
<1>8. CASE OnTimeout
  BY <1>8 DEF OnTimeout
<1>9. CASE ControlMessage
  BY <1>9 DEF ControlMessage
<1>10. CASE Shutdown
  BY <1>10 DEF Shutdown
<1>11. ASSUME NEW c \in Contexts, SocketEvent(c) PROVE PointerInv'
  BY <1>11 DEF SocketEvent
<1>12. ASSUME NEW c \in Contexts, FreeContext(c) PROVE PointerInv'
  BY <1>12 DEF FreeContext
<1>13. CASE MultiCleanup
  BY <1>13 DEF MultiCleanup, Walked
<1>14. CASE CloseTimer
  BY <1>14 DEF CloseTimer
<1>15. CASE LoopClose
  BY <1>15 DEF LoopClose
<1>u. CASE UNCHANGED vars
  BY <1>u
<1> HIDE DEF TypeOK, PointerInv
<1>q. QED
  BY <1>1, <1>2, <1>3, <1>4, <1>5, <1>6, <1>7, <1>8, <1>9, <1>10, <1>11,
     <1>12, <1>13, <1>14, <1>15, <1>u
  DEF Next, CallBack, Return

(* uv_poll_start follows what libcurl asks for, on the one context of the   *)
(* socket.                                                                  *)
LEMMA PollStep == TypeOK /\ PointerInv /\ PollInv /\ [Next]_vars => PollInv'
<1> SUFFICES ASSUME TypeOK, PointerInv, PollInv, [Next]_vars PROVE PollInv'
  OBVIOUS
<1> USE EventLoopAssumption, EventsAreMeant
    DEF vars, contextVars, curlVars, InCurl, TypeOK, PointerInv, PollInv,
        Polls
<1>1. ASSUME NEW s \in Sockets, Unwatch(s) PROVE PollInv'
  BY <1>1 DEF Unwatch, Destroyed, Closed
<1>2. ASSUME NEW s \in Sockets, Forget(s) PROVE PollInv'
  BY <1>2 DEF Forget
<1>3. ASSUME NEW s \in Sockets, NEW a \in Actions, WatchOk(s, a) PROVE PollInv'
  BY <1>3, SMTT(30) DEF WatchOk, NewContext, Reusable, Polled
<1>4. ASSUME NEW s \in Sockets, NEW a \in Actions, WatchFails(s, a) PROVE PollInv'
  BY <1>4, SMTT(30) DEF WatchFails, NewContext, Reusable, Polled
<1>5. ASSUME NEW ms \in {"negative", "zero", "positive"}, SetTimer(ms) PROVE PollInv'
  BY <1>5 DEF SetTimer
<1>6. CASE CurlOk
  BY <1>6 DEF CurlOk
<1>7. CASE BadSocket
  BY <1>7 DEF BadSocket, MayRetire, Closed
<1>8. CASE OnTimeout
  BY <1>8 DEF OnTimeout
<1>9. CASE ControlMessage
  BY <1>9 DEF ControlMessage
<1>10. CASE Shutdown
  BY <1>10 DEF Shutdown
<1>11. ASSUME NEW c \in Contexts, SocketEvent(c) PROVE PollInv'
  BY <1>11 DEF SocketEvent
<1>12. ASSUME NEW c \in Contexts, FreeContext(c) PROVE PollInv'
  BY <1>12 DEF FreeContext
<1>13. CASE MultiCleanup
  BY <1>13 DEF MultiCleanup, Walked
<1>14. CASE CloseTimer
  BY <1>14 DEF CloseTimer
<1>15. CASE LoopClose
  BY <1>15 DEF LoopClose
<1>u. CASE UNCHANGED vars
  BY <1>u
<1> HIDE DEF TypeOK, PointerInv, PollInv, Polls
<1>q. QED
  BY <1>1, <1>2, <1>3, <1>4, <1>5, <1>6, <1>7, <1>8, <1>9, <1>10, <1>11,
     <1>12, <1>13, <1>14, <1>15, <1>u
  DEF Next, CallBack, Return

-----------------------------------------------------------------------------
(* IInv holds for any number of sockets and contexts. *)
LEMMA Invariance == Spec => []IInv
<1>1. Init => IInv
  BY InitIInv
<1>2. IInv /\ [Next]_vars => IInv'
  BY TypeStep, PointerStep, PollStep DEF IInv
<1>q. QED
  BY <1>1, <1>2, PTL DEF Spec

(* No watcher is closed twice, and neither libcurl nor an event that is     *)
(* being handled points to a context after destroy_socket_context_cb.       *)
THEOREM ContextSafety == Spec => []ContextsAreLive
<1>1. IInv => ContextsAreLive
  BY DEF IInv, PointerInv, ContextsAreLive
<1>q. QED
  BY <1>1, Invariance, PTL

(* Every socket libcurl waits for is polled for the events it asked for, by *)
(* one uv_poll_t, unless curl_socket_function has returned -1 for it.       *)
THEOREM WatchSafety == Spec => []SocketsAreWatched
<1>1. IInv => SocketsAreWatched
  <2> SUFFICES ASSUME IInv, NEW s \in Sockets
               PROVE  /\ wanted[s] # {} /\ s \notin unwatched =>
                           assigned[s] # NoContext /\ events[assigned[s]] = wanted[s]
                      /\ Cardinality({c \in Contexts : Polls(c, s)}) <= 1
    BY DEF SocketsAreWatched, Polls
  <2>1. \A c, d \in {c \in Contexts : Polls(c, s)} : c = d
    BY DEF IInv, PollInv
  <2>2. Cardinality({c \in Contexts : Polls(c, s)}) <= 1
    <3> DEFINE S == {c \in Contexts : Polls(c, s)}
    <3>1. CASE S = {}
      BY <3>1, FS_EmptySet
    <3>2. ASSUME NEW x \in S PROVE Cardinality(S) <= 1
      <4>1. S = {x}
        BY <2>1
      <4> HIDE DEF S
      <4>q. QED
        BY <4>1, FS_Singleton
    <3>q. QED
      BY <3>1, <3>2
  <2>q. QED
    BY <2>2 DEF IInv, PollInv
<1>q. QED
  BY <1>1, Invariance, PTL
=============================================================================
