--------------------------- MODULE ReactorProofs ----------------------------
(***************************************************************************)
(* Proofs about Reactor: the registry finds what it holds and every easy   *)
(* handle has one owner, for any set of transfers, any IDs and any hash.   *)
(***************************************************************************)
EXTENDS Reactor, FiniteSetTheorems, SequenceTheorems, TLAPS

Registered == Entries(buckets)

(* A table: every entry is in the chain its ID is hashed to, and no two     *)
(* entries have one ID.                                                     *)
TableOK(table) ==
  /\ Size(table) \in Nat
  /\ table \in [0..(Size(table) - 1) -> SUBSET Transfers]
  /\ \A i \in 0..(Size(table) - 1) : \A e \in table[i] :
       i = Bucket(Id[e], Size(table))
  /\ \A e, f \in Entries(table) : Id[e] = Id[f] => e = f

RegistryInv ==
  /\ TableOK(buckets)
  /\ pc # "stopped" => Size(buckets) > 0
  /\ count = Cardinality(Registered)

(* Where the reactor is: it has a transfer in hand while it finishes one,   *)
(* and the registry is empty once shutdown has detached the chains.         *)
PhaseInv ==
  /\ pc = "finish" <=> cur # NoTransfer
  /\ pc # "finish" => step = 1
  /\ senderClosed => Registered = {}
  /\ ~senderClosed => todo = {}
  /\ pc = "loop" => ~senderClosed
  /\ pc \in {"shutdown", "stopped"} => senderClosed
  /\ pc = "stopped" => todo = {} /\ chan = <<>>

(* An EXECUTE is accepted once. *)
OnceQueued(t) ==
  \A i, j \in 1..Len(chan) : chan[i].easy = t /\ chan[j].easy = t => i = j

(* The places an easy handle can be exclude each other, and one of them     *)
(* holds it until curl_easy_cleanup; libcurl has it only while it is        *)
(* registered or detached, or just taken in hand.                           *)
OwnerOf(t) ==
  /\ user[t] = "new" \/ Queued(t) \/ t \in Registered \/ t \in todo =>
       cleanups[t] = 0 /\ cur # t
  /\ user[t] = "new" => ~Queued(t) /\ t \notin Registered /\ t \notin todo
  /\ Queued(t) => t \notin Registered /\ t \notin todo
  /\ OnceQueued(t)
  /\ t \in Registered => t \notin todo
  /\ cur = t => cleanups[t] = IF step = 3 THEN 1 ELSE 0
  /\ cleanups[t] = 0 \/ cur = t => ~done[t] /\ user[t] # "released"
  /\ cleanups[t] = 1 \/ user[t] = "new" \/ Queued(t) \/ t \in Registered
       \/ t \in todo \/ cur = t
  /\ t \in active => t \in Registered \/ t \in todo \/ (cur = t /\ step = 1)

OwnerInv == \A t \in Transfers : OwnerOf(t)

(* The IDs for which a CANCEL was sent. *)
ClosingIds == {Id[u] : u \in cancelled}

(* The reason for an abort travels in the queue and then in the code. *)
Caused(m) ==
  (m.tag = "CANCEL" => m.id \in ClosingIds) /\ (m.tag = "STOP" => stopping)

CauseInv ==
  /\ \A i \in 1..Len(chan) : Caused(chan[i])
  /\ senderClosed /\ code = "aborted" => stopping
  /\ pc = "finish" /\ code = "aborted" => stopping \/ Id[cur] \in ClosingIds

IInv == TypeOK /\ RegistryInv /\ PhaseInv /\ OwnerInv /\ CauseInv

-----------------------------------------------------------------------------
(* The registry *)

(* A hash is masked into the table, whatever hash_transfer_id returns. *)
LEMMA BucketInRange ==
  ASSUME NEW t \in Transfers, NEW n \in Nat, n > 0
  PROVE  Bucket(Id[t], n) \in 0..(n - 1)
<1>1. Hash[Id[t]] \in Nat
  BY ReactorAssumption DEF Ids
<1>q. QED
  BY <1>1 DEF Bucket

(* A table with the chains 0..n-1 has n of them. *)
LEMMA SizeOfTable ==
  ASSUME NEW n \in Nat, NEW table, DOMAIN table = 0..(n - 1)
  PROVE  Size(table) = n
<1>1. Cardinality(0..(n - 1)) = IF 0 > n - 1 THEN 0 ELSE (n - 1) - 0 + 1
  BY FS_Interval
<1>q. QED
  BY <1>1 DEF Size

(* registry_find returns the entry registered under the ID, wherever other  *)
(* IDs collide with it, and nothing else.                                   *)
LEMMA FindIsLookup ==
  ASSUME NEW table, TableOK(table), NEW t \in Transfers
  PROVE  /\ Find(table, Id[t]) = {e \in Entries(table) : Id[e] = Id[t]}
         /\ \A e \in Find(table, Id[t]) : Find(table, Id[t]) = {e}
<1> DEFINE same == {e \in Entries(table) : Id[e] = Id[t]}
<1>t. DOMAIN table = 0..(Size(table) - 1) /\ Size(table) \in Nat
  BY DEF TableOK
<1>a. \A e, f \in same : e = f
  BY DEF TableOK
<1>b. \A e \in same : same = {e}
  BY <1>a
<1>1. CASE Size(table) = 0
  <2>1. Entries(table) = {}
    BY <1>1, <1>t DEF Entries
  <2>q. QED
    BY <1>1, <2>1 DEF Find
<1>2. CASE Size(table) # 0
  <2> DEFINE found == {e \in table[Bucket(Id[t], Size(table))] : SameId(e, Id[t])}
  <2>1. Bucket(Id[t], Size(table)) \in DOMAIN table
    BY <1>2, <1>t, BucketInRange
  <2>2. found \subseteq same
    BY <2>1 DEF Entries, SameId
  <2>3. same \subseteq found
    <3> SUFFICES ASSUME NEW e \in same PROVE e \in found
      OBVIOUS
    <3>1. PICK i \in DOMAIN table : e \in table[i]
      BY DEF Entries
    <3>2. i = Bucket(Id[e], Size(table))
      BY <3>1, <1>t DEF TableOK
    <3>q. QED
      BY <3>1, <3>2 DEF SameId
  <2>4. found = same
    BY <2>2, <2>3
  <2>5. Find(table, Id[t]) = IF same = {} THEN {} ELSE {CHOOSE e \in same : TRUE}
    BY <1>2, <2>4 DEF Find
  <2> HIDE DEF same
  <2>6. CASE same = {}
    BY <2>5, <2>6 DEF same
  <2>7. CASE same # {}
    <3>1. (CHOOSE e \in same : TRUE) \in same
      BY <2>7
    <3>q. QED
      BY <2>5, <2>7, <3>1, <1>b DEF same
  <2>q. QED
    BY <2>6, <2>7
<1>q. QED
  BY <1>1, <1>2

(* registry_resize moves every entry and loses none. *)
LEMMA ResizeKeeps ==
  ASSUME NEW table, TableOK(table), Size(table) > 0
  PROVE  /\ TableOK(Resized(table)) /\ Size(Resized(table)) > 0
         /\ Entries(Resized(table)) = Entries(table)
<1> DEFINE n == Size(table)
           big == Resized(table)
<1>t. n \in Nat /\ DOMAIN table = 0..(n - 1) /\ Entries(table) \subseteq Transfers
  BY DEF TableOK, Entries
<1>d. DOMAIN big = 0..(2 * n - 1)
  BY DEF Resized
<1>1. Size(big) = 2 * n
  BY <1>d, <1>t, SizeOfTable
<1>2. big \in [0..(2 * n - 1) -> SUBSET Transfers]
  BY <1>t DEF Resized
<1>3. \A i \in 0..(2 * n - 1) : \A e \in big[i] :
        i = Bucket(Id[e], 2 * n) /\ e \in Entries(table)
  BY DEF Resized
<1>4. \A e \in Entries(table) : e \in big[Bucket(Id[e], 2 * n)]
  <2> SUFFICES ASSUME NEW e \in Entries(table)
               PROVE  e \in big[Bucket(Id[e], 2 * n)]
    OBVIOUS
  <2>1. Bucket(Id[e], 2 * n) \in 0..(2 * n - 1)
    BY <1>t, BucketInRange
  <2>q. QED
    BY <2>1 DEF Resized
<1>5. \A e \in Entries(table) : Bucket(Id[e], 2 * n) \in DOMAIN big
  BY <1>t, <1>d, BucketInRange
<1> HIDE DEF big
<1>6. Entries(big) = Entries(table)
  BY <1>3, <1>4, <1>5, <1>d DEF Entries
<1>7. TableOK(big)
  BY <1>1, <1>2, <1>3, <1>6, <1>t DEF TableOK
<1>q. QED
  BY <1>1, <1>6, <1>7, <1>t DEF big

(* registry_insert puts the entry where registry_find will look for it. *)
LEMMA InsertKeeps ==
  ASSUME NEW table, TableOK(table), Size(table) > 0, NEW t \in Transfers,
         \A e \in Entries(table) : Id[e] # Id[t],
         NEW new, new = [table EXCEPT ![Bucket(Id[t], Size(table))] = @ \cup {t}]
  PROVE  /\ TableOK(new) /\ Size(new) = Size(table)
         /\ Entries(new) = Entries(table) \cup {t}
<1> DEFINE n == Size(table)
           b == Bucket(Id[t], n)
<1>t. n \in Nat /\ DOMAIN table = 0..(n - 1)
  BY DEF TableOK
<1>b. b \in 0..(n - 1)
  BY <1>t, BucketInRange
<1>d. DOMAIN new = 0..(n - 1)
  BY <1>t
<1>1. Size(new) = n
  BY <1>d, <1>t, SizeOfTable
<1>2. new[b] = table[b] \cup {t} /\ \A i \in 0..(n - 1) \ {b} : new[i] = table[i]
  BY <1>b, <1>t
<1>3. new \in [0..(n - 1) -> SUBSET Transfers]
  BY <1>b DEF TableOK
<1>4. Entries(new) = Entries(table) \cup {t}
  <2>1. Entries(new) \subseteq Entries(table) \cup {t}
    BY <1>2, <1>d, <1>t DEF Entries
  <2>2. \A e \in Entries(table) : e \in Entries(new)
    BY <1>2, <1>b, <1>d, <1>t DEF Entries
  <2>3. t \in Entries(new)
    BY <1>2, <1>b, <1>d DEF Entries
  <2>q. QED
    BY <2>1, <2>2, <2>3
<1>5. \A i \in 0..(n - 1) : \A e \in new[i] : i = Bucket(Id[e], n)
  <2> SUFFICES ASSUME NEW i \in 0..(n - 1), NEW e \in new[i]
               PROVE  i = Bucket(Id[e], n)
    OBVIOUS
  <2>1. CASE e \in table[i]
    BY <2>1 DEF TableOK
  <2>2. CASE e \notin table[i]
    <3>1. i = b /\ e = t
      BY <2>2, <1>2
    <3>q. QED
      BY <3>1
  <2>q. QED
    BY <2>1, <2>2
<1>6. \A e, f \in Entries(new) : Id[e] = Id[f] => e = f
  BY <1>4 DEF TableOK
<1>q. QED
  BY <1>1, <1>3, <1>4, <1>5, <1>6, <1>t DEF TableOK

(* registry_remove takes out what it means to. *)
LEMMA RemoveKeeps ==
  ASSUME NEW table, TableOK(table), NEW out,
         NEW new, new = [i \in DOMAIN table |-> table[i] \ out]
  PROVE  /\ TableOK(new) /\ Size(new) = Size(table)
         /\ Entries(new) = Entries(table) \ out
<1>t. Size(table) \in Nat /\ DOMAIN table = 0..(Size(table) - 1)
  BY DEF TableOK
<1>1. Size(new) = Size(table)
  BY <1>t, SizeOfTable
<1>2. Entries(new) = Entries(table) \ out
  BY DEF Entries
<1>3. new \in [0..(Size(table) - 1) -> SUBSET Transfers]
  BY <1>t DEF TableOK
<1>4. \A i \in 0..(Size(table) - 1) : \A e \in new[i] : e \in table[i]
  BY <1>t
<1>q. QED
  BY <1>1, <1>2, <1>3, <1>4, <1>t DEF TableOK

(* shutdown_message_context empties every bucket and keeps the table. *)
LEMMA DetachKeeps ==
  ASSUME NEW table, TableOK(table),
         NEW new, new = [i \in DOMAIN table |-> {}]
  PROVE  TableOK(new) /\ Size(new) = Size(table) /\ Entries(new) = {}
<1>t. Size(table) \in Nat /\ DOMAIN table = 0..(Size(table) - 1)
  BY DEF TableOK
<1>1. Size(new) = Size(table)
  BY <1>t, SizeOfTable
<1>2. Entries(new) = {}
  BY DEF Entries
<1>q. QED
  BY <1>1, <1>2, <1>t DEF TableOK

-----------------------------------------------------------------------------
(* Steps on the registry *)

(* registry_remove keeps the registry's invariant and its count. *)
LEMMA RemoveEffect ==
  ASSUME RegistryInv, NEW t \in Transfers, Remove(Id[t])
  PROVE  /\ TableOK(buckets') /\ Size(buckets') = Size(buckets)
         /\ Registered' = Registered \ Find(buckets, Id[t])
         /\ count' = Cardinality(Registered')
<1> DEFINE found == Find(buckets, Id[t])
<1>1. buckets' = [i \in DOMAIN buckets |-> buckets[i] \ found]
      /\ count' = count - Cardinality(found)
  BY DEF Remove
<1>2. /\ TableOK(buckets') /\ Size(buckets') = Size(buckets)
      /\ Entries(buckets') = Entries(buckets) \ found
  BY <1>1, RemoveKeeps DEF RegistryInv
<1>3. IsFiniteSet(Entries(buckets)) /\ found \subseteq Entries(buckets)
  <2>1. Entries(buckets) \subseteq Transfers
    BY DEF Entries, RegistryInv, TableOK
  <2>q. QED
    BY <2>1, FS_Subset, FindIsLookup, ReactorAssumption DEF RegistryInv
<1>4. Cardinality(Entries(buckets) \ found) = Cardinality(Entries(buckets)) - Cardinality(found)
  <2>1. CASE found = {}
    <3>1. Cardinality(found) = 0 /\ Entries(buckets) \ found = Entries(buckets)
      BY <2>1, FS_EmptySet
    <3>2. Cardinality(Entries(buckets)) \in Nat
      BY <1>3, FS_CardinalityType
    <3>q. QED
      BY <3>1, <3>2
  <2>2. ASSUME NEW e \in found
        PROVE  Cardinality(Entries(buckets) \ found) = Cardinality(Entries(buckets)) - Cardinality(found)
    <3>1. found = {e}
      BY <2>2, FindIsLookup DEF RegistryInv
    <3>2. Cardinality(found) = 1
      BY <3>1, FS_Singleton
    <3>3. Cardinality(Entries(buckets) \ {e}) = Cardinality(Entries(buckets)) - 1
      BY <1>3, <2>2, FS_RemoveElement
    <3>q. QED
      BY <3>1, <3>2, <3>3
  <2>q. QED
    BY <2>1, <2>2
<1>q. QED
  BY <1>1, <1>2, <1>4 DEF Registered, RegistryInv

(* registry_insert adds the one entry, before or after a resize. *)
LEMMA InsertEffect ==
  ASSUME RegistryInv, pc # "stopped", NEW t \in Transfers,
         Find(buckets, Id[t]) = {}, Insert(t)
  PROVE  /\ TableOK(buckets') /\ Size(buckets') > 0
         /\ Registered' = Registered \cup {t}
         /\ count' = Cardinality(Registered')
<1>1. PICK table \in {buckets, Resized(buckets)} :
        /\ buckets' = [table EXCEPT ![Bucket(Id[t], Size(table))] = @ \cup {t}]
        /\ count' = count + 1
  BY DEF Insert
<1>2. TableOK(table) /\ Size(table) > 0 /\ Entries(table) = Entries(buckets)
  BY <1>1, ResizeKeeps DEF RegistryInv
<1>3. \A e \in Entries(table) : Id[e] # Id[t]
  BY <1>2, FindIsLookup DEF RegistryInv
<1>4. /\ TableOK(buckets') /\ Size(buckets') = Size(table)
      /\ Entries(buckets') = Entries(table) \cup {t}
  BY <1>1, <1>2, <1>3, InsertKeeps
<1>5. IsFiniteSet(Entries(buckets)) /\ t \notin Entries(buckets)
  <2>1. Entries(buckets) \subseteq Transfers
    BY DEF Entries, RegistryInv, TableOK
  <2>q. QED
    BY <2>1, <1>2, <1>3, FS_Subset, ReactorAssumption
<1>6. Cardinality(Entries(buckets) \cup {t}) = Cardinality(Entries(buckets)) + 1
  BY <1>5, FS_AddElement
<1>q. QED
  BY <1>1, <1>2, <1>4, <1>6 DEF Registered, RegistryInv

-----------------------------------------------------------------------------
(* The queue *)

(* What a message carries: EXECUTE its easy handle, CANCEL and RESUME the   *)
(* ID of some transfer.                                                     *)
LEMMA MessageFacts ==
  ASSUME NEW m \in Messages
  PROVE  /\ m.tag \in {"EXECUTE", "CANCEL", "RESUME", "STOP"}
         /\ m.tag = "EXECUTE" => m.easy \in Transfers /\ m.id = Id[m.easy]
         /\ m.tag # "EXECUTE" => m.easy = NoTransfer
         /\ m.tag \in {"CANCEL", "RESUME"} => \E t \in Transfers : m.id = Id[t]
BY DEF Messages, Message, Stop

(* Taking the oldest message leaves the others as they were. *)
LEMMA TakeEffect ==
  ASSUME chan \in Seq(Messages), chan # <<>>, chan' = Tail(chan)
  PROVE  /\ Head(chan) \in Messages /\ chan' \in Seq(Messages)
         /\ Len(chan') = Len(chan) - 1 /\ Len(chan) \in Nat
         /\ 1 \in 1..Len(chan) /\ Head(chan) = chan[1]
         /\ \A i \in 1..Len(chan') : i + 1 \in 1..Len(chan) /\ chan'[i] = chan[i + 1]
BY HeadTailProperties, LenProperties

(* An easy handle is in the queue as often as before, or once less. *)
LEMMA TakeQueued ==
  ASSUME chan \in Seq(Messages), chan # <<>>, chan' = Tail(chan),
         NEW t \in Transfers, OnceQueued(t)
  PROVE  /\ OnceQueued(t)'
         /\ Queued(t)' <=> Queued(t) /\ Head(chan).easy # t
         /\ Head(chan).easy = t => Queued(t)
<1>t. /\ Len(chan') = Len(chan) - 1 /\ Len(chan) \in Nat
      /\ 1 \in 1..Len(chan) /\ Head(chan) = chan[1]
      /\ \A i \in 1..Len(chan') : i + 1 \in 1..Len(chan) /\ chan'[i] = chan[i + 1]
  BY TakeEffect
<1>1. OnceQueued(t)'
  <2> SUFFICES ASSUME NEW i \in 1..Len(chan'), NEW j \in 1..Len(chan'),
                      chan'[i].easy = t, chan'[j].easy = t
               PROVE  i = j
    BY DEF OnceQueued
  <2>1. chan[i + 1].easy = t /\ chan[j + 1].easy = t
    BY <1>t
  <2>2. i + 1 = j + 1
    BY <2>1, <1>t DEF OnceQueued
  <2>q. QED
    BY <2>2, <1>t
<1>2. Head(chan).easy = t => Queued(t)
  BY <1>t DEF Queued
<1>3. Queued(t)' => Queued(t) /\ Head(chan).easy # t
  <2> SUFFICES ASSUME NEW i \in 1..Len(chan'), chan'[i].easy = t
               PROVE  Queued(t) /\ Head(chan).easy # t
    BY DEF Queued
  <2>1. i + 1 \in 1..Len(chan) /\ chan[i + 1].easy = t
    BY <1>t
  <2>2. chan[1].easy # t
    <3> SUFFICES ASSUME chan[1].easy = t PROVE FALSE
      OBVIOUS
    <3>1. 1 = i + 1
      BY <2>1, <1>t DEF OnceQueued
    <3>q. QED
      BY <3>1, <1>t
  <2>q. QED
    BY <2>1, <2>2, <1>t DEF Queued
<1>4. ASSUME Queued(t), Head(chan).easy # t PROVE Queued(t)'
  <2>1. PICK i \in 1..Len(chan) : chan[i].easy = t
    BY <1>4 DEF Queued
  <2>2. i # 1
    BY <2>1, <1>4, <1>t
  <2>3. i - 1 \in 1..Len(chan') /\ (i - 1) + 1 = i
    BY <2>1, <2>2, <1>t
  <2>4. chan'[i - 1].easy = t
    BY <2>1, <2>3, <1>t
  <2>q. QED
    BY <2>3, <2>4 DEF Queued
<1>q. QED
  BY <1>1, <1>2, <1>3, <1>4

(* An accepted message is the newest one. *)
LEMMA SendEffect ==
  ASSUME chan \in Seq(Messages), NEW m \in Messages, chan' = Append(chan, m)
  PROVE  /\ chan' \in Seq(Messages)
         /\ Len(chan') = Len(chan) + 1 /\ Len(chan) \in Nat
         /\ chan'[Len(chan) + 1] = m
         /\ \A i \in 1..Len(chan) : chan'[i] = chan[i]
BY AppendProperties, LenProperties

(* Accepting a message puts its easy handle into the queue, and no other. *)
LEMMA SendQueued ==
  ASSUME chan \in Seq(Messages), NEW m \in Messages, chan' = Append(chan, m),
         NEW t \in Transfers, OnceQueued(t), m.easy = t => ~Queued(t)
  PROVE  /\ OnceQueued(t)'
         /\ Queued(t)' <=> Queued(t) \/ m.easy = t
<1>t. /\ Len(chan') = Len(chan) + 1 /\ Len(chan) \in Nat
      /\ chan'[Len(chan) + 1] = m
      /\ \A i \in 1..Len(chan) : chan'[i] = chan[i]
  BY SendEffect
<1>1. \A i \in 1..Len(chan') :
        \/ i \in 1..Len(chan) /\ chan'[i] = chan[i]
        \/ i = Len(chan) + 1 /\ chan'[i] = m
  BY <1>t
<1>2. OnceQueued(t)'
  BY <1>1 DEF OnceQueued, Queued
<1>3. Queued(t)' => Queued(t) \/ m.easy = t
  BY <1>1 DEF Queued
<1>4. Queued(t) => Queued(t)'
  BY <1>t DEF Queued
<1>5. m.easy = t => Queued(t)'
  BY <1>t DEF Queued
<1>q. QED
  BY <1>2, <1>3, <1>4, <1>5

(* What the handlers rely on when they take a message. *)
LEMMA HeadFacts ==
  ASSUME TypeOK, chan # <<>>
  PROVE  /\ Head(chan) \in Messages /\ Tail(chan) \in Seq(Messages)
         /\ Len(Tail(chan)) <= MaxQueue
         /\ Head(chan).tag = "EXECUTE" =>
              Head(chan).easy \in Transfers /\ Head(chan).id = Id[Head(chan).easy]
         /\ Head(chan).tag # "EXECUTE" => Head(chan).easy = NoTransfer
         /\ Head(chan).tag \in {"CANCEL", "RESUME"} =>
              \E t \in Transfers : Head(chan).id = Id[t]
<1>1. /\ Head(chan) \in Messages /\ Tail(chan) \in Seq(Messages)
      /\ Len(Tail(chan)) <= MaxQueue
  BY HeadTailProperties, LenProperties, ReactorAssumption DEF TypeOK
<1>q. QED
  BY <1>1, MessageFacts

(* A transfer is finished in three steps: result, cleanup, wake-up. *)
LEMMA StepFacts ==
  ASSUME TypeOK
  PROVE  /\ At("result") => pc = "finish" /\ step = 1
         /\ At("cleanup") => pc = "finish" /\ step = 2
         /\ At("wake") => pc = "finish" /\ step = 3
         /\ Len(FinishOrder) = 3
<1>1. /\ FinishOrder[1] = "result" /\ FinishOrder[2] = "cleanup"
      /\ FinishOrder[3] = "wake" /\ Len(FinishOrder) = 3
  BY DEF FinishOrder
<1>2. step \in 1..3
  BY <1>1 DEF TypeOK
<1>q. QED
  BY <1>1, <1>2 DEF At

(* registry_find returns registered transfers. *)
LEMMA FindFacts ==
  ASSUME TypeOK, RegistryInv, NEW t \in Transfers
  PROVE  /\ Find(buckets, Id[t]) \subseteq Registered /\ Registered \subseteq Transfers
         /\ \A e \in Find(buckets, Id[t]) : Id[e] = Id[t] /\ Find(buckets, Id[t]) = {e}
         /\ \A e \in Registered : Id[e] = Id[t] => e \in Find(buckets, Id[t])
<1>1. /\ Find(buckets, Id[t]) = {e \in Entries(buckets) : Id[e] = Id[t]}
      /\ \A e \in Find(buckets, Id[t]) : Find(buckets, Id[t]) = {e}
  BY FindIsLookup DEF RegistryInv
<1>2. Entries(buckets) \subseteq Transfers
  BY DEF TypeOK
<1>q. QED
  BY <1>1, <1>2 DEF Registered

-----------------------------------------------------------------------------
(* The steps *)

(* The registry is a table of distinct IDs with a true count after every    *)
(* handler: execute, cancel, resume, completion and shutdown.               *)
LEMMA RegistryKept == TypeOK /\ RegistryInv /\ [Next]_vars => RegistryInv'
<1> SUFFICES ASSUME TypeOK, RegistryInv, [Next]_vars PROVE RegistryInv'
  OBVIOUS
<1> USE DEF vars, registryVars, chanVars, curlVars, finishVars, resultVars,
        ownerVars, quiet
<1>h2. chan # <<>> =>
         /\ Head(chan).tag = "EXECUTE" => Head(chan).easy \in Transfers
         /\ Head(chan).tag \in {"CANCEL", "RESUME"} =>
              \E t \in Transfers : Head(chan).id = Id[t]
  BY HeadFacts
<1>s. ASSUME UNCHANGED registryVars, pc' = "stopped" <=> pc = "stopped"
      PROVE  RegistryInv'
  <2>1. TableOK(buckets') /\ Size(buckets') = Size(buckets)
        /\ Registered' = Registered
    BY <1>s DEF RegistryInv, Registered
  <2>q. QED
    BY <1>s, <2>1 DEF RegistryInv
<1>e. ASSUME buckets' = [i \in DOMAIN buckets |-> {}], count' = 0, pc # "stopped"
      PROVE  RegistryInv' /\ Registered' = {}
  <2>1. /\ TableOK(buckets') /\ Size(buckets') = Size(buckets)
        /\ Entries(buckets') = {}
    BY <1>e, DetachKeeps DEF RegistryInv
  <2>q. QED
    BY <1>e, <2>1, FS_EmptySet DEF RegistryInv, Registered
<1>1. CASE SetResult
  BY <1>1, <1>s
  DEF SetResult, At, Advance
<1>2. CASE Cleanup
  BY <1>2, <1>s
  DEF Cleanup, At, Advance
<1>3. CASE Wake
  BY <1>3, <1>s
  DEF Wake, At, Advance
<1>4. CASE ExecuteOk
  <2> DEFINE t == Head(chan).easy
  <2>1. t \in Transfers /\ Find(buckets, Id[t]) = {} /\ Insert(t) /\ UNCHANGED pc
        /\ pc # "stopped"
    BY <1>4, <1>h2 DEF ExecuteOk, Receive, AtLoop
  <2> HIDE DEF t
  <2>q. QED
    BY <2>1, InsertEffect DEF RegistryInv
<1>5. CASE ExecuteFails
  BY <1>5, <1>s
  DEF ExecuteFails, Receive, AtLoop, Refuse, Begin
<1>6. CASE CancelTransfer
  <2>1. PICK t \in Transfers : Head(chan).id = Id[t]
    BY <1>6, <1>h2 DEF CancelTransfer, Receive, AtLoop
  <2>2. pc # "stopped" /\ pc' # "stopped" /\ (Remove(Id[t]) \/ UNCHANGED registryVars)
    BY <1>6, <2>1 DEF CancelTransfer, Receive, AtLoop, Begin
  <2>q. QED
    BY <2>2, <1>s, RemoveEffect DEF RegistryInv
<1>7. CASE ResumeTransfer
  <2>1. PICK t \in Transfers : Head(chan).id = Id[t]
    BY <1>7, <1>h2 DEF ResumeTransfer, Receive, AtLoop
  <2>2. pc # "stopped" /\ pc' # "stopped" /\ (Remove(Id[t]) \/ UNCHANGED registryVars)
    BY <1>7, <2>1 DEF ResumeTransfer, Receive, AtLoop, Begin
  <2>q. QED
    BY <2>2, <1>s, RemoveEffect DEF RegistryInv
<1>8. CASE StopAgent
  BY <1>8, <1>e DEF StopAgent, Receive, AtLoop, BeginShutdown
<1>9. ASSUME NEW t \in Transfers, CompleteTransfer(t) PROVE RegistryInv'
  <2>1. pc # "stopped" /\ pc' # "stopped" /\ Remove(Id[t])
    BY <1>9 DEF CompleteTransfer, Begin
  <2>q. QED
    BY <2>1, RemoveEffect DEF RegistryInv
<1>10. CASE ShutdownTransfer
  BY <1>10, <1>s
  DEF ShutdownTransfer, Begin
<1>11. CASE Drain
  BY <1>11, <1>s
  DEF Drain, DrainFails, Begin
<1>12. CASE Stopped
  <2>1. buckets' = <<>> /\ count' = 0 /\ pc' = "stopped"
    BY <1>12 DEF Stopped
  <2>2. DOMAIN <<>> = 0..(0 - 1)
    OBVIOUS
  <2>3. Size(buckets') = 0
    BY <2>1, <2>2, SizeOfTable
  <2>4. Entries(buckets') = {}
    BY <2>1 DEF Entries
  <2>5. buckets' \in [0..(Size(buckets') - 1) -> SUBSET Transfers]
    BY <2>1, <2>3
  <2>6. TableOK(buckets')
    BY <2>3, <2>4, <2>5 DEF TableOK
  <2>7. count' = Cardinality(Registered')
    BY <2>1, <2>4, FS_EmptySet DEF Registered
  <2>q. QED
    BY <2>1, <2>6, <2>7 DEF RegistryInv
<1>13. CASE CurlRuns
  BY <1>13, <1>s
  DEF CurlRuns, AtLoop
<1>14. CASE FatalError
  BY <1>14, <1>e DEF FatalError, BeginShutdown
<1>15. CASE RequestStop
  BY <1>15, <1>s
  DEF RequestStop, Send
<1>16. ASSUME NEW t \in Transfers, RequestCancel(t) PROVE RegistryInv'
  BY <1>16, <1>s
  DEF RequestCancel, Send, Becomes
<1>17. ASSUME NEW t \in Transfers, Release(t) PROVE RegistryInv'
  BY <1>17, <1>s
  DEF Release, Finished, Becomes
<1>18. ASSUME NEW t \in Transfers, Submit(t) PROVE RegistryInv'
  BY <1>18, <1>s
  DEF Submit, Send, Becomes
<1>19. ASSUME NEW t \in Transfers, ReleaseUnsubmitted(t) PROVE RegistryInv'
  BY <1>19, <1>s
  DEF ReleaseUnsubmitted, Becomes
<1>20. ASSUME NEW t \in Transfers, StartClose(t) PROVE RegistryInv'
  BY <1>20, <1>s
  DEF StartClose, Becomes
<1>21. ASSUME NEW t \in Transfers, RequestResume(t) PROVE RegistryInv'
  BY <1>21, <1>s
  DEF RequestResume, Send
<1>u. CASE UNCHANGED vars
  BY <1>u, <1>s
<1>q. QED
  BY <1>1, <1>2, <1>3, <1>4, <1>5, <1>6, <1>7, <1>8, <1>9, <1>10, <1>11,
     <1>12, <1>13, <1>14, <1>15, <1>16, <1>17, <1>18, <1>19, <1>20, <1>21,
     <1>u
  DEF Next, ReactorStep, OwnerStep

(* Every handler and every owner keeps the types, the queue within its      *)
(* capacity and unread completions among the active handles.                *)
LEMMA TypeKept == TypeOK /\ RegistryInv /\ [Next]_vars => TypeOK'
<1> SUFFICES ASSUME TypeOK, RegistryInv, [Next]_vars PROVE TypeOK'
  OBVIOUS
<1> USE ReactorAssumption
    DEF vars, registryVars, chanVars, curlVars, finishVars, resultVars,
        ownerVars, quiet
<1>h. chan # <<>> => Tail(chan) \in Seq(Messages) /\ Len(Tail(chan)) <= MaxQueue
  BY HeadFacts
<1>h2. chan # <<>> =>
         /\ Head(chan).tag = "EXECUTE" => Head(chan).easy \in Transfers
         /\ Head(chan).tag \in {"CANCEL", "RESUME"} =>
              \E t \in Transfers : Head(chan).id = Id[t]
  BY HeadFacts
<1>m. /\ Stop \in Messages
      /\ \A t \in Transfers : \A tag \in {"EXECUTE", "CANCEL", "RESUME"} :
           Message(tag, t) \in Messages
  BY DEF Messages
<1>a. \A m \in Messages : Len(chan) < MaxQueue =>
        Append(chan, m) \in Seq(Messages) /\ Len(Append(chan, m)) <= MaxQueue
  BY AppendProperties, LenProperties, ReactorAssumption DEF TypeOK
<1>l. Len(FinishOrder) = 3
  BY DEF FinishOrder
<1>f. \A t \in Transfers : /\ Find(buckets, Id[t]) \subseteq Registered
                          /\ Registered \subseteq Transfers
  BY FindFacts
<1>v. ASSUME Advance, pc = "finish"
      PROVE  /\ step' \in 1..Len(FinishOrder)
             /\ pc' \in {"loop", "finish", "shutdown", "stopped"}
             /\ cur' \in Transfers \cup {NoTransfer} /\ code' \in Codes
  BY <1>v, <1>l DEF Advance, TypeOK, Codes
<1>c. count' \in Nat /\ Entries(buckets)' \subseteq Transfers
  <2>1. RegistryInv'
    BY RegistryKept
  <2>2. Entries(buckets') \subseteq Transfers
    BY <2>1 DEF RegistryInv, TableOK, Entries
  <2>3. IsFiniteSet(Entries(buckets'))
    BY <2>2, FS_Subset, ReactorAssumption
  <2>4. count' \in Nat
    BY <2>1, <2>3, FS_CardinalityType DEF RegistryInv, Registered
  <2>q. QED
    BY <2>2, <2>4
<1>1. CASE SetResult
  <2>1. pc = "finish" /\ Advance
    BY <1>1 DEF SetResult, At
  <2>q. QED
    BY <1>1, <1>c, <1>v, <2>1 DEF SetResult, TypeOK
<1>2. CASE Cleanup
  <2>1. pc = "finish" /\ Advance
    BY <1>2 DEF Cleanup, At
  <2>2. cleanups' \in [Transfers -> Nat]
    <3>1. cleanups \in [Transfers -> Nat]
          /\ cleanups' = [cleanups EXCEPT ![cur] = cleanups[cur] + 1]
      BY <1>2 DEF Cleanup, TypeOK
    <3>2. CASE cur \in Transfers
      <4>1. cleanups[cur] + 1 \in Nat
        BY <3>1, <3>2
      <4>q. QED
        BY <3>1, <4>1
    <3>3. CASE cur \notin Transfers
      BY <3>1, <3>3
    <3>q. QED
      BY <3>2, <3>3
  <2>q. QED
    BY <1>2, <1>c, <1>v, <2>1, <2>2 DEF Cleanup, TypeOK
<1>3. CASE Wake
  <2>1. pc = "finish" /\ Advance
    BY <1>3 DEF Wake, At
  <2>q. QED
    BY <1>3, <1>c, <1>v, <2>1 DEF Wake, TypeOK
<1>4. CASE ExecuteOk
  BY <1>4, <1>c, <1>h, <1>h2
  DEF ExecuteOk, Receive, AtLoop, TypeOK, Codes
<1>5. CASE ExecuteFails
  BY <1>5, <1>c, <1>h, <1>h2, <1>l
  DEF ExecuteFails, Receive, AtLoop, Refuse, Begin, TypeOK, Codes
<1>6. CASE CancelTransfer
  <2>1. PICK u \in Transfers : Head(chan).id = Id[u]
    BY <1>6, <1>h2 DEF CancelTransfer, Receive
  <2>2. /\ pc' \in {"loop", "finish"} /\ code' \in Codes
        /\ cur' \in Transfers \cup {NoTransfer} /\ step' \in 1..Len(FinishOrder)
    BY <1>6, <2>1, <1>f, <1>l DEF CancelTransfer, Receive, AtLoop, Begin, TypeOK, Codes
  <2>3. msgs' \subseteq active /\ chan' \in Seq(Messages) /\ Len(chan') <= MaxQueue
    BY <1>6, <1>h DEF CancelTransfer, Receive, AtLoop, TypeOK
  <2>q. QED
    BY <1>6, <1>c, <2>2, <2>3 DEF CancelTransfer, TypeOK
<1>7. CASE ResumeTransfer
  <2>1. PICK u \in Transfers : Head(chan).id = Id[u]
    BY <1>7, <1>h2 DEF ResumeTransfer, Receive
  <2>2. /\ pc' \in {"loop", "finish"} /\ code' \in Codes
        /\ cur' \in Transfers \cup {NoTransfer} /\ step' \in 1..Len(FinishOrder)
    BY <1>7, <2>1, <1>f, <1>l DEF ResumeTransfer, Receive, AtLoop, Begin, TypeOK, Codes
  <2>3. msgs' \subseteq active /\ chan' \in Seq(Messages) /\ Len(chan') <= MaxQueue
    BY <1>7, <1>h DEF ResumeTransfer, Receive, AtLoop, TypeOK
  <2>q. QED
    BY <1>7, <1>c, <2>2, <2>3 DEF ResumeTransfer, TypeOK
<1>8. CASE StopAgent
  BY <1>8, <1>c, <1>h
  DEF StopAgent, Receive, AtLoop, BeginShutdown, TypeOK, Codes
<1>9. ASSUME NEW t \in Transfers, CompleteTransfer(t) PROVE TypeOK'
  BY <1>9, <1>c, <1>l
  DEF CompleteTransfer, Begin, TypeOK, Codes
<1>10. CASE ShutdownTransfer
  BY <1>10, <1>c, <1>l
  DEF ShutdownTransfer, Begin, TypeOK, Codes
<1>11. CASE Drain
  BY <1>11, <1>c, <1>h, <1>h2, <1>l, SMTT(30)
  DEF Drain, DrainFails, Begin, TypeOK, Codes
<1>12. CASE Stopped
  BY <1>12, <1>c
  DEF Stopped, TypeOK, Codes
<1>13. CASE CurlRuns
  BY <1>13, <1>c
  DEF CurlRuns, AtLoop, TypeOK, Codes
<1>14. CASE FatalError
  BY <1>14, <1>c
  DEF FatalError, BeginShutdown, TypeOK, Codes
<1>15. CASE RequestStop
  BY <1>15, <1>c, <1>m, <1>a
  DEF RequestStop, Send, TypeOK, Codes
<1>16. ASSUME NEW t \in Transfers, RequestCancel(t) PROVE TypeOK'
  <2>0. UNCHANGED chan \/ Send(Message("CANCEL", t))
    BY <1>16 DEF RequestCancel
  <2>1. chan' \in Seq(Messages) /\ Len(chan') <= MaxQueue
    <3>1. CASE UNCHANGED chan
      BY <3>1 DEF TypeOK
    <3>2. CASE Send(Message("CANCEL", t))
      BY <3>2, <1>m, <1>a DEF Send
    <3>q. QED
      BY <2>0, <3>1, <3>2
  <2>q. QED
    BY <1>16, <1>c, <2>1 DEF RequestCancel, Becomes, TypeOK
<1>17. ASSUME NEW t \in Transfers, Release(t) PROVE TypeOK'
  BY <1>17, <1>c
  DEF Release, Finished, Becomes, TypeOK, Codes
<1>18. ASSUME NEW t \in Transfers, Submit(t) PROVE TypeOK'
  <2>1. chan' \in Seq(Messages) /\ Len(chan') <= MaxQueue
    BY <1>18, <1>m, <1>a DEF Submit, Send
  <2>q. QED
    BY <1>18, <1>c, <2>1 DEF Submit, Becomes, TypeOK
<1>19. ASSUME NEW t \in Transfers, ReleaseUnsubmitted(t) PROVE TypeOK'
  <2>1. cleanups' \in [Transfers -> Nat]
    BY <1>19 DEF ReleaseUnsubmitted, TypeOK
  <2>2. user' \in [Transfers -> {"new", "running", "cancel", "await", "released"}]
    BY <1>19 DEF ReleaseUnsubmitted, Becomes, TypeOK
  <2>q. QED
    BY <1>19, <1>c, <2>1, <2>2 DEF ReleaseUnsubmitted, TypeOK
<1>20. ASSUME NEW t \in Transfers, StartClose(t) PROVE TypeOK'
  BY <1>20, <1>c
  DEF StartClose, Becomes, TypeOK, Codes
<1>21. ASSUME NEW t \in Transfers, RequestResume(t) PROVE TypeOK'
  BY <1>21, <1>c, <1>m, <1>a
  DEF RequestResume, Send, TypeOK, Codes
<1>u. CASE UNCHANGED vars
  BY <1>u, <1>c DEF TypeOK
<1>q. QED
  BY <1>1, <1>2, <1>3, <1>4, <1>5, <1>6, <1>7, <1>8, <1>9, <1>10, <1>11,
     <1>12, <1>13, <1>14, <1>15, <1>16, <1>17, <1>18, <1>19, <1>20, <1>21,
     <1>u
  DEF Next, ReactorStep, OwnerStep

(* The reactor has a transfer in hand exactly while it finishes one, and    *)
(* closes the sender and empties the registry in one step.                  *)
LEMMA PhaseKept == TypeOK /\ RegistryInv /\ PhaseInv /\ [Next]_vars => PhaseInv'
<1> SUFFICES ASSUME TypeOK, RegistryInv, PhaseInv, [Next]_vars PROVE PhaseInv'
  OBVIOUS
<1> USE ReactorAssumption
    DEF vars, registryVars, chanVars, curlVars, finishVars, resultVars,
        ownerVars, quiet
<1>v. /\ At("result") => pc = "finish" /\ step = 1
      /\ At("cleanup") => pc = "finish" /\ step = 2
      /\ At("wake") => pc = "finish" /\ step = 3
      /\ Len(FinishOrder) = 3
  BY StepFacts
<1>s. buckets' = buckets => Registered' = Registered
  BY DEF Registered
<1>e. (\A i \in DOMAIN buckets' : buckets'[i] = {}) => Registered' = {}
  BY DEF Registered, Entries
<1>h. chan # <<>> =>
        /\ Head(chan).tag = "EXECUTE" => Head(chan).easy \in Transfers
        /\ Head(chan).tag \in {"CANCEL", "RESUME"} =>
             \E t \in Transfers : Head(chan).id = Id[t]
  BY HeadFacts
<1>f. \A t \in Transfers : /\ Find(buckets, Id[t]) \subseteq Registered
                          /\ Registered \subseteq Transfers
  BY FindFacts
<1>1. CASE SetResult
  BY <1>1, <1>s, <1>v DEF SetResult, Advance, PhaseInv, TypeOK
<1>2. CASE Cleanup
  BY <1>2, <1>s, <1>v DEF Cleanup, Advance, PhaseInv, TypeOK
<1>3. CASE Wake
  BY <1>3, <1>s, <1>v DEF Wake, Advance, PhaseInv, TypeOK
<1>4. CASE ExecuteOk
  BY <1>4, <1>s, <1>h, <1>f
  DEF ExecuteOk, Receive, AtLoop, PhaseInv, TypeOK
<1>5. CASE ExecuteFails
  BY <1>5, <1>s, <1>h, <1>f
  DEF ExecuteFails, Receive, AtLoop, Refuse, Begin, PhaseInv, TypeOK
<1>6. CASE CancelTransfer
  BY <1>6, <1>s, <1>h, <1>f
  DEF CancelTransfer, Receive, AtLoop, Begin, PhaseInv, TypeOK
<1>7. CASE ResumeTransfer
  BY <1>7, <1>s, <1>h, <1>f
  DEF ResumeTransfer, Receive, AtLoop, Begin, PhaseInv, TypeOK
<1>8. CASE StopAgent
  BY <1>8, <1>e
  DEF StopAgent, Receive, AtLoop, BeginShutdown, PhaseInv, TypeOK
<1>9. ASSUME NEW t \in Transfers, CompleteTransfer(t) PROVE PhaseInv'
  BY <1>9, <1>s, <1>h, <1>f
  DEF CompleteTransfer, Begin, PhaseInv, TypeOK
<1>10. CASE ShutdownTransfer
  BY <1>10, <1>s, <1>h, <1>f
  DEF ShutdownTransfer, Begin, PhaseInv, TypeOK
<1>11. CASE Drain
  BY <1>11, <1>s, <1>h, <1>f
  DEF Drain, DrainFails, Begin, PhaseInv, TypeOK
<1>12. CASE Stopped
  BY <1>12, <1>e
  DEF Stopped, PhaseInv, TypeOK
<1>13. CASE CurlRuns
  BY <1>13, <1>s
  DEF CurlRuns, AtLoop, PhaseInv
<1>14. CASE FatalError
  BY <1>14, <1>e
  DEF FatalError, BeginShutdown, PhaseInv, TypeOK
<1>15. CASE RequestStop
  BY <1>15, <1>s
  DEF RequestStop, Send, PhaseInv
<1>16. ASSUME NEW t \in Transfers, RequestCancel(t) PROVE PhaseInv'
  BY <1>16, <1>s
  DEF RequestCancel, Send, Becomes, PhaseInv
<1>17. ASSUME NEW t \in Transfers, Release(t) PROVE PhaseInv'
  BY <1>17, <1>s
  DEF Release, Finished, Becomes, PhaseInv
<1>18. ASSUME NEW t \in Transfers, Submit(t) PROVE PhaseInv'
  BY <1>18, <1>s
  DEF Submit, Send, Becomes, PhaseInv
<1>19. ASSUME NEW t \in Transfers, ReleaseUnsubmitted(t) PROVE PhaseInv'
  BY <1>19, <1>s
  DEF ReleaseUnsubmitted, Becomes, PhaseInv
<1>20. ASSUME NEW t \in Transfers, StartClose(t) PROVE PhaseInv'
  BY <1>20, <1>s
  DEF StartClose, Becomes, PhaseInv
<1>21. ASSUME NEW t \in Transfers, RequestResume(t) PROVE PhaseInv'
  BY <1>21, <1>s
  DEF RequestResume, Send, PhaseInv
<1>u. CASE UNCHANGED vars
  BY <1>u, <1>s DEF PhaseInv
<1>q. QED
  BY <1>1, <1>2, <1>3, <1>4, <1>5, <1>6, <1>7, <1>8, <1>9, <1>10, <1>11,
     <1>12, <1>13, <1>14, <1>15, <1>16, <1>17, <1>18, <1>19, <1>20, <1>21,
     <1>u
  DEF Next, ReactorStep, OwnerStep

(* Every step hands an easy handle on to one place at most: submission,     *)
(* execute_transfer, shutdown's detaching, and the finish that cleans it    *)
(* up.                                                                      *)
LEMMA OwnerKept == TypeOK /\ RegistryInv /\ PhaseInv /\ OwnerInv /\ [Next]_vars => OwnerInv'
<1> SUFFICES ASSUME TypeOK, RegistryInv, PhaseInv, OwnerInv, [Next]_vars PROVE OwnerInv'
  OBVIOUS
<1> USE DEF vars, registryVars, chanVars, curlVars, finishVars, resultVars,
        ownerVars, quiet
<1>v. /\ At("result") => pc = "finish" /\ step = 1
      /\ At("cleanup") => pc = "finish" /\ step = 2
      /\ At("wake") => pc = "finish" /\ step = 3
      /\ Len(FinishOrder) = 3
  BY StepFacts
<1>s. buckets' = buckets => Registered' = Registered
  BY DEF Registered
<1>e. (\A i \in DOMAIN buckets' : buckets'[i] = {}) => Registered' = {}
  BY DEF Registered, Entries
<1>k. ASSUME chan' = chan, NEW x \in Transfers
      PROVE  (Queued(x)' <=> Queued(x)) /\ (OnceQueued(x)' <=> OnceQueued(x))
  BY <1>k DEF Queued, OnceQueued
<1>r. ASSUME chan # <<>>, chan' = Tail(chan), NEW x \in Transfers
      PROVE  /\ OnceQueued(x)' /\ (Queued(x)' <=> Queued(x) /\ Head(chan).easy # x)
             /\ Head(chan).easy = x => Queued(x)
  BY <1>r, TakeQueued DEF TypeOK, OwnerInv, OwnerOf
<1>m. /\ Stop \in Messages /\ Stop.easy = NoTransfer
      /\ \A t \in Transfers : \A tag \in {"EXECUTE", "CANCEL", "RESUME"} :
           /\ Message(tag, t) \in Messages
           /\ Message(tag, t).easy = IF tag = "EXECUTE" THEN t ELSE NoTransfer
  BY DEF Messages, Message, Stop
<1>a. ASSUME NEW m \in Messages, chan' = Append(chan, m), NEW x \in Transfers,
             m.easy = x => ~Queued(x)
      PROVE  OnceQueued(x)' /\ (Queued(x)' <=> Queued(x) \/ m.easy = x)
  BY <1>a, SendQueued DEF TypeOK, OwnerInv, OwnerOf
<1>o. \A x \in Transfers : x # NoTransfer
  BY ReactorAssumption
<1>y. /\ done \in [Transfers -> BOOLEAN] /\ cleanups \in [Transfers -> Nat]
      /\ DOMAIN user = Transfers /\ step \in 1..3
  BY <1>v DEF TypeOK
<1>h. chan # <<>> =>
        /\ Head(chan).tag = "EXECUTE" => Head(chan).easy \in Transfers
        /\ Head(chan).tag # "EXECUTE" => Head(chan).easy = NoTransfer
        /\ Head(chan).tag \in {"CANCEL", "RESUME"} =>
             \E t \in Transfers : Head(chan).id = Id[t]
  BY HeadFacts
<1>1. CASE SetResult
  <2> SUFFICES ASSUME NEW x \in Transfers PROVE OwnerOf(x)'
    BY DEF OwnerInv
  <2>1. OwnerOf(x)
    BY DEF OwnerInv
  <2>2. OnceQueued(x)' /\ (Queued(x)' <=> Queued(x))
    BY <1>1, <1>k, <2>1 DEF OwnerOf, SetResult, At, Advance
  <2>3. Registered' = Registered
    BY <1>1, <1>s DEF SetResult, At, Advance
  <2>q. QED
    BY <1>1, <2>1, <2>2, <2>3, <1>y, <1>o, <1>v
    DEF SetResult, At, Advance, OwnerOf, PhaseInv, TypeOK
<1>2. CASE Cleanup
  <2> SUFFICES ASSUME NEW x \in Transfers PROVE OwnerOf(x)'
    BY DEF OwnerInv
  <2>1. OwnerOf(x)
    BY DEF OwnerInv
  <2>2. OnceQueued(x)' /\ (Queued(x)' <=> Queued(x))
    BY <1>2, <1>k, <2>1 DEF OwnerOf, Cleanup, At, Advance
  <2>3. Registered' = Registered
    BY <1>2, <1>s DEF Cleanup, At, Advance
  <2>q. QED
    BY <1>2, <2>1, <2>2, <2>3, <1>y, <1>o, <1>v
    DEF Cleanup, At, Advance, OwnerOf, PhaseInv, TypeOK
<1>3. CASE Wake
  <2> SUFFICES ASSUME NEW x \in Transfers PROVE OwnerOf(x)'
    BY DEF OwnerInv
  <2>1. OwnerOf(x)
    BY DEF OwnerInv
  <2>2. OnceQueued(x)' /\ (Queued(x)' <=> Queued(x))
    BY <1>3, <1>k, <2>1 DEF OwnerOf, Wake, At, Advance
  <2>3. Registered' = Registered
    BY <1>3, <1>s DEF Wake, At, Advance
  <2>q. QED
    BY <1>3, <2>1, <2>2, <2>3, <1>y, <1>o, <1>v
    DEF Wake, At, Advance, OwnerOf, PhaseInv, TypeOK
<1>4. CASE ExecuteOk
  <2> SUFFICES ASSUME NEW x \in Transfers PROVE OwnerOf(x)'
    BY DEF OwnerInv
  <2>1. OwnerOf(x)
    BY DEF OwnerInv
  <2>4. /\ Head(chan).easy \in Transfers /\ pc # "stopped"
        /\ Find(buckets, Id[Head(chan).easy]) = {} /\ Insert(Head(chan).easy)
    BY <1>4, <1>h DEF ExecuteOk, Receive, AtLoop
  <2>2. /\ OnceQueued(x)' /\ (Queued(x)' <=> Queued(x) /\ Head(chan).easy # x)
        /\ Head(chan).easy = x => Queued(x)
    BY <1>4, <1>r DEF ExecuteOk, Receive, AtLoop
  <2>3. Registered' = Registered \cup {Head(chan).easy}
    BY <2>4, InsertEffect
  <2>q. QED
    BY <1>4, <2>1, <2>2, <2>3, <1>y, <1>o, <1>h
    DEF ExecuteOk, Receive, AtLoop, OwnerOf, PhaseInv
<1>5. CASE ExecuteFails
  <2> SUFFICES ASSUME NEW x \in Transfers PROVE OwnerOf(x)'
    BY DEF OwnerInv
  <2>1. OwnerOf(x)
    BY DEF OwnerInv
  <2>2. /\ OnceQueued(x)' /\ (Queued(x)' <=> Queued(x) /\ Head(chan).easy # x)
        /\ Head(chan).easy = x => Queued(x)
    BY <1>5, <1>r DEF ExecuteFails, Receive, AtLoop, Refuse, Begin
  <2>3. Registered' = Registered
    BY <1>5, <1>s DEF ExecuteFails, Receive, AtLoop, Refuse, Begin
  <2>q. QED
    BY <1>5, <2>1, <2>2, <2>3, <1>y, <1>o, <1>h
    DEF ExecuteFails, Receive, AtLoop, Refuse, Begin, OwnerOf, PhaseInv
<1>6. CASE CancelTransfer
  <2> SUFFICES ASSUME NEW x \in Transfers PROVE OwnerOf(x)'
    BY DEF OwnerInv
  <2>1. OwnerOf(x)
    BY DEF OwnerInv
  <2>2. OnceQueued(x)' /\ (Queued(x)' <=> Queued(x))
    BY <1>6, <1>r, <1>h, <1>o DEF CancelTransfer, Receive, AtLoop, Begin
  <2>4. PICK u \in Transfers : Head(chan).id = Id[u]
    BY <1>6, <1>h DEF CancelTransfer, Receive
  <2>5. Find(buckets, Id[u]) \subseteq Registered
        /\ \A e \in Find(buckets, Id[u]) : Find(buckets, Id[u]) = {e}
    BY FindFacts
  <2>7. Registered' = Registered \ Find(buckets, Id[u])
    BY <1>6, <2>4, RemoveEffect DEF CancelTransfer
  <2>3. \/ Registered' = Registered /\ UNCHANGED <<cur, step>>
        \/ \E e \in Registered : Registered' = Registered \ {e} /\ cur' = e /\ step' = 1
    BY <1>6, <2>4, <2>5, <2>7 DEF CancelTransfer, Begin
  <2>6. cur = NoTransfer /\ UNCHANGED <<active, todo, cleanups, done, user>>
    BY <1>6 DEF CancelTransfer, Receive, AtLoop, PhaseInv
  <2>q. QED
    BY <2>1, <2>2, <2>3, <2>6, <1>y, <1>o DEF OwnerOf
<1>7. CASE ResumeTransfer
  <2> SUFFICES ASSUME NEW x \in Transfers PROVE OwnerOf(x)'
    BY DEF OwnerInv
  <2>1. OwnerOf(x)
    BY DEF OwnerInv
  <2>2. OnceQueued(x)' /\ (Queued(x)' <=> Queued(x))
    BY <1>7, <1>r, <1>h, <1>o DEF ResumeTransfer, Receive, AtLoop, Begin
  <2>4. PICK u \in Transfers : Head(chan).id = Id[u]
    BY <1>7, <1>h DEF ResumeTransfer, Receive
  <2>5. Find(buckets, Id[u]) \subseteq Registered
        /\ \A e \in Find(buckets, Id[u]) : Find(buckets, Id[u]) = {e}
    BY FindFacts
  <2>7. Remove(Id[u]) => Registered' = Registered \ Find(buckets, Id[u])
    BY RemoveEffect
  <2>3. \/ Registered' = Registered /\ UNCHANGED <<cur, step>>
        \/ \E e \in Registered : Registered' = Registered \ {e} /\ cur' = e /\ step' = 1
    BY <1>7, <1>s, <2>4, <2>5, <2>7 DEF ResumeTransfer, Begin
  <2>6. cur = NoTransfer /\ UNCHANGED <<active, todo, cleanups, done, user>>
    BY <1>7 DEF ResumeTransfer, Receive, AtLoop, PhaseInv
  <2>q. QED
    BY <2>1, <2>2, <2>3, <2>6, <1>y, <1>o DEF OwnerOf
<1>8. CASE StopAgent
  <2> SUFFICES ASSUME NEW x \in Transfers PROVE OwnerOf(x)'
    BY DEF OwnerInv
  <2>1. OwnerOf(x)
    BY DEF OwnerInv
  <2>2. /\ OnceQueued(x)' /\ (Queued(x)' <=> Queued(x) /\ Head(chan).easy # x)
        /\ Head(chan).easy = x => Queued(x)
    BY <1>8, <1>r DEF StopAgent, Receive, AtLoop, BeginShutdown
  <2>3. Registered' = {} /\ todo' = Registered
    BY <1>8, <1>e DEF StopAgent, BeginShutdown, Registered
  <2>q. QED
    BY <1>8, <2>1, <2>2, <2>3, <1>y, <1>o, <1>h
    DEF StopAgent, Receive, AtLoop, BeginShutdown, OwnerOf, PhaseInv
<1>9. ASSUME NEW t \in Transfers, CompleteTransfer(t) PROVE OwnerInv'
  <2> SUFFICES ASSUME NEW x \in Transfers PROVE OwnerOf(x)'
    BY DEF OwnerInv
  <2>1. OwnerOf(x)
    BY DEF OwnerInv
  <2>2. OnceQueued(x)' /\ (Queued(x)' <=> Queued(x))
    BY <1>9, <1>k, <2>1 DEF OwnerOf, CompleteTransfer, Begin
  <2>4. t \in Registered
    BY <1>9, <1>o DEF CompleteTransfer, OwnerInv, OwnerOf, PhaseInv, TypeOK
  <2>5. Find(buckets, Id[t]) = {t}
    BY <2>4, FindFacts
  <2>7. Registered' = Registered \ Find(buckets, Id[t])
    BY <1>9, RemoveEffect DEF CompleteTransfer
  <2>3. \/ Registered' = Registered /\ UNCHANGED <<cur, step>>
        \/ \E e \in Registered : Registered' = Registered \ {e} /\ cur' = e /\ step' = 1
    BY <1>9, <2>4, <2>5, <2>7 DEF CompleteTransfer, Begin
  <2>6. cur = NoTransfer /\ UNCHANGED <<active, todo, cleanups, done, user>>
    BY <1>9 DEF CompleteTransfer, PhaseInv
  <2>q. QED
    BY <2>1, <2>2, <2>3, <2>6, <1>y, <1>o DEF OwnerOf
<1>10. CASE ShutdownTransfer
  <2> SUFFICES ASSUME NEW x \in Transfers PROVE OwnerOf(x)'
    BY DEF OwnerInv
  <2>1. OwnerOf(x)
    BY DEF OwnerInv
  <2>2. OnceQueued(x)' /\ (Queued(x)' <=> Queued(x))
    BY <1>10, <1>k, <2>1 DEF OwnerOf, ShutdownTransfer, Begin
  <2>3. Registered' = Registered
    BY <1>10, <1>s DEF ShutdownTransfer, Begin
  <2>q. QED
    BY <1>10, <2>1, <2>2, <2>3, <1>y, <1>o, <1>v
    DEF ShutdownTransfer, Begin, OwnerOf, PhaseInv, TypeOK
<1>11. CASE Drain
  <2> SUFFICES ASSUME NEW x \in Transfers PROVE OwnerOf(x)'
    BY DEF OwnerInv
  <2>1. OwnerOf(x)
    BY DEF OwnerInv
  <2>2. /\ OnceQueued(x)' /\ (Queued(x)' <=> Queued(x) /\ Head(chan).easy # x)
        /\ Head(chan).easy = x => Queued(x)
    BY <1>11, <1>r DEF Drain, DrainFails, Begin
  <2>3. Registered' = Registered
    BY <1>11, <1>s DEF Drain, DrainFails, Begin
  <2>q. QED
    BY <1>11, <2>1, <2>2, <2>3, <1>y, <1>o, <1>h
    DEF Drain, DrainFails, Begin, OwnerOf, PhaseInv
<1>12. CASE Stopped
  <2> SUFFICES ASSUME NEW x \in Transfers PROVE OwnerOf(x)'
    BY DEF OwnerInv
  <2>1. OwnerOf(x)
    BY DEF OwnerInv
  <2>2. OnceQueued(x)' /\ (Queued(x)' <=> Queued(x))
    BY <1>12, <1>k, <2>1 DEF OwnerOf, Stopped
  <2>3. Registered' = {}
    BY <1>12, <1>e DEF Stopped
  <2>q. QED
    BY <1>12, <2>1, <2>2, <2>3, <1>y, <1>o
    DEF Stopped, OwnerOf, PhaseInv
<1>13. CASE CurlRuns
  <2> SUFFICES ASSUME NEW x \in Transfers PROVE OwnerOf(x)'
    BY DEF OwnerInv
  <2>1. OwnerOf(x)
    BY DEF OwnerInv
  <2>2. OnceQueued(x)' /\ (Queued(x)' <=> Queued(x))
    BY <1>13, <1>k, <2>1 DEF OwnerOf, CurlRuns, AtLoop
  <2>3. Registered' = Registered
    BY <1>13, <1>s DEF CurlRuns, AtLoop
  <2>q. QED
    BY <1>13, <2>1, <2>2, <2>3, <1>y, <1>o, <1>v
    DEF CurlRuns, AtLoop, OwnerOf, PhaseInv, TypeOK
<1>14. CASE FatalError
  <2> SUFFICES ASSUME NEW x \in Transfers PROVE OwnerOf(x)'
    BY DEF OwnerInv
  <2>1. OwnerOf(x)
    BY DEF OwnerInv
  <2>2. OnceQueued(x)' /\ (Queued(x)' <=> Queued(x))
    BY <1>14, <1>k, <2>1 DEF OwnerOf, FatalError, BeginShutdown
  <2>3. Registered' = {} /\ todo' = Registered
    BY <1>14, <1>e DEF FatalError, BeginShutdown, Registered
  <2>q. QED
    BY <1>14, <2>1, <2>2, <2>3, <1>y, <1>o
    DEF FatalError, BeginShutdown, OwnerOf, PhaseInv
<1>15. CASE RequestStop
  <2> SUFFICES ASSUME NEW x \in Transfers PROVE OwnerOf(x)'
    BY DEF OwnerInv
  <2>1. OwnerOf(x)
    BY DEF OwnerInv
  <2>2. OnceQueued(x)' /\ (Queued(x)' <=> Queued(x) \/ Stop.easy = x)
    BY <1>15, <1>a, <1>m, <1>o, <2>1 DEF OwnerOf, RequestStop, Send
  <2>3. Registered' = Registered
    BY <1>15, <1>s DEF RequestStop, Send
  <2>q. QED
    BY <1>15, <2>1, <2>2, <2>3, <1>y, <1>o, <1>m
    DEF RequestStop, Send, OwnerOf
<1>16. ASSUME NEW t \in Transfers, RequestCancel(t) PROVE OwnerInv'
  <2> SUFFICES ASSUME NEW x \in Transfers PROVE OwnerOf(x)'
    BY DEF OwnerInv
  <2>1. OwnerOf(x)
    BY DEF OwnerInv
  <2>4. UNCHANGED chan \/ Send(Message("CANCEL", t))
    BY <1>16 DEF RequestCancel
  <2>2. OnceQueued(x)' /\ (Queued(x)' <=> Queued(x))
    BY <2>4, <1>k, <1>a, <1>m, <1>o, <2>1 DEF OwnerOf, Send
  <2>3. Registered' = Registered
    BY <1>16, <1>s DEF RequestCancel, Send, Becomes
  <2>q. QED
    BY <1>16, <2>1, <2>2, <2>3, <1>y, <1>o
    DEF RequestCancel, Send, Becomes, OwnerOf
<1>17. ASSUME NEW t \in Transfers, Release(t) PROVE OwnerInv'
  <2> SUFFICES ASSUME NEW x \in Transfers PROVE OwnerOf(x)'
    BY DEF OwnerInv
  <2>1. OwnerOf(x)
    BY DEF OwnerInv
  <2>2. OnceQueued(x)' /\ (Queued(x)' <=> Queued(x))
    BY <1>17, <1>k, <2>1 DEF OwnerOf, Release, Finished, Becomes
  <2>3. Registered' = Registered
    BY <1>17, <1>s DEF Release, Finished, Becomes
  <2>q. QED
    BY <1>17, <2>1, <2>2, <2>3, <1>y, <1>o, <1>v
    DEF Release, Finished, Becomes, OwnerOf
<1>18. ASSUME NEW t \in Transfers, Submit(t) PROVE OwnerInv'
  <2> SUFFICES ASSUME NEW x \in Transfers PROVE OwnerOf(x)'
    BY DEF OwnerInv
  <2>1. OwnerOf(x)
    BY DEF OwnerInv
  <2>2. OnceQueued(x)' /\ (Queued(x)' <=> Queued(x) \/ Message("EXECUTE", t).easy = x)
    BY <1>18, <1>a, <1>m, <1>o, <2>1 DEF OwnerOf, Submit, Send, Becomes
  <2>3. Registered' = Registered
    BY <1>18, <1>s DEF Submit, Send, Becomes
  <2>q. QED
    BY <1>18, <2>1, <2>2, <2>3, <1>y, <1>o, <1>m
    DEF Submit, Send, Becomes, OwnerOf
<1>19. ASSUME NEW t \in Transfers, ReleaseUnsubmitted(t) PROVE OwnerInv'
  <2> SUFFICES ASSUME NEW x \in Transfers PROVE OwnerOf(x)'
    BY DEF OwnerInv
  <2>1. OwnerOf(x)
    BY DEF OwnerInv
  <2>2. OnceQueued(x)' /\ (Queued(x)' <=> Queued(x))
    BY <1>19, <1>k, <2>1 DEF OwnerOf, ReleaseUnsubmitted, Becomes
  <2>3. Registered' = Registered
    BY <1>19, <1>s DEF ReleaseUnsubmitted, Becomes
  <2>q. QED
    BY <1>19, <2>1, <2>2, <2>3, <1>y, <1>o, <1>v
    DEF ReleaseUnsubmitted, Becomes, OwnerOf
<1>20. ASSUME NEW t \in Transfers, StartClose(t) PROVE OwnerInv'
  <2> SUFFICES ASSUME NEW x \in Transfers PROVE OwnerOf(x)'
    BY DEF OwnerInv
  <2>1. OwnerOf(x)
    BY DEF OwnerInv
  <2>2. OnceQueued(x)' /\ (Queued(x)' <=> Queued(x))
    BY <1>20, <1>k, <2>1 DEF OwnerOf, StartClose, Becomes
  <2>3. Registered' = Registered
    BY <1>20, <1>s DEF StartClose, Becomes
  <2>q. QED
    BY <1>20, <2>1, <2>2, <2>3, <1>y, <1>o, <1>v
    DEF StartClose, Becomes, OwnerOf
<1>21. ASSUME NEW t \in Transfers, RequestResume(t) PROVE OwnerInv'
  <2> SUFFICES ASSUME NEW x \in Transfers PROVE OwnerOf(x)'
    BY DEF OwnerInv
  <2>1. OwnerOf(x)
    BY DEF OwnerInv
  <2>2. OnceQueued(x)' /\ (Queued(x)' <=> Queued(x) \/ Message("RESUME", t).easy = x)
    BY <1>21, <1>a, <1>m, <1>o, <2>1 DEF OwnerOf, RequestResume, Send
  <2>3. Registered' = Registered
    BY <1>21, <1>s DEF RequestResume, Send
  <2>q. QED
    BY <1>21, <2>1, <2>2, <2>3, <1>y, <1>o, <1>m
    DEF RequestResume, Send, OwnerOf
<1>u. CASE UNCHANGED vars
  <2> SUFFICES ASSUME NEW x \in Transfers PROVE OwnerOf(x)'
    BY DEF OwnerInv
  <2>1. OwnerOf(x)
    BY DEF OwnerInv
  <2>q. QED
    BY <1>u, <1>s, <1>k, <2>1 DEF OwnerOf
<1>q. QED
  BY <1>1, <1>2, <1>3, <1>4, <1>5, <1>6, <1>7, <1>8, <1>9, <1>10, <1>11,
     <1>12, <1>13, <1>14, <1>15, <1>16, <1>17, <1>18, <1>19, <1>20, <1>21,
     <1>u
  DEF Next, ReactorStep, OwnerStep

(* CANCEL is sent by requestCancel alone, STOP by stopAgent, and the abort  *)
(* code follows from nothing else.                                          *)
LEMMA CauseKept == TypeOK /\ RegistryInv /\ PhaseInv /\ CauseInv /\ [Next]_vars => CauseInv'
<1> SUFFICES ASSUME TypeOK, RegistryInv, PhaseInv, CauseInv, [Next]_vars PROVE CauseInv'
  OBVIOUS
<1> USE DEF vars, registryVars, chanVars, curlVars, finishVars, resultVars,
        ownerVars, quiet
<1>m. cancelled \subseteq cancelled'
  BY DEF Next, ReactorStep, OwnerStep, BeginShutdown, CancelTransfer,
         Cleanup, CompleteTransfer, CurlRuns, Drain, ExecuteFails,
         ExecuteOk, FatalError, Release, ReleaseUnsubmitted, RequestCancel,
         RequestResume, RequestStop, ResumeTransfer, SetResult,
         ShutdownTransfer, StartClose, StopAgent, Stopped, Submit, Wake
<1>s. stopping => stopping'
  BY DEF Next, ReactorStep, OwnerStep, BeginShutdown, CancelTransfer,
         Cleanup, CompleteTransfer, CurlRuns, Drain, ExecuteFails,
         ExecuteOk, FatalError, Release, ReleaseUnsubmitted, RequestCancel,
         RequestResume, RequestStop, ResumeTransfer, SetResult,
         ShutdownTransfer, StartClose, StopAgent, Stopped, Submit, Wake
<1>c. /\ ClosingIds \subseteq ClosingIds'
      /\ \A m \in Messages : Caused(m) => Caused(m)'
  BY <1>m, <1>s DEF ClosingIds, Caused
<1>d. \A i \in 1..Len(chan) : chan[i] \in Messages /\ Caused(chan[i])
  BY DEF TypeOK, CauseInv
<1>k. ASSUME chan' = chan PROVE \A i \in 1..Len(chan') : Caused(chan[i])'
  BY <1>k, <1>c, <1>d
<1>r. ASSUME chan # <<>>, chan' = Tail(chan)
      PROVE  Caused(Head(chan)) /\ \A i \in 1..Len(chan') : Caused(chan[i])'
  BY <1>r, <1>c, <1>d, TakeEffect DEF TypeOK
<1>a. ASSUME NEW m \in Messages, chan' = Append(chan, m), Caused(m)'
      PROVE  \A i \in 1..Len(chan') : Caused(chan[i])'
  BY <1>a, <1>c, <1>d, SendEffect DEF TypeOK
<1>1. CASE SetResult
  <2>1. \A i \in 1..Len(chan') : Caused(chan[i])'
    BY <1>1, <1>k
    DEF SetResult, At, Advance
  <2>2. senderClosed' /\ code' = "aborted" => stopping'
    BY <1>1, <1>s
    DEF SetResult, At, Advance, CauseInv, PhaseInv
  <2>3. pc' = "finish" /\ code' = "aborted" => stopping' \/ (Id[cur] \in ClosingIds)'
    BY <1>1, <1>s, <1>c
    DEF SetResult, At, Advance, CauseInv, PhaseInv
  <2>q. QED
    BY <2>1, <2>2, <2>3 DEF CauseInv
<1>2. CASE Cleanup
  <2>1. \A i \in 1..Len(chan') : Caused(chan[i])'
    BY <1>2, <1>k
    DEF Cleanup, At, Advance
  <2>2. senderClosed' /\ code' = "aborted" => stopping'
    BY <1>2, <1>s
    DEF Cleanup, At, Advance, CauseInv, PhaseInv
  <2>3. pc' = "finish" /\ code' = "aborted" => stopping' \/ (Id[cur] \in ClosingIds)'
    BY <1>2, <1>s, <1>c
    DEF Cleanup, At, Advance, CauseInv, PhaseInv
  <2>q. QED
    BY <2>1, <2>2, <2>3 DEF CauseInv
<1>3. CASE Wake
  <2>1. \A i \in 1..Len(chan') : Caused(chan[i])'
    BY <1>3, <1>k
    DEF Wake, At, Advance
  <2>2. senderClosed' /\ code' = "aborted" => stopping'
    BY <1>3, <1>s
    DEF Wake, At, Advance, CauseInv, PhaseInv
  <2>3. pc' = "finish" /\ code' = "aborted" => stopping' \/ (Id[cur] \in ClosingIds)'
    BY <1>3, <1>s, <1>c
    DEF Wake, At, Advance, CauseInv, PhaseInv
  <2>q. QED
    BY <2>1, <2>2, <2>3 DEF CauseInv
<1>4. CASE ExecuteOk
  <2>1. \A i \in 1..Len(chan') : Caused(chan[i])'
    BY <1>4, <1>r
    DEF ExecuteOk, Receive, AtLoop
  <2>2. senderClosed' /\ code' = "aborted" => stopping'
    BY <1>4, <1>s
    DEF ExecuteOk, Receive, AtLoop, CauseInv, PhaseInv
  <2>3. pc' = "finish" /\ code' = "aborted" => stopping' \/ (Id[cur] \in ClosingIds)'
    BY <1>4, <1>s, <1>c
    DEF ExecuteOk, Receive, AtLoop, CauseInv, PhaseInv
  <2>q. QED
    BY <2>1, <2>2, <2>3 DEF CauseInv
<1>5. CASE ExecuteFails
  <2>1. \A i \in 1..Len(chan') : Caused(chan[i])'
    BY <1>5, <1>r
    DEF ExecuteFails, Receive, AtLoop, Refuse, Begin
  <2>2. senderClosed' /\ code' = "aborted" => stopping'
    BY <1>5, <1>s
    DEF ExecuteFails, Receive, AtLoop, Refuse, Begin, CauseInv, PhaseInv
  <2>3. pc' = "finish" /\ code' = "aborted" => stopping' \/ (Id[cur] \in ClosingIds)'
    BY <1>5, <1>s, <1>c
    DEF ExecuteFails, Receive, AtLoop, Refuse, Begin, CauseInv, PhaseInv
  <2>q. QED
    BY <2>1, <2>2, <2>3 DEF CauseInv
<1>6. CASE CancelTransfer
  <2>4. PICK u \in Transfers : Head(chan).id = Id[u]
    BY <1>6, HeadFacts DEF CancelTransfer, Receive
  <2>5. \A e \in Find(buckets, Id[u]) : Id[e] = Id[u]
    BY FindFacts
  <2>6. Id[u] \in ClosingIds
    BY <1>6, <1>r, <2>4 DEF CancelTransfer, Receive, Caused
  <2>1. \A i \in 1..Len(chan') : Caused(chan[i])'
    BY <1>6, <1>r
    DEF CancelTransfer, Receive, AtLoop, Begin
  <2>2. senderClosed' /\ code' = "aborted" => stopping'
    BY <1>6, <1>s
    DEF CancelTransfer, Receive, AtLoop, Begin, CauseInv, PhaseInv
  <2>3. pc' = "finish" /\ code' = "aborted" => stopping' \/ (Id[cur] \in ClosingIds)'
    BY <1>6, <1>s, <1>c, <2>4, <2>5, <2>6
    DEF CancelTransfer, Receive, AtLoop, Begin, CauseInv, PhaseInv
  <2>q. QED
    BY <2>1, <2>2, <2>3 DEF CauseInv
<1>7. CASE ResumeTransfer
  <2>1. \A i \in 1..Len(chan') : Caused(chan[i])'
    BY <1>7, <1>r
    DEF ResumeTransfer, Receive, AtLoop, Begin
  <2>2. senderClosed' /\ code' = "aborted" => stopping'
    BY <1>7, <1>s
    DEF ResumeTransfer, Receive, AtLoop, Begin, CauseInv, PhaseInv
  <2>3. pc' = "finish" /\ code' = "aborted" => stopping' \/ (Id[cur] \in ClosingIds)'
    BY <1>7, <1>s, <1>c
    DEF ResumeTransfer, Receive, AtLoop, Begin, CauseInv, PhaseInv
  <2>q. QED
    BY <2>1, <2>2, <2>3 DEF CauseInv
<1>8. CASE StopAgent
  <2>4. stopping
    BY <1>8, <1>r DEF StopAgent, Receive, Caused
  <2>1. \A i \in 1..Len(chan') : Caused(chan[i])'
    BY <1>8, <1>r
    DEF StopAgent, Receive, AtLoop, BeginShutdown
  <2>2. senderClosed' /\ code' = "aborted" => stopping'
    BY <1>8, <1>s, <2>4
    DEF StopAgent, Receive, AtLoop, BeginShutdown, CauseInv, PhaseInv
  <2>3. pc' = "finish" /\ code' = "aborted" => stopping' \/ (Id[cur] \in ClosingIds)'
    BY <1>8, <1>s, <1>c
    DEF StopAgent, Receive, AtLoop, BeginShutdown, CauseInv, PhaseInv
  <2>q. QED
    BY <2>1, <2>2, <2>3 DEF CauseInv
<1>9. ASSUME NEW t \in Transfers, CompleteTransfer(t) PROVE CauseInv'
  <2>1. \A i \in 1..Len(chan') : Caused(chan[i])'
    BY <1>9, <1>k
    DEF CompleteTransfer, Begin
  <2>2. senderClosed' /\ code' = "aborted" => stopping'
    BY <1>9, <1>s
    DEF CompleteTransfer, Begin, CauseInv, PhaseInv
  <2>3. pc' = "finish" /\ code' = "aborted" => stopping' \/ (Id[cur] \in ClosingIds)'
    BY <1>9, <1>s, <1>c
    DEF CompleteTransfer, Begin, CauseInv, PhaseInv
  <2>q. QED
    BY <2>1, <2>2, <2>3 DEF CauseInv
<1>10. CASE ShutdownTransfer
  <2>1. \A i \in 1..Len(chan') : Caused(chan[i])'
    BY <1>10, <1>k
    DEF ShutdownTransfer, Begin
  <2>2. senderClosed' /\ code' = "aborted" => stopping'
    BY <1>10, <1>s
    DEF ShutdownTransfer, Begin, CauseInv, PhaseInv
  <2>3. pc' = "finish" /\ code' = "aborted" => stopping' \/ (Id[cur] \in ClosingIds)'
    BY <1>10, <1>s, <1>c
    DEF ShutdownTransfer, Begin, CauseInv, PhaseInv
  <2>q. QED
    BY <2>1, <2>2, <2>3 DEF CauseInv
<1>11. CASE Drain
  <2>1. \A i \in 1..Len(chan') : Caused(chan[i])'
    BY <1>11, <1>r
    DEF Drain, DrainFails, Begin
  <2>2. senderClosed' /\ code' = "aborted" => stopping'
    BY <1>11, <1>s
    DEF Drain, DrainFails, Begin, CauseInv, PhaseInv
  <2>3. pc' = "finish" /\ code' = "aborted" => stopping' \/ (Id[cur] \in ClosingIds)'
    BY <1>11, <1>s, <1>c
    DEF Drain, DrainFails, Begin, CauseInv, PhaseInv
  <2>q. QED
    BY <2>1, <2>2, <2>3 DEF CauseInv
<1>12. CASE Stopped
  <2>1. \A i \in 1..Len(chan') : Caused(chan[i])'
    BY <1>12, <1>k
    DEF Stopped
  <2>2. senderClosed' /\ code' = "aborted" => stopping'
    BY <1>12, <1>s
    DEF Stopped, CauseInv, PhaseInv
  <2>3. pc' = "finish" /\ code' = "aborted" => stopping' \/ (Id[cur] \in ClosingIds)'
    BY <1>12, <1>s, <1>c
    DEF Stopped, CauseInv, PhaseInv
  <2>q. QED
    BY <2>1, <2>2, <2>3 DEF CauseInv
<1>13. CASE CurlRuns
  <2>1. \A i \in 1..Len(chan') : Caused(chan[i])'
    BY <1>13, <1>k
    DEF CurlRuns, AtLoop
  <2>2. senderClosed' /\ code' = "aborted" => stopping'
    BY <1>13, <1>s
    DEF CurlRuns, AtLoop, CauseInv, PhaseInv
  <2>3. pc' = "finish" /\ code' = "aborted" => stopping' \/ (Id[cur] \in ClosingIds)'
    BY <1>13, <1>s, <1>c
    DEF CurlRuns, AtLoop, CauseInv, PhaseInv
  <2>q. QED
    BY <2>1, <2>2, <2>3 DEF CauseInv
<1>14. CASE FatalError
  <2>1. \A i \in 1..Len(chan') : Caused(chan[i])'
    BY <1>14, <1>k
    DEF FatalError, BeginShutdown
  <2>2. senderClosed' /\ code' = "aborted" => stopping'
    BY <1>14, <1>s
    DEF FatalError, BeginShutdown, CauseInv, PhaseInv
  <2>3. pc' = "finish" /\ code' = "aborted" => stopping' \/ (Id[cur] \in ClosingIds)'
    BY <1>14, <1>s, <1>c
    DEF FatalError, BeginShutdown, CauseInv, PhaseInv
  <2>q. QED
    BY <2>1, <2>2, <2>3 DEF CauseInv
<1>15. CASE RequestStop
  <2>4. Stop \in Messages /\ Caused(Stop)'
    BY <1>15 DEF RequestStop, Send, Messages, Message, Stop, Caused, ClosingIds
  <2>1. \A i \in 1..Len(chan') : Caused(chan[i])'
    BY <1>15, <1>a, <2>4
    DEF RequestStop, Send
  <2>2. senderClosed' /\ code' = "aborted" => stopping'
    BY <1>15, <1>s
    DEF RequestStop, Send, CauseInv, PhaseInv
  <2>3. pc' = "finish" /\ code' = "aborted" => stopping' \/ (Id[cur] \in ClosingIds)'
    BY <1>15, <1>s, <1>c
    DEF RequestStop, Send, CauseInv, PhaseInv
  <2>q. QED
    BY <2>1, <2>2, <2>3 DEF CauseInv
<1>16. ASSUME NEW t \in Transfers, RequestCancel(t) PROVE CauseInv'
  <2>0. \/ chan' = chan
        \/ chan' = Append(chan, Message("CANCEL", t)) /\ t \in cancelled'
    BY <1>16 DEF RequestCancel, Send
  <2>4. ASSUME t \in cancelled'
        PROVE  Message("CANCEL", t) \in Messages /\ Caused(Message("CANCEL", t))'
    BY <2>4 DEF Messages, Message, Stop, Caused, ClosingIds
  <2>1. \A i \in 1..Len(chan') : Caused(chan[i])'
    BY <2>0, <1>a, <1>k, <2>4
  <2>2. senderClosed' /\ code' = "aborted" => stopping'
    BY <1>16, <1>s
    DEF RequestCancel, Send, Becomes, CauseInv, PhaseInv
  <2>3. pc' = "finish" /\ code' = "aborted" => stopping' \/ (Id[cur] \in ClosingIds)'
    BY <1>16, <1>s, <1>c
    DEF RequestCancel, Send, Becomes, CauseInv, PhaseInv
  <2>q. QED
    BY <2>1, <2>2, <2>3 DEF CauseInv
<1>17. ASSUME NEW t \in Transfers, Release(t) PROVE CauseInv'
  <2>1. \A i \in 1..Len(chan') : Caused(chan[i])'
    BY <1>17, <1>k
    DEF Release, Finished, Becomes
  <2>2. senderClosed' /\ code' = "aborted" => stopping'
    BY <1>17, <1>s
    DEF Release, Finished, Becomes, CauseInv, PhaseInv
  <2>3. pc' = "finish" /\ code' = "aborted" => stopping' \/ (Id[cur] \in ClosingIds)'
    BY <1>17, <1>s, <1>c
    DEF Release, Finished, Becomes, CauseInv, PhaseInv
  <2>q. QED
    BY <2>1, <2>2, <2>3 DEF CauseInv
<1>18. ASSUME NEW t \in Transfers, Submit(t) PROVE CauseInv'
  <2>4. Message("EXECUTE", t) \in Messages /\ Caused(Message("EXECUTE", t))'
    BY <1>18 DEF Submit, Send, Becomes, Messages, Message, Stop, Caused, ClosingIds
  <2>1. \A i \in 1..Len(chan') : Caused(chan[i])'
    BY <1>18, <1>a, <2>4
    DEF Submit, Send, Becomes
  <2>2. senderClosed' /\ code' = "aborted" => stopping'
    BY <1>18, <1>s
    DEF Submit, Send, Becomes, CauseInv, PhaseInv
  <2>3. pc' = "finish" /\ code' = "aborted" => stopping' \/ (Id[cur] \in ClosingIds)'
    BY <1>18, <1>s, <1>c
    DEF Submit, Send, Becomes, CauseInv, PhaseInv
  <2>q. QED
    BY <2>1, <2>2, <2>3 DEF CauseInv
<1>19. ASSUME NEW t \in Transfers, ReleaseUnsubmitted(t) PROVE CauseInv'
  <2>1. \A i \in 1..Len(chan') : Caused(chan[i])'
    BY <1>19, <1>k
    DEF ReleaseUnsubmitted, Becomes
  <2>2. senderClosed' /\ code' = "aborted" => stopping'
    BY <1>19, <1>s
    DEF ReleaseUnsubmitted, Becomes, CauseInv, PhaseInv
  <2>3. pc' = "finish" /\ code' = "aborted" => stopping' \/ (Id[cur] \in ClosingIds)'
    BY <1>19, <1>s, <1>c
    DEF ReleaseUnsubmitted, Becomes, CauseInv, PhaseInv
  <2>q. QED
    BY <2>1, <2>2, <2>3 DEF CauseInv
<1>20. ASSUME NEW t \in Transfers, StartClose(t) PROVE CauseInv'
  <2>1. \A i \in 1..Len(chan') : Caused(chan[i])'
    BY <1>20, <1>k
    DEF StartClose, Becomes
  <2>2. senderClosed' /\ code' = "aborted" => stopping'
    BY <1>20, <1>s
    DEF StartClose, Becomes, CauseInv, PhaseInv
  <2>3. pc' = "finish" /\ code' = "aborted" => stopping' \/ (Id[cur] \in ClosingIds)'
    BY <1>20, <1>s, <1>c
    DEF StartClose, Becomes, CauseInv, PhaseInv
  <2>q. QED
    BY <2>1, <2>2, <2>3 DEF CauseInv
<1>21. ASSUME NEW t \in Transfers, RequestResume(t) PROVE CauseInv'
  <2>4. Message("RESUME", t) \in Messages /\ Caused(Message("RESUME", t))'
    BY <1>21 DEF RequestResume, Send, Messages, Message, Stop, Caused, ClosingIds
  <2>1. \A i \in 1..Len(chan') : Caused(chan[i])'
    BY <1>21, <1>a, <2>4
    DEF RequestResume, Send
  <2>2. senderClosed' /\ code' = "aborted" => stopping'
    BY <1>21, <1>s
    DEF RequestResume, Send, CauseInv, PhaseInv
  <2>3. pc' = "finish" /\ code' = "aborted" => stopping' \/ (Id[cur] \in ClosingIds)'
    BY <1>21, <1>s, <1>c
    DEF RequestResume, Send, CauseInv, PhaseInv
  <2>q. QED
    BY <2>1, <2>2, <2>3 DEF CauseInv
<1>u. CASE UNCHANGED vars
  BY <1>u, <1>k, <1>c DEF CauseInv
<1>q. QED
  BY <1>1, <1>2, <1>3, <1>4, <1>5, <1>6, <1>7, <1>8, <1>9, <1>10, <1>11,
     <1>12, <1>13, <1>14, <1>15, <1>16, <1>17, <1>18, <1>19, <1>20, <1>21,
     <1>u
  DEF Next, ReactorStep, OwnerStep

-----------------------------------------------------------------------------
(* The theorems *)

(* An agent starts with an empty table and nothing accepted. *)
LEMMA InitIInv == Init => IInv
<1> SUFFICES ASSUME Init PROVE IInv
  OBVIOUS
<1>n. InitialBuckets \in Nat /\ InitialBuckets > 0 /\ MaxQueue \in Nat
  BY ReactorAssumption
<1>1. Size(buckets) = InitialBuckets
  BY <1>n, SizeOfTable DEF Init
<1>2. Entries(buckets) = {}
  BY DEF Init, Entries
<1>3. RegistryInv
  BY <1>n, <1>1, <1>2, FS_EmptySet DEF Init, RegistryInv, TableOK, Registered
<1>4. PhaseInv
  BY <1>2 DEF Init, PhaseInv, Registered
<1>5. \A t \in Transfers : ~Queued(t) /\ OnceQueued(t) /\ t # NoTransfer
  BY ReactorAssumption DEF Init, Queued, OnceQueued
<1>6. OwnerInv
  BY <1>2, <1>5 DEF Init, OwnerInv, OwnerOf, Registered
<1>7. CauseInv
  BY DEF Init, CauseInv
<1>8. chan \in Seq(Messages) /\ Len(chan) <= MaxQueue /\ step \in 1..Len(FinishOrder)
  BY <1>n DEF Init, FinishOrder
<1>a. /\ completed \in [Transfers -> BOOLEAN] /\ done \in [Transfers -> BOOLEAN]
      /\ cleanups \in [Transfers -> Nat]
      /\ user \in [Transfers -> {"new", "running", "cancel", "await", "released"}]
  BY DEF Init
<1>b. resumes \in 0..MaxResumes /\ count \in Nat
  BY ReactorAssumption DEF Init
<1>9. TypeOK
  BY <1>2, <1>8, <1>a, <1>b DEF Init, TypeOK, Codes
<1>q. QED
  BY <1>3, <1>4, <1>6, <1>7, <1>9 DEF IInv

(* IInv holds for any set of transfers, any IDs, any hash and any queue     *)
(* capacity.                                                                *)
LEMMA Invariance == Spec => []IInv
<1>1. Init => IInv
  BY InitIInv
<1>2. IInv /\ [Next]_vars => IInv'
  BY TypeKept, RegistryKept, PhaseKept, OwnerKept, CauseKept DEF IInv
<1>q. QED
  BY <1>1, <1>2, PTL DEF Spec

(* registry_find finds every registered transfer under its ID and no other  *)
(* one, through collisions, resizing and failed resizing, and the count is  *)
(* that of the entries.                                                     *)
THEOREM RegistryCorrect == Spec => []RegistryFinds
<1>1. IInv => RegistryFinds
  <2> SUFFICES ASSUME IInv PROVE RegistryFinds
    OBVIOUS
  <2>1. TypeOK /\ RegistryInv
    BY DEF IInv
  <2>2. \A t \in Entries(buckets) : Find(buckets, Id[t]) = {t}
    BY <2>1, FindFacts DEF Registered, TypeOK
  <2>q. QED
    BY <2>1, <2>2 DEF RegistryFinds, RegistryInv, Registered
<1>q. QED
  BY <1>1, Invariance, PTL

(* Every easy handle has exactly one owner until curl_easy_cleanup has been *)
(* called on it, which happens once, and libcurl never holds a cleaned one. *)
THEOREM OwnershipSafety == Spec => []OneOwner
<1>1. IInv => OneOwner
  <2> SUFFICES ASSUME IInv, NEW t \in Transfers
               PROVE  /\ Cardinality(Owners(t)) = 1
                      /\ cleanups[t] <= 1
                      /\ t \in active =>
                           Owners(t) \subseteq {"registry", "detached", "reactor"}
                      /\ user[t] = "released" \/ done[t] => cleanups[t] = 1
    BY DEF OneOwner
  <2>o. OwnerOf(t) /\ TypeOK
    BY DEF IInv, OwnerInv
  <2>i. /\ "builder" \in Owners(t) <=> user[t] = "new"
        /\ "queue" \in Owners(t) <=> Queued(t)
        /\ "registry" \in Owners(t) <=> t \in Registered
        /\ "detached" \in Owners(t) <=> t \in todo
        /\ "reactor" \in Owners(t) <=> cur = t
        /\ "nobody" \in Owners(t) <=> cleanups[t] = 1 /\ cur # t
        /\ Owners(t) \subseteq {"builder", "queue", "registry", "detached",
                                "reactor", "nobody"}
    BY DEF Owners, Registered
  <2>1. \E k : Owners(t) = {k}
    <3>1. \A j, k \in Owners(t) : j = k
      BY <2>i, <2>o DEF OwnerOf
    <3>2. Owners(t) # {}
      BY <2>i, <2>o DEF OwnerOf
    <3>q. QED
      BY <3>1, <3>2
  <2>2. Cardinality(Owners(t)) = 1
    BY <2>1, FS_Singleton
  <2>3. cleanups[t] <= 1 /\ (user[t] = "released" \/ done[t] => cleanups[t] = 1)
    BY <2>o DEF OwnerOf, TypeOK
  <2>4. t \in active => Owners(t) \subseteq {"registry", "detached", "reactor"}
    BY <2>i, <2>o DEF OwnerOf
  <2>q. QED
    BY <2>2, <2>3, <2>4
<1>q. QED
  BY <1>1, Invariance, PTL

(* The Haskell owners of what libcurl borrows are released only when the    *)
(* agent has let go of the transfer, also across a shutdown.                *)
THEOREM BorrowingSafety == Spec => []BorrowedUntilDone
<1>1. IInv => BorrowedUntilDone
  BY DEF IInv, OwnerInv, OwnerOf, BorrowedUntilDone, Registered
<1>q. QED
  BY <1>1, Invariance, PTL

(* A transfer is aborted only because the agent was stopped or an owner     *)
(* sent a CANCEL with its ID: its own owner when IDs are distinct.  Whoever *)
(* shares its bucket, a late CANCEL, a failed RESUME or the submission of a *)
(* duplicate ends no other transfer that way, the close of a duplicate may. *)
THEOREM AbortSafety == Spec => []AbortedForCause
<1>1. IInv => AbortedForCause
  BY DEF IInv, CauseInv, AbortedForCause, ClosingIds
<1>q. QED
  BY <1>1, Invariance, PTL
=============================================================================
