--------------------------- MODULE ReadersProofs ---------------------------
(***************************************************************************)
(* Proofs about AttemptCounter, AiCall, LoadRow and FullText, for any      *)
(* number of searches, any output of the child, any page and any list of   *)
(* keywords, and about their composition with Search in MCReaders.         *)
(***************************************************************************)
EXTENDS MCReaders, SearchProofs

(* The attempt counter. *)

\* Without the bounds of the instances that TLC checks.
CountRequest ==
    [pc : {"idle", "write", "done"}, entry : [keywords : Keywords \cup {NoKeywords}, attempt : Nat]]

\* Undisturbed, the entry, or the only one that is about to be written, has
\* the count.
CountInv ==
    /\ count \in [Counts -> CountRequest]
    /\ entry \in [keywords : Keywords \cup {NoKeywords}, attempt : Nat]
    /\ day \in Nat /\ cacheDay \in Nat /\ cacheDay <= day
    /\ disturbed \in BOOLEAN
    /\ changes \in Nat
    /\ ~disturbed =>
         /\ \A b, c \in Counting : b = c
         /\ Counting = {} /\ cacheDay = day => entry.attempt = changes
         /\ \A c \in Counting : cacheDay = day /\ count[c].entry.attempt = changes

LEMMA CountInitInv == CounterInit => CountInv
  <1> SUFFICES ASSUME CounterInit PROVE CountInv
    OBVIOUS
  <1>1. NoEntry \in [keywords : Keywords \cup {NoKeywords}, attempt : Nat] /\ NoEntry.attempt = 0
    BY DEF NoEntry
  <1>2. count \in [Counts -> CountRequest] /\ Counting = {}
    BY <1>1 DEF CounterInit, CountRequest, Counting
  <1>3. /\ entry = NoEntry /\ day = 0 /\ cacheDay = 0 /\ disturbed = FALSE /\ changes = 0
    BY DEF CounterInit
  <1>4. /\ entry \in [keywords : Keywords \cup {NoKeywords}, attempt : Nat]
        /\ entry.attempt = changes
    BY <1>1, <1>3
  <1>5. day \in Nat /\ cacheDay \in Nat /\ cacheDay <= day /\ changes \in Nat
    BY <1>3
  <1>6. disturbed \in BOOLEAN
    BY <1>3
  <1>7. QED
    BY <1>2, <1>4, <1>5, <1>6 DEF CountInv

LEMMA CountNextInv == CountInv /\ [CounterNext]_counterVars => CountInv'
  <1> SUFFICES ASSUME CountInv, [CounterNext]_counterVars PROVE CountInv'
    OBVIOUS
  <1>1. /\ count \in [Counts -> CountRequest]
        /\ entry \in [keywords : Keywords \cup {NoKeywords}, attempt : Nat]
        /\ day \in Nat /\ cacheDay \in Nat /\ cacheDay <= day
        /\ disturbed \in BOOLEAN /\ changes \in Nat
        /\ ~disturbed =>
             /\ \A b, c \in Counting : b = c
             /\ Counting = {} /\ cacheDay = day => entry.attempt = changes
             /\ \A c \in Counting : cacheDay = day /\ count[c].entry.attempt = changes
    BY DEF CountInv
  <1>2. ASSUME NEW c \in Counts, ReadEntry(c) PROVE CountInv'
    <2>1. /\ OfToday \in [keywords : Keywords \cup {NoKeywords}, attempt : Nat]
          /\ entry' = OfToday /\ cacheDay' = day /\ day' = day
          /\ disturbed' = (disturbed \/ Counting # {})
          /\ count[c].pc = "idle"
      BY <1>1, <1>2 DEF ReadEntry, OfToday, NoEntry
    <2>2. PICK keywords \in Keywords :
            IF OfToday.keywords = keywords
            THEN count' = [count EXCEPT ![c].pc = "done"] /\ UNCHANGED changes
            ELSE /\ count' = [count EXCEPT ![c] =
                      [pc |-> "write",
                       entry |-> [keywords |-> keywords, attempt |-> OfToday.attempt + 1]]]
                 /\ changes' = (IF cacheDay = day THEN changes ELSE 0) + 1
      BY <1>2 DEF ReadEntry
    <2>3. ~disturbed' => ~disturbed /\ Counting = {}
      BY <1>1, <2>1
    \* Who asks again, has an entry of today.
    <2>4. CASE OfToday.keywords = keywords
      <3>1. cacheDay = day /\ OfToday = entry
        BY <2>4, CounterAssumption DEF OfToday, NoEntry
      <3>2. /\ count' \in [Counts -> CountRequest] /\ changes' = changes
            /\ count'[c].pc = "done" /\ \A b \in Counts : b # c => count'[b] = count[b]
        <4>1. PICK request : request = [count[c] EXCEPT !.pc = "done"]
          OBVIOUS
        <4>2. request \in CountRequest /\ request.pc = "done"
          BY <1>1, <4>1 DEF CountRequest
        <4>3. count' = [count EXCEPT ![c] = request] /\ changes' = changes
          BY <2>2, <2>4, <4>1
        <4>4. QED
          BY <1>1, <4>2, <4>3
      <3>3. ~disturbed' => Counting' = {}
        BY <2>3, <3>2 DEF Counting
      <3>4. /\ entry' \in [keywords : Keywords \cup {NoKeywords}, attempt : Nat]
            /\ day' \in Nat /\ cacheDay' \in Nat /\ cacheDay' <= day' /\ entry' = entry
            /\ disturbed' \in BOOLEAN /\ changes' \in Nat /\ cacheDay = day /\ day' = cacheDay'
        BY <1>1, <2>1, <3>1, <3>2
      <3>5. ~disturbed' => Counting' = {} /\ entry'.attempt = changes'
        BY <1>1, <2>3, <3>2, <3>3, <3>4
      <3>6. QED
        BY <3>2, <3>4, <3>5 DEF CountInv
    <2>5. CASE OfToday.keywords # keywords
      <3>1. OfToday.attempt = IF cacheDay = day THEN entry.attempt ELSE 0
        BY DEF OfToday, NoEntry
      <3>2. PICK request : request = [pc |-> "write",
                                      entry |-> [keywords |-> keywords, attempt |-> OfToday.attempt + 1]]
        OBVIOUS
      <3>3. request \in CountRequest /\ request.pc = "write" /\ request.entry.attempt = OfToday.attempt + 1
        BY <2>1, <3>2 DEF CountRequest
      <3>4. count' = [count EXCEPT ![c] = request] /\ changes' = (IF cacheDay = day THEN changes ELSE 0) + 1
        BY <2>2, <2>5, <3>2
      <3>5. /\ count' \in [Counts -> CountRequest]
            /\ count'[c] = request /\ \A b \in Counts : b # c => count'[b] = count[b]
            /\ changes' \in Nat
        BY <1>1, <3>3, <3>4
      <3>6. ~disturbed' => Counting' = {c}
        BY <2>3, <3>3, <3>5 DEF Counting
      <3>7. ~disturbed' => count'[c].entry.attempt = changes'
        BY <1>1, <2>3, <3>1, <3>3, <3>4, <3>5
      <3>8. QED
        BY <1>1, <2>1, <3>5, <3>6, <3>7 DEF CountInv
    <2>6. QED
      BY <2>4, <2>5
  <1>3. ASSUME NEW c \in Counts, WriteEntry(c) PROVE CountInv'
    <2>1. /\ count[c].pc = "write" /\ entry' = count[c].entry /\ cacheDay' = day
          /\ day' = day /\ disturbed' = disturbed /\ changes' = changes
      BY <1>3 DEF WriteEntry
    <2>2. /\ count' \in [Counts -> CountRequest] /\ count'[c].pc = "done"
          /\ \A b \in Counts : b # c => count'[b] = count[b]
      BY <1>1, <1>3 DEF WriteEntry, CountRequest
    <2>3. entry' \in [keywords : Keywords \cup {NoKeywords}, attempt : Nat]
      BY <1>1, <2>1 DEF CountRequest
    <2>4. ~disturbed => Counting' = {} /\ entry'.attempt = changes
      BY <1>1, <2>1, <2>2 DEF Counting
    <2>5. QED
      BY <1>1, <2>1, <2>2, <2>3, <2>4 DEF CountInv
  <1>4. CASE Midnight
    <2>1. /\ day' = day + 1 /\ disturbed' = (disturbed \/ Counting # {})
          /\ UNCHANGED <<count, entry, cacheDay, changes>>
      BY <1>4 DEF Midnight
    <2>2. Counting' = Counting
      BY <2>1 DEF Counting
    <2>3. day' \in Nat /\ cacheDay' \in Nat /\ cacheDay' <= day' /\ cacheDay' # day'
      BY <1>1, <2>1
    <2>4. ~disturbed' => Counting' = {}
      BY <1>1, <2>1, <2>2
    <2>5. disturbed' \in BOOLEAN
      BY <2>1
    <2>6. QED
      BY <1>1, <2>1, <2>3, <2>4, <2>5 DEF CountInv
  <1>5. CASE UNCHANGED counterVars
    BY <1>1, <1>5 DEF counterVars, CountInv, Counting
  <1>6. QED
    BY <1>2, <1>3, <1>4, <1>5 DEF CounterNext

LEMMA CountedAlone == CountInv => CountsWhenAlone
  BY DEF CountInv, CountsWhenAlone

\* Searches of an address that follow each other are counted exactly.
THEOREM LoneSearchesCount == CounterSpec => []CountsWhenAlone
  BY CountedAlone, CountInitInv, CountNextInv, PTL DEF CounterSpec

-----------------------------------------------------------------------------
(* The call of the AI provider. *)

CallSteps == {"idle", "http", "stdout", "stderr", "wait", "ended"}

\* The inductive invariant.  No more is read than was written; the child runs
\* while its stdout is read, so nothing is taken from stderr before it ends;
\* and what it wrote there without a reader fits into the pipe.
CallInv ==
    /\ call \in [pc : CallSteps, deadline : BOOLEAN, reply : {"none", "text", "error"}]
    /\ child \in {"none", "running", "exited 0", "exited 1", "killed"}
    /\ output \in [Streams -> Nat] /\ pipe \in [Streams -> 0..PipeSize] /\ got \in [Streams -> Nat]
    /\ \A stream \in Streams : got[stream] + pipe[stream] <= output[stream]
    /\ call.pc = "idle" => \A stream \in Streams : got[stream] = 0 /\ pipe[stream] = 0
    /\ call.pc \in {"idle", "http"} => child = "none"
    /\ call.pc \in {"stdout", "stderr", "wait"} => child # "none"
    /\ child = "running" => call.pc = "stdout"
    /\ call.pc = "stdout" => got["stderr"] = 0
    /\ call.pc \in {"stderr", "wait"} => pipe["stdout"] = 0
    /\ call.pc = "wait" => pipe["stderr"] = 0
    /\ child \in {"exited 0", "exited 1"} =>
         /\ \A stream \in Streams : got[stream] + pipe[stream] = output[stream]
         /\ output["stderr"] <= PipeSize
    /\ call.pc # "ended" => call.reply = "none"
    /\ NothingLost

LEMMA EmptyPipe == \A m, n, k \in Nat : m + n = k /\ n = 0 => m = k
  OBVIOUS

LEMMA CallInitInv == AiCallInit => CallInv
  BY AiCallAssumption DEF AiCallInit, CallInv, CallSteps, Nothing, Streams, NothingLost

LEMMA CallNextInv == CallInv /\ [AiCallNext]_callVars => CallInv'
  <1> SUFFICES ASSUME CallInv, [AiCallNext]_callVars PROVE CallInv'
    OBVIOUS
  <1>0. /\ Streams = {"stdout", "stderr"} /\ PipeSize \in Nat
        /\ \A stream \in Streams :
             output[stream] \in Nat /\ got[stream] \in Nat /\ pipe[stream] \in Nat
        /\ \A stream \in Streams : got[stream] + pipe[stream] <= output[stream]
        /\ \A stream \in Streams : pipe[stream] <= PipeSize
    <2>1. PipeSize \in Nat
      BY AiCallAssumption
    <2>2. /\ output \in [Streams -> Nat] /\ pipe \in [Streams -> 0..PipeSize] /\ got \in [Streams -> Nat]
          /\ \A stream \in Streams : got[stream] + pipe[stream] <= output[stream]
      BY DEF CallInv
    <2>3. ASSUME NEW stream \in Streams
          PROVE  /\ output[stream] \in Nat /\ got[stream] \in Nat /\ pipe[stream] \in Nat
                 /\ pipe[stream] <= PipeSize
      BY <2>1, <2>2
    <2>4. QED
      BY <2>1, <2>2, <2>3 DEF Streams
  <1> USE DEF CallInv, Streams
  <1>1. CASE RunAIProvider
    <2>1. PICK deadline \in BOOLEAN :
            \/ /\ call' = [call EXCEPT !.pc = "http", !.deadline = deadline]
               /\ UNCHANGED <<child, output>>
            \/ /\ call' = [call EXCEPT !.pc = "stdout", !.deadline = deadline]
               /\ child' = "running"
               /\ output' \in [Streams -> 0..MaxOutput]
            \/ Reply("error") /\ UNCHANGED <<child, output>>
      BY <1>1 DEF RunAIProvider
    <2>2. call.pc = "idle" /\ UNCHANGED <<pipe, got>>
      BY <1>1 DEF RunAIProvider
    <2>3. CASE call' = [call EXCEPT !.pc = "http", !.deadline = deadline] /\ UNCHANGED <<child, output>>
      BY <2>2, <2>3 DEF CallSteps, NothingLost
    <2>4. CASE /\ call' = [call EXCEPT !.pc = "stdout", !.deadline = deadline]
               /\ child' = "running"
               /\ output' \in [Streams -> 0..MaxOutput]
      <3>1. /\ output' \in [Streams -> Nat]
            /\ \A stream \in Streams : got'[stream] + pipe'[stream] <= output'[stream]
        BY <2>2, <2>4, AiCallAssumption
      <3>2. call'.pc = "stdout" /\ call'.reply = "none"
            /\ call' \in [pc : CallSteps, deadline : BOOLEAN, reply : {"none", "text", "error"}]
        BY <2>2, <2>4 DEF CallSteps
      <3>3. QED
        BY <2>2, <2>4, <3>1, <3>2 DEF NothingLost
    <2>5. CASE Reply("error") /\ UNCHANGED <<child, output>>
      BY <2>2, <2>5 DEF Reply, CallSteps, NothingLost
    <2>6. QED
      BY <2>1, <2>3, <2>4, <2>5
  <1>2. CASE EndHttp
    BY <1>2 DEF EndHttp, Reply, CallSteps, NothingLost
  <1>3. CASE ChildExits
    <2> HIDE DEF CallInv, Streams
    <2>1. \A stream \in Streams : got[stream] + pipe[stream] = output[stream]
      <3> SUFFICES ASSUME NEW stream \in Streams
                   PROVE  got[stream] + pipe[stream] = output[stream]
        OBVIOUS
      <3>1. output[stream] - got[stream] - pipe[stream] = 0
        BY <1>3 DEF ChildExits, Left
      <3>2. output[stream] \in Nat /\ got[stream] \in Nat /\ pipe[stream] \in Nat
        BY <1>0
      <3>3. QED
        BY <3>1, <3>2
    <2>2. output["stderr"] <= PipeSize
      <3>1. got["stderr"] = 0
        BY <1>3 DEF ChildExits, CallInv
      <3>2. "stderr" \in Streams
        BY <1>0
      <3>3. output["stderr"] = pipe["stderr"]
        BY <1>0, <2>1, <3>1, <3>2
      <3>4. QED
        BY <1>0, <3>2, <3>3
    <2> USE DEF CallInv, Streams
    <2>3. QED
      BY <1>3, <2>1, <2>2 DEF ChildExits, NothingLost
  <1>4. CASE DeadlineKills
    BY <1>4 DEF DeadlineKills, NothingLost
  <1>5. CASE EndCommand
    <2>1. \A stream \in Streams : pipe[stream] = 0
      BY <1>5 DEF EndCommand
    <2>2. child = "exited 0" => got = output /\ output["stderr"] <= PipeSize
      <3> SUFFICES ASSUME child = "exited 0" PROVE got = output /\ output["stderr"] <= PipeSize
        OBVIOUS
      <3>1. /\ \A stream \in Streams : got[stream] + pipe[stream] = output[stream]
            /\ output["stderr"] <= PipeSize
            /\ got \in [Streams -> Nat] /\ output \in [Streams -> Nat]
        OBVIOUS
      <3> HIDE DEF CallInv, Streams
      <3>2. ASSUME NEW stream \in Streams PROVE got[stream] = output[stream]
        <4>1. got[stream] + pipe[stream] = output[stream] /\ pipe[stream] = 0
          BY <2>1, <3>1
        <4>2. got[stream] \in Nat /\ pipe[stream] \in Nat /\ output[stream] \in Nat
          BY <1>0
        <4>3. QED
          BY <4>1, <4>2, EmptyPipe
      <3>3. got = output
        <4>1. /\ got = [stream \in Streams |-> got[stream]]
              /\ output = [stream \in Streams |-> output[stream]]
          BY <3>1
        <4>2. [stream \in Streams |-> got[stream]] = [stream \in Streams |-> output[stream]]
          BY <3>2
        <4>3. QED
          BY <4>1, <4>2, Zenon
      <3>4. QED
        BY <3>1, <3>3
    <2>3. /\ call' \in [pc : CallSteps, deadline : BOOLEAN, reply : {"none", "text", "error"}]
          /\ call'.pc = "ended" /\ (call'.reply = "error" \/ child = "exited 0")
          /\ UNCHANGED <<child, output, pipe, got>>
      BY <1>5 DEF EndCommand, Reply, CallSteps
    <2>4. NothingLost'
      BY <2>2, <2>3 DEF NothingLost
    <2>5. QED
      BY <1>5, <2>3, <2>4 DEF EndCommand
  <1>6. ASSUME NEW stream \in Streams, ChildWrites(stream) PROVE CallInv'
    BY <1>6, AiCallAssumption DEF ChildWrites, Left, NothingLost
  <1>7. ASSUME NEW stream \in Streams, ReadAll(stream) PROVE CallInv'
    <2>1. call.pc = stream /\ UNCHANGED <<child, output>>
      BY <1>7 DEF ReadAll
    <2>2. CASE got' = [got EXCEPT ![stream] = @ + pipe[stream]] /\ pipe' = [pipe EXCEPT ![stream] = 0] /\ UNCHANGED call
      <3>0. got \in [Streams -> Nat] /\ pipe \in [Streams -> 0..PipeSize]
        OBVIOUS
      <3> HIDE DEF CallInv, Streams
      <3>1. /\ got' \in [Streams -> Nat] /\ pipe' \in [Streams -> 0..PipeSize]
            /\ got'[stream] = got[stream] + pipe[stream] /\ pipe'[stream] = 0
            /\ \A other \in Streams : other # stream => got'[other] = got[other] /\ pipe'[other] = pipe[other]
        BY <1>0, <2>2, <3>0
      <3>2. ASSUME NEW other \in Streams PROVE got'[other] + pipe'[other] = got[other] + pipe[other]
        BY <1>0, <3>1
      <3> USE DEF CallInv, Streams
      <3>3. QED
        BY <2>1, <2>2, <3>1, <3>2 DEF NothingLost
    <2>3. CASE /\ AtEnd(stream)
               /\ call' = [call EXCEPT !.pc = IF stream = "stdout" THEN "stderr" ELSE "wait"]
               /\ UNCHANGED <<got, pipe>>
      BY <2>1, <2>3 DEF AtEnd, CallSteps, NothingLost
    <2>4. QED
      BY <1>7, <2>2, <2>3 DEF ReadAll
  <1>8. CASE UNCHANGED callVars
    BY <1>8 DEF callVars, NothingLost
  <1>9. QED
    BY <1>1, <1>2, <1>3, <1>4, <1>5, <1>6, <1>7, <1>8 DEF AiCallNext, Proceed

LEMMA NothingUnread == CallInv => NothingLost
  BY DEF CallInv

\* A text was read from all that the child wrote, and the child wrote no more
\* to stderr than the pipe holds.
THEOREM RepliesAreWhole == AiCallSpec => []NothingLost
  BY NothingUnread, CallInitInv, CallNextInv, PTL DEF AiCallSpec

-----------------------------------------------------------------------------
(* The readers of rows. *)

NoHelpers == [h \in Helpers |-> "none"]

Working == {"query", "ok", "error"}

\* The channels of a kind that come before a place in its order.
Before(kind, next) == {Order(kind)[i] : i \in 1..(next - 1)}

\* Helpers that nobody has received from: their fields are set exactly when
\* they are about to say so.
AtWork(helpers, hs, fill) ==
    \A h \in helpers : hs[h] \in Working /\ (hs[h] = "ok" <=> h \in fill)

Settled(helpers, hs, fill) ==
    \A h \in helpers : hs[h] = "ended" /\ h \in fill

Unused(kind, hs, fill) ==
    \A h \in Helpers \ HelpersOf(kind) : hs[h] = "none" /\ h \notin fill

\* The inductive invariant of one load: the helpers before the channel at
\* hand have set their fields and ended, those from it on are at work.
RowInv(at, hs, fill) ==
    LET kind == at.kind
        read == Before(kind, at.next)
        last == Len(Order(kind))
    IN
    /\ at.pc = "idle" => hs = NoHelpers /\ at.next = 1
    /\ at.pc = "receive" =>
         /\ at.next \in 1..last
         /\ Settled(read, hs, fill)
         /\ AtWork(HelpersOf(kind) \ read, hs, fill)
         /\ Unused(kind, hs, fill)
    /\ at.pc = "answered" =>
         \/ hs = NoHelpers /\ at.next = 1
         \/ Settled(HelpersOf(kind), hs, fill) /\ Unused(kind, hs, fill)
    /\ at.pc = "failed" =>
         \/ hs = NoHelpers
         \/ /\ at.next \in 1..last
            /\ Settled(read, hs, fill)
            /\ hs[Order(kind)[at.next]] = AfterError(kind)
            /\ AtWork(HelpersOf(kind) \ Before(kind, at.next + 1), hs, fill)
            /\ Unused(kind, hs, fill)

LoadInv ==
    /\ LoadTypeOK
    /\ \A l \in Loads : RowInv(load[l], helper[l], filled[l])

\* Every channel is read once, in the order of its kind.
LEMMA OrderFacts ==
  ASSUME NEW kind \in Kinds, NEW next \in 1..Len(Order(kind))
  PROVE  /\ next \in 1..4 /\ Len(Order(kind)) \in 1..4
         /\ HelpersOf(kind) \subseteq Helpers
         /\ Before(kind, 1) = {}
         /\ Before(kind, next) \subseteq HelpersOf(kind)
         /\ Order(kind)[next] \in HelpersOf(kind) \ Before(kind, next)
         /\ Before(kind, next + 1) = Before(kind, next) \cup {Order(kind)[next]}
         /\ next = Len(Order(kind)) => Before(kind, next + 1) = HelpersOf(kind)
         /\ {Order(kind)[i] : i \in next..Len(Order(kind))} = HelpersOf(kind) \ Before(kind, next)
         /\ {Order(kind)[i] : i \in (next + 1)..Len(Order(kind))} = HelpersOf(kind) \ Before(kind, next + 1)
  <1> DEFINE o == Order(kind)
  <1>1. o \in Seq(Helpers) /\ Len(o) \in Nat /\ Len(o) \in 1..4
    <2>1. CASE kind \in {"main", "classification"}
      <3>1. o = <<"countRows", "getMinimalKitab", "getMinimalBab", "getNoLain">>
        BY <2>1 DEF Order
      <3>2. QED
        BY <3>1 DEF Helpers
    <2>2. CASE kind \notin {"main", "classification"}
      <3>1. o = <<"getMinimalKitab", "getMinimalBab", "getNoLain">>
        BY <2>2 DEF Order
      <3>2. QED
        BY <3>1 DEF Helpers
    <2>3. QED
      BY <2>1, <2>2
  <1>2. \A i, j \in 1..Len(o) : o[i] = o[j] => i = j
    BY DEF Order
  <1>3. HelpersOf(kind) = {o[i] : i \in 1..Len(o)}
    BY DEF HelpersOf
  <1>4. \A n : Before(kind, n) = {o[i] : i \in 1..(n - 1)}
    BY DEF Before
  <1>5. next \in 1..Len(o) /\ next \in Nat /\ Len(o) \in Nat
    BY <1>1
  <1> HIDE DEF o
  <1>6. next \in 1..4
    <2>1. PICK n : n = Len(o)
      OBVIOUS
    <2>2. n \in 1..4 /\ next \in 1..n
      BY <1>1, <1>5, <2>1
    <2>3. QED
      BY <2>2
  <1>7. HelpersOf(kind) \subseteq Helpers
    BY <1>1, <1>3
  <1>8. Before(kind, 1) = {}
    BY <1>4
  <1>9. Before(kind, next) \subseteq HelpersOf(kind)
    BY <1>3, <1>4, <1>5
  <1>10. o[next] \in HelpersOf(kind) \ Before(kind, next)
    BY <1>2, <1>3, <1>4, <1>5
  <1>11. Before(kind, next + 1) = {o[i] : i \in 1..next}
    BY <1>4, <1>5
  <1>12. Before(kind, next + 1) = Before(kind, next) \cup {o[next]}
    BY <1>4, <1>5, <1>11
  <1>13. next = Len(o) => Before(kind, next + 1) = HelpersOf(kind)
    BY <1>3, <1>11
  <1>14. {o[i] : i \in next..Len(o)} = HelpersOf(kind) \ Before(kind, next)
    BY <1>2, <1>3, <1>4, <1>5
  <1>15. {o[i] : i \in (next + 1)..Len(o)} = HelpersOf(kind) \ Before(kind, next + 1)
    BY <1>2, <1>3, <1>5, <1>11
  <1>16. QED
    BY <1>1, <1>6, <1>7, <1>8, <1>9, <1>10, <1>12, <1>13, <1>14, <1>15 DEF o

LEMMA AnyOrder ==
  ASSUME NEW kind \in Kinds
  PROVE  1 \in 1..Len(Order(kind))
  <1>1. CASE kind \in {"main", "classification"}
    BY <1>1 DEF Order
  <1>2. CASE kind \notin {"main", "classification"}
    BY <1>2 DEF Order
  <1>3. QED
    BY <1>1, <1>2

LEMMA LoadInitInv == LoadInit => LoadInv
  BY LoadAssumption DEF LoadInit, LoadInv, LoadTypeOK, Load, Kinds, HelperStates, RowInv, NoHelpers

\* A step of one load leaves the others as they are.
LEMMA OneLoadMoves ==
  ASSUME LoadInv, NEW l \in Loads, LoadTypeOK',
         \A m \in Loads : m # l =>
           load'[m] = load[m] /\ helper'[m] = helper[m] /\ filled'[m] = filled[m],
         RowInv(load[l], helper[l], filled[l])'
  PROVE  LoadInv'
  BY DEF LoadInv

\* A query changes the row of its load only where that helper is at work.
LEMMA QueryKeepsRow ==
  ASSUME NEW at \in Load, NEW h \in Helpers, NEW outcome \in {"ok", "error"},
         NEW hs \in [Helpers -> HelperStates], NEW fill \in SUBSET Helpers,
         NEW hs2 \in [Helpers -> HelperStates], NEW fill2 \in SUBSET Helpers,
         RowInv(at, hs, fill), hs[h] = "query", hs2[h] = outcome,
         h \in fill2 <=> h \in fill \/ outcome = "ok",
         \A other \in Helpers : other # h =>
           hs2[other] = hs[other] /\ (other \in fill2 <=> other \in fill)
  PROVE  RowInv(at, hs2, fill2)
  <1>1. at.kind \in Kinds /\ at.pc \in {"idle", "receive", "answered", "failed"}
    BY DEF Load
  <1>2. hs # NoHelpers /\ at.pc # "idle"
    BY DEF NoHelpers, RowInv
  <1>3. CASE at.pc = "receive"
    <2>1. /\ at.next \in 1..Len(Order(at.kind))
          /\ Settled(Before(at.kind, at.next), hs, fill)
          /\ AtWork(HelpersOf(at.kind) \ Before(at.kind, at.next), hs, fill)
          /\ Unused(at.kind, hs, fill)
      BY <1>3 DEF RowInv
    <2>2. HelpersOf(at.kind) \subseteq Helpers /\ Before(at.kind, at.next) \subseteq HelpersOf(at.kind)
      BY <1>1, <2>1, OrderFacts
    <2>3. h \in HelpersOf(at.kind) \ Before(at.kind, at.next) /\ h \notin fill
      BY <2>1, <2>2 DEF Settled, AtWork, Unused
    <2>4. /\ Settled(Before(at.kind, at.next), hs2, fill2)
          /\ AtWork(HelpersOf(at.kind) \ Before(at.kind, at.next), hs2, fill2)
          /\ Unused(at.kind, hs2, fill2)
      BY <2>1, <2>2, <2>3 DEF Settled, AtWork, Unused, Working
    <2>5. QED
      BY <1>3, <2>1, <2>4 DEF RowInv
  <1>4. CASE at.pc = "answered"
    <2>1. Settled(HelpersOf(at.kind), hs, fill) /\ Unused(at.kind, hs, fill)
      BY <1>2, <1>4 DEF RowInv
    <2>2. QED
      BY <2>1 DEF Settled, Unused
  <1>5. CASE at.pc = "failed"
    <2>1. /\ at.next \in 1..Len(Order(at.kind))
          /\ Settled(Before(at.kind, at.next), hs, fill)
          /\ hs[Order(at.kind)[at.next]] = AfterError(at.kind)
          /\ AtWork(HelpersOf(at.kind) \ Before(at.kind, at.next + 1), hs, fill)
          /\ Unused(at.kind, hs, fill)
      BY <1>2, <1>5 DEF RowInv
    <2>2. /\ HelpersOf(at.kind) \subseteq Helpers /\ Before(at.kind, at.next) \subseteq HelpersOf(at.kind)
          /\ Before(at.kind, at.next + 1) = Before(at.kind, at.next) \cup {Order(at.kind)[at.next]}
          /\ Order(at.kind)[at.next] \in Helpers
      BY <1>1, <2>1, OrderFacts
    <2>3. h # Order(at.kind)[at.next]
      BY <2>1 DEF AfterError
    <2>4. h \in HelpersOf(at.kind) \ Before(at.kind, at.next + 1) /\ h \notin fill
      BY <2>1, <2>2, <2>3 DEF Settled, AtWork, Unused
    <2>5. /\ Settled(Before(at.kind, at.next), hs2, fill2)
          /\ hs2[Order(at.kind)[at.next]] = AfterError(at.kind)
          /\ AtWork(HelpersOf(at.kind) \ Before(at.kind, at.next + 1), hs2, fill2)
          /\ Unused(at.kind, hs2, fill2)
      BY <2>1, <2>2, <2>3, <2>4 DEF Settled, AtWork, Unused, Working
    <2>6. QED
      BY <1>5, <2>1, <2>5 DEF RowInv
  <1>6. QED
    BY <1>1, <1>2, <1>3, <1>4, <1>5

LEMMA EndKeepsType ==
  ASSUME load \in [Loads -> Load], NEW l \in Loads, NEW kind \in Kinds,
         NEW pc \in {"answered", "failed"}, End(l, pc, kind)
  PROVE  /\ load' \in [Loads -> Load] /\ filled' = filled
         /\ load'[l].pc = pc /\ load'[l].kind = kind /\ load'[l].next = load[l].next
         /\ \A m \in Loads : m # l => load'[m] = load[m]
  <1>1. PICK at : at = [load[l] EXCEPT !.pc = pc, !.kind = kind, !.rows = 0]
    OBVIOUS
  <1>2. at \in Load /\ at.pc = pc /\ at.kind = kind /\ at.next = load[l].next
    <2>1. load[l] \in Load /\ 0 \in 0..PageRows
      BY LoadAssumption
    <2>2. PICK old : old = load[l]
      OBVIOUS
    <2>3. old \in Load /\ at = [old EXCEPT !.pc = pc, !.kind = kind, !.rows = 0]
      BY <1>1, <2>1, <2>2
    <2>4. at \in Load /\ at.pc = pc /\ at.kind = kind /\ at.next = old.next
      BY <2>1, <2>3 DEF Load
    <2>5. QED
      BY <2>2, <2>4
  <1>3. load' = [load EXCEPT ![l] = at] /\ filled' = filled
    BY <1>1 DEF End
  <1>4. QED
    BY <1>2, <1>3

LEMMA LoadNextInv == LoadInv /\ [LoadNext]_loadVars => LoadInv'
  <1> SUFFICES ASSUME LoadInv, [LoadNext]_loadVars PROVE LoadInv'
    OBVIOUS
  <1>1. /\ load \in [Loads -> Load] /\ helper \in [Loads -> [Helpers -> HelperStates]]
        /\ filled \in [Loads -> SUBSET Helpers] /\ LoadTypeOK
        /\ \A l \in Loads : RowInv(load[l], helper[l], filled[l])
    BY DEF LoadInv, LoadTypeOK
  \* A row is launched from an empty one.
  <1>2. ASSUME NEW l \in Loads, NEW kind \in Kinds, NEW rows \in 0..PageRows, Launch(l, kind, rows)
        PROVE  LoadInv'
    <2>1. PICK at : at = [pc |-> "receive", kind |-> kind, rows |-> rows, next |-> 1]
      OBVIOUS
    <2>2. at \in Load /\ at.pc = "receive" /\ at.kind = kind /\ at.next = 1
      BY <2>1 DEF Load
    <2>3. Launched(kind) \in [Helpers -> HelperStates]
      BY DEF Launched, HelperStates
    <2>4. load' = [load EXCEPT ![l] = at] /\ helper' = [helper EXCEPT ![l] = Launched(kind)]
          /\ filled' = [filled EXCEPT ![l] = {}]
      BY <1>2, <2>1 DEF Launch
    <2>5. LoadTypeOK'
      BY <1>1, <2>2, <2>3, <2>4 DEF LoadTypeOK
    <2>6. /\ load'[l] = at /\ helper'[l] = Launched(kind) /\ filled'[l] = {}
          /\ \A m \in Loads : m # l =>
               load'[m] = load[m] /\ helper'[m] = helper[m] /\ filled'[m] = filled[m]
      BY <1>1, <2>4
    <2>7. RowInv(at, Launched(kind), {})
      <3>1. Before(kind, 1) = {} /\ HelpersOf(kind) \subseteq Helpers /\ 1 \in 1..Len(Order(kind))
        BY OrderFacts, AnyOrder
      <3>2. QED
        BY <2>2, <3>1 DEF RowInv, Settled, AtWork, Unused, Launched, Working
    <2>8. RowInv(load[l], helper[l], filled[l])'
      BY <2>6, <2>7
    <2>9. QED
      BY <2>5, <2>6, <2>8, OneLoadMoves
  <1>3. ASSUME NEW l \in Loads, NEW kind \in Kinds, NEW pc \in {"answered", "failed"},
               load[l].pc = "idle", End(l, pc, kind), UNCHANGED helper
        PROVE  LoadInv'
    <2>1. /\ LoadTypeOK' /\ load'[l].pc = pc /\ load'[l].next = load[l].next
          /\ helper' = helper /\ filled' = filled
          /\ \A m \in Loads : m # l => load'[m] = load[m]
      BY <1>1, <1>3, EndKeepsType DEF LoadTypeOK
    <2>2. helper[l] = NoHelpers /\ load[l].next = 1
      BY <1>1, <1>3 DEF RowInv
    <2>3. RowInv(load[l], helper[l], filled[l])'
      BY <1>3, <2>1, <2>2 DEF RowInv
    <2>4. QED
      BY <2>1, <2>3, OneLoadMoves
  <1>4. ASSUME NEW l \in Loads, FetchRow(l) PROVE LoadInv'
    <2>1. load[l].pc = "idle"
      BY <1>4 DEF FetchRow
    <2>2. PICK kind \in Kinds :
            \/ kind # "page" /\ Launch(l, kind, 0)
            \/ kind = "page" /\ \E rows \in 1..PageRows : Launch(l, kind, rows - 1)
            \/ End(l, "failed", kind) /\ UNCHANGED helper
            \/ kind \in {"total", "page"} /\ End(l, "answered", kind) /\ UNCHANGED helper
      BY <1>4 DEF FetchRow
    <2>3. CASE Launch(l, kind, 0)
      BY <1>2, <2>3, LoadAssumption
    <2>4. ASSUME NEW rows \in 1..PageRows, Launch(l, kind, rows - 1) PROVE LoadInv'
      BY <1>2, <2>4, LoadAssumption
    <2>5. CASE \E pc \in {"answered", "failed"} : End(l, pc, kind) /\ UNCHANGED helper
      BY <1>3, <2>1, <2>5
    <2>6. QED
      BY <2>2, <2>3, <2>4, <2>5
  <1>5. ASSUME NEW l \in Loads, NEW h \in Helpers, Query(l, h) PROVE LoadInv'
    <2>1. PICK outcome \in {"ok", "error"} :
            /\ helper' = [helper EXCEPT ![l][h] = outcome]
            /\ filled' = [filled EXCEPT ![l] = IF outcome = "ok" THEN @ \cup {h} ELSE @]
      BY <1>5 DEF Query, Outcomes
    <2>2. helper[l][h] = "query" /\ load' = load
      BY <1>5 DEF Query
    <2>3. PICK at, hs, fill : at = load[l] /\ hs = helper[l] /\ fill = filled[l]
      OBVIOUS
    <2>4. PICK hs2 : hs2 = [hs EXCEPT ![h] = outcome]
      OBVIOUS
    <2>5. PICK fill2 : fill2 = IF outcome = "ok" THEN fill \cup {h} ELSE fill
      OBVIOUS
    <2>6. /\ at \in Load /\ hs \in [Helpers -> HelperStates] /\ fill \subseteq Helpers
          /\ RowInv(at, hs, fill) /\ hs[h] = "query"
      BY <1>1, <2>2, <2>3
    <2>7. /\ hs2 \in [Helpers -> HelperStates] /\ fill2 \subseteq Helpers
          /\ hs2[h] = outcome /\ \A other \in Helpers : other # h => hs2[other] = hs[other]
          /\ h \in fill2 <=> h \in fill \/ outcome = "ok"
          /\ \A other \in Helpers : other # h => (other \in fill2 <=> other \in fill)
      BY <2>4, <2>5, <2>6 DEF HelperStates
    <2>8. helper' = [helper EXCEPT ![l] = hs2] /\ filled' = [filled EXCEPT ![l] = fill2]
      BY <1>1, <2>1, <2>3, <2>4, <2>5
    <2>9. /\ LoadTypeOK' /\ load'[l] = at /\ helper'[l] = hs2 /\ filled'[l] = fill2
          /\ \A m \in Loads : m # l =>
               load'[m] = load[m] /\ helper'[m] = helper[m] /\ filled'[m] = filled[m]
      BY <1>1, <2>2, <2>3, <2>7, <2>8 DEF LoadTypeOK
    <2>10. RowInv(at, hs2, fill2)
      BY <2>6, <2>7, QueryKeepsRow
    <2>11. RowInv(load[l], helper[l], filled[l])'
      BY <2>9, <2>10
    <2>12. QED
      BY <2>9, <2>11, OneLoadMoves
  \* The helper at hand, whose channel is not among those that were read.
  <1>6. ASSUME NEW l \in Loads, ReceiveField(l) PROVE LoadInv'
    <2>1. PICK at, h : at = load[l] /\ h = Order(at.kind)[at.next]
      OBVIOUS
    <2>2. /\ at.pc = "receive"
          /\ \/ /\ helper[l][h] = "error"
                /\ End(l, "failed", at.kind)
                /\ helper' = [helper EXCEPT ![l][h] = AfterError(at.kind)]
             \/ /\ helper[l][h] = "ok" /\ ~IsLast(at)
                /\ load' = [load EXCEPT ![l].next = @ + 1]
                /\ helper' = [helper EXCEPT ![l][h] = "ended"] /\ UNCHANGED filled
             \/ /\ helper[l][h] = "ok" /\ IsLast(at)
                /\ IF at.rows > 0
                   THEN Launch(l, at.kind, at.rows - 1)
                   ELSE End(l, "answered", at.kind) /\ helper' = [helper EXCEPT ![l][h] = "ended"]
      BY <1>6, <2>1 DEF ReceiveField
    <2>3. PICK kind, next, hs, fill :
            kind = at.kind /\ next = at.next /\ hs = helper[l] /\ fill = filled[l]
      OBVIOUS
    <2>4. /\ at \in Load /\ kind \in Kinds /\ next \in Nat
          /\ hs \in [Helpers -> HelperStates] /\ fill \subseteq Helpers
          /\ RowInv(at, hs, fill)
      BY <1>1, <2>1, <2>3 DEF Load
    <2>5. /\ next \in 1..Len(Order(kind)) /\ Settled(Before(kind, next), hs, fill)
          /\ AtWork(HelpersOf(kind) \ Before(kind, next), hs, fill) /\ Unused(kind, hs, fill)
      BY <2>2, <2>3, <2>4 DEF RowInv
    <2>6. /\ h \in HelpersOf(kind) \ Before(kind, next) /\ h = Order(kind)[next]
          /\ HelpersOf(kind) \subseteq Helpers /\ Before(kind, next) \subseteq HelpersOf(kind)
          /\ Before(kind, next + 1) = Before(kind, next) \cup {h}
          /\ next = Len(Order(kind)) => Before(kind, next + 1) = HelpersOf(kind)
          /\ Len(Order(kind)) \in 1..4
      BY <2>1, <2>3, <2>4, <2>5, OrderFacts
    \* Only that helper moves, and only in this load.
    <2>7. ASSUME NEW to \in {"again", "ended"}, helper' = [helper EXCEPT ![l][h] = to],
                 UNCHANGED filled
          PROVE  /\ helper' \in [Loads -> [Helpers -> HelperStates]]
                 /\ helper'[l][h] = to /\ filled' = filled /\ filled'[l] = fill
                 /\ \A other \in Helpers : other # h => helper'[l][other] = hs[other]
                 /\ \A m \in Loads : m # l => helper'[m] = helper[m]
                 /\ AtWork(HelpersOf(kind) \ Before(kind, next + 1), helper'[l], fill)
                 /\ Settled(Before(kind, next), helper'[l], fill)
                 /\ Unused(kind, helper'[l], fill)
      <3>1. /\ helper' \in [Loads -> [Helpers -> HelperStates]]
            /\ helper'[l][h] = to /\ filled' = filled /\ filled'[l] = fill
            /\ \A other \in Helpers : other # h => helper'[l][other] = hs[other]
            /\ \A m \in Loads : m # l => helper'[m] = helper[m]
        BY <1>1, <2>3, <2>6, <2>7 DEF HelperStates
      <3>2. QED
        BY <2>5, <2>6, <3>1 DEF AtWork, Settled, Unused
    <2>8. CASE /\ helper[l][h] = "error" /\ End(l, "failed", at.kind)
               /\ helper' = [helper EXCEPT ![l][h] = AfterError(at.kind)]
      <3>1. AfterError(kind) \in {"again", "ended"}
        BY DEF AfterError
      <3>2. /\ load' \in [Loads -> Load] /\ filled' = filled
            /\ load'[l].pc = "failed" /\ load'[l].kind = kind /\ load'[l].next = next
            /\ \A m \in Loads : m # l => load'[m] = load[m]
        BY <1>1, <2>1, <2>3, <2>4, <2>8, EndKeepsType
      <3>3. LoadTypeOK'
        BY <1>1, <2>3, <2>7, <2>8, <3>1, <3>2 DEF LoadTypeOK
      <3>4. RowInv(load[l], helper[l], filled[l])'
        BY <2>3, <2>5, <2>6, <2>7, <2>8, <3>1, <3>2 DEF RowInv
      <3>5. QED
        BY <2>3, <2>7, <2>8, <3>1, <3>2, <3>3, <3>4, OneLoadMoves
    <2>9. ASSUME helper[l][h] = "ok"
          PROVE  /\ h \in fill
                 /\ helper' = [helper EXCEPT ![l][h] = "ended"] /\ UNCHANGED filled =>
                      Settled(Before(kind, next + 1), helper'[l], fill)
      BY <2>3, <2>5, <2>6, <2>7, <2>9 DEF AtWork, Settled
    <2>10. CASE /\ helper[l][h] = "ok" /\ ~IsLast(at)
                /\ load' = [load EXCEPT ![l].next = @ + 1]
                /\ helper' = [helper EXCEPT ![l][h] = "ended"] /\ UNCHANGED filled
      <3>1. PICK at2 : at2 = [at EXCEPT !.next = next + 1]
        OBVIOUS
      <3>2. next + 1 \in 1..Len(Order(kind)) /\ next + 1 \in 1..4
        <4>1. PICK n : n = Len(Order(kind))
          OBVIOUS
        <4>2. n \in 1..4 /\ next \in 1..n /\ next # n
          BY <2>3, <2>5, <2>6, <2>10, <4>1 DEF IsLast
        <4>3. next + 1 \in 1..n /\ next + 1 \in 1..4
          BY <4>2
        <4>4. QED
          BY <4>1, <4>3
      <3>3. at2 \in Load /\ at2.pc = "receive" /\ at2.kind = kind /\ at2.next = next + 1
        BY <2>2, <2>3, <2>4, <3>1, <3>2 DEF Load
      <3>4. load' = [load EXCEPT ![l] = at2]
        BY <1>1, <2>1, <2>3, <2>10, <3>1
      <3>5. /\ load' \in [Loads -> Load] /\ load'[l] = at2
            /\ \A m \in Loads : m # l => load'[m] = load[m]
        BY <1>1, <3>3, <3>4
      <3>6. LoadTypeOK'
        BY <1>1, <2>7, <2>10, <3>5 DEF LoadTypeOK
      <3>7. RowInv(load[l], helper[l], filled[l])'
        BY <2>7, <2>9, <2>10, <3>2, <3>3, <3>5 DEF RowInv
      <3>8. QED
        BY <2>7, <2>10, <3>5, <3>6, <3>7, OneLoadMoves
    <2>11. CASE helper[l][h] = "ok" /\ at.rows > 0 /\ Launch(l, at.kind, at.rows - 1)
      <3>1. at.rows - 1 \in 0..PageRows
        BY <2>4, <2>11, LoadAssumption DEF Load
      <3>2. QED
        BY <1>2, <2>3, <2>4, <2>11, <3>1
    <2>12. CASE /\ helper[l][h] = "ok" /\ IsLast(at)
                /\ End(l, "answered", at.kind) /\ helper' = [helper EXCEPT ![l][h] = "ended"]
      <3>1. /\ load' \in [Loads -> Load] /\ filled' = filled
            /\ load'[l].pc = "answered" /\ load'[l].kind = kind
            /\ \A m \in Loads : m # l => load'[m] = load[m]
        BY <1>1, <2>1, <2>3, <2>4, <2>12, EndKeepsType
      <3>2. Settled(HelpersOf(kind), helper'[l], fill)
        BY <2>3, <2>6, <2>9, <2>12, <3>1 DEF IsLast
      <3>3. LoadTypeOK'
        BY <1>1, <2>7, <2>12, <3>1 DEF LoadTypeOK
      <3>4. RowInv(load[l], helper[l], filled[l])'
        BY <2>7, <2>12, <3>1, <3>2 DEF RowInv
      <3>5. QED
        BY <2>7, <2>12, <3>1, <3>3, <3>4, OneLoadMoves
    <2>13. QED
      BY <2>2, <2>8, <2>10, <2>11, <2>12
  <1>7. CASE UNCHANGED loadVars
    BY <1>1, <1>7 DEF loadVars, LoadInv, LoadTypeOK
  <1>8. QED
    BY <1>4, <1>5, <1>6, <1>7 DEF LoadNext, LoadStep

LEMMA RowsComplete == LoadInv => RowsAreComplete
  <1> SUFFICES ASSUME LoadInv, NEW l \in Loads, load[l].pc = "answered", load[l].next > 1
               PROVE  /\ filled[l] = HelpersOf(load[l].kind)
                      /\ \A h \in HelpersOf(load[l].kind) : helper[l][h] = "ended"
    BY DEF RowsAreComplete
  <1>1. load[l].kind \in Kinds /\ filled[l] \subseteq Helpers /\ load[l].next \in 1..4
    BY DEF LoadInv, LoadTypeOK, Load
  <1>2. load[l].next # 1
    BY <1>1
  <1>3. Settled(HelpersOf(load[l].kind), helper[l], filled[l]) /\ Unused(load[l].kind, helper[l], filled[l])
    BY <1>2 DEF LoadInv, RowInv
  <1>4. QED
    BY <1>1, <1>3 DEF Settled, Unused

\* A row is answered only when every helper has set its field and has ended.
THEOREM CompleteRows == LoadSpec => []RowsAreComplete
  BY RowsComplete, LoadInitInv, LoadNextInv, PTL DEF LoadSpec

LEMMA LeaksBounded == LoadInv => LeaksAfterErrors
  <1> SUFFICES ASSUME LoadInv, NEW l \in Loads,
                      NEW from, from = IF load[l].kind = "custom" THEN load[l].next + 1 ELSE load[l].next
               PROVE  /\ load[l].pc = "answered" => Leaked(l) = {}
                      /\ load[l].pc = "failed" /\ helper[l] # NoHelpers =>
                           Leaked(l) = {Order(load[l].kind)[i] : i \in from..Len(Order(load[l].kind))}
    BY DEF LeaksAfterErrors, NoHelpers
  <1>1. PICK kind, next, hs, fill :
          kind = load[l].kind /\ next = load[l].next /\ hs = helper[l] /\ fill = filled[l]
    OBVIOUS
  <1>2. kind \in Kinds /\ hs \in [Helpers -> HelperStates]
    BY <1>1 DEF LoadInv, LoadTypeOK, Load
  <1>3. load[l].pc \in {"answered", "failed"} => Leaked(l) = {h \in Helpers : hs[h] \notin {"none", "ended"}}
    BY <1>1 DEF Leaked
  <1>4. CASE load[l].pc = "answered"
    <2>1. hs = NoHelpers \/ (Settled(HelpersOf(kind), hs, fill) /\ Unused(kind, hs, fill))
      BY <1>1, <1>4 DEF LoadInv, RowInv
    <2>2. \A h \in Helpers : hs[h] \in {"none", "ended"}
      BY <2>1 DEF NoHelpers, Settled, Unused
    <2>3. QED
      BY <1>3, <1>4, <2>2
  <1>5. CASE load[l].pc = "failed" /\ helper[l] # NoHelpers
    <2>1. /\ next \in 1..Len(Order(kind))
          /\ Settled(Before(kind, next), hs, fill)
          /\ hs[Order(kind)[next]] = AfterError(kind)
          /\ AtWork(HelpersOf(kind) \ Before(kind, next + 1), hs, fill)
          /\ Unused(kind, hs, fill)
      BY <1>1, <1>5 DEF LoadInv, RowInv
    <2>2. /\ HelpersOf(kind) \subseteq Helpers
          /\ Order(kind)[next] \in HelpersOf(kind) \ Before(kind, next)
          /\ Before(kind, next + 1) = Before(kind, next) \cup {Order(kind)[next]}
          /\ {Order(kind)[i] : i \in next..Len(Order(kind))} = HelpersOf(kind) \ Before(kind, next)
          /\ {Order(kind)[i] : i \in (next + 1)..Len(Order(kind))} = HelpersOf(kind) \ Before(kind, next + 1)
      BY <1>2, <2>1, OrderFacts
    <2>3. CASE kind = "custom"
      <3>1. Leaked(l) = HelpersOf(kind) \ Before(kind, next + 1)
        BY <1>3, <1>5, <2>1, <2>2, <2>3 DEF Settled, AtWork, Unused, AfterError, Working
      <3>2. QED
        BY <1>1, <1>5, <2>2, <2>3, <3>1
    <2>4. CASE kind # "custom"
      <3>1. Leaked(l) = HelpersOf(kind) \ Before(kind, next)
        BY <1>3, <1>5, <2>1, <2>2, <2>4 DEF Settled, AtWork, Unused, AfterError, Working
      <3>2. QED
        BY <1>1, <1>5, <2>2, <2>4, <3>1
    <2>5. QED
      BY <2>3, <2>4
  <1>6. QED
    BY <1>4, <1>5

\* Goroutines leak after errors only, and then exactly those whose channel is
\* read after the one that failed, and, except for LoadCustomData, that one.
THEOREM OnlyErrorsLeak == LoadSpec => []LeaksAfterErrors
  BY LeaksBounded, LoadInitInv, LoadNextInv, PTL DEF LoadSpec

-----------------------------------------------------------------------------
(* The combinations of a full-text query. *)

\* One step of the recursion of generateDrops.
Drops(n, left, less) ==
    [start \in 0..n |-> [dropped \in SUBSET Digits(n) |->
       IF left = 0 THEN {Digits(n) \ dropped}
       ELSE UNION {less[i + 1][dropped \cup {i}] : i \in start..n - 1}]]

\* generateDrops is a function that satisfies its recursion, because one exists.
LEMMA GeneratedDrops ==
    ASSUME NEW n \in Nat
    PROVE  \E f : /\ f = [left \in 0..3 |-> Drops(n, left, f[left - 1])]
                  /\ \A toDrop \in 0..3 : generateDrops(n, toDrop) = f[toDrop][0][{}]
  <1> DEFINE d0 == Drops(n, 0, n)
             d1 == Drops(n, 1, d0)
             d2 == Drops(n, 2, d1)
             d3 == Drops(n, 3, d2)
             g == [left \in 0..3 |-> IF left = 0 THEN d0 ELSE IF left = 1 THEN d1
                                     ELSE IF left = 2 THEN d2 ELSE d3]
             Solves(f) == f = [left \in 0..3 |-> Drops(n, left, f[left - 1])]
             drops == CHOOSE f : Solves(f)
  <1>1. \A less : Drops(n, 0, less) = d0
    BY DEF Drops
  <1> HIDE DEF d0, d1, d2, d3
  <1>2. g[0] = d0 /\ g[1] = d1 /\ g[2] = d2 /\ g[3] = d3
    OBVIOUS
  <1>3. \A left \in 0..3 : g[left] = Drops(n, left, g[left - 1])
    BY <1>1, <1>2 DEF d1, d2, d3
  <1>4. Solves(g)
    BY <1>3
  <1> HIDE DEF g, Solves
  <1>5. Solves(drops)
    BY <1>4, Zenon
  <1>6. \A toDrop \in 0..3 : generateDrops(n, toDrop) = drops[toDrop][0][{}]
    BY Zenon DEF generateDrops, Solves, Drops
  <1>7. QED
    BY <1>5, <1>6, Zenon DEF Solves

\* What the recursion asks for when it drops i.
Without(f, left, dropped, i) == f[left - 1][i + 1][dropped \cup {i}]

\* Dropping one digit gives every set with one digit less; two or three, only
\* sets that lack two digits.
LEMMA DropSets ==
    ASSUME NEW n \in Nat
    PROVE  /\ generateDrops(n, 1) = {Digits(n) \ {i} : i \in Digits(n)}
           /\ \A toDrop \in 2..3 : \A C \in generateDrops(n, toDrop) :
                \E i, j \in Digits(n) : i # j /\ C \subseteq (Digits(n) \ {i}) \ {j}
  <1>1. PICK f : /\ f = [left \in 0..3 |-> Drops(n, left, f[left - 1])]
                 /\ \A toDrop \in 0..3 : generateDrops(n, toDrop) = f[toDrop][0][{}]
    BY GeneratedDrops
  <1>2. \A left \in 0..3 : f[left] = Drops(n, left, f[left - 1])
    BY <1>1
  <1>3. ASSUME NEW s \in 0..n, NEW D \in SUBSET Digits(n)
        PROVE  f[0][s][D] = {Digits(n) \ D}
    <2>1. PICK less : f[0] = Drops(n, 0, less)
      BY <1>2
    <2>2. Drops(n, 0, less)[s][D] = {Digits(n) \ D}
      BY Zenon DEF Drops
    <2>3. QED
      BY <2>1, <2>2
  <1>4. ASSUME NEW s \in 0..n, NEW D \in SUBSET Digits(n), NEW left \in 1..3, NEW C
        PROVE  C \in f[left][s][D] <=> \E i \in s..n - 1 : C \in Without(f, left, D, i)
    <2>1. PICK less : less = f[left - 1]
      OBVIOUS
    <2>2. f[left] = Drops(n, left, less) /\ left # 0
      BY <1>2, <2>1
    <2>3. Drops(n, left, less)[s][D] = UNION {less[i + 1][D \cup {i}] : i \in s..n - 1}
      BY <2>2, Zenon DEF Drops
    <2>4. f[left][s][D] = UNION {Without(f, left, D, i) : i \in s..n - 1}
      BY <2>1, <2>2, <2>3, Zenon DEF Without
    <2>5. QED
      BY <2>4
  <1>5. ASSUME NEW s \in 0..n, NEW i \in s..n - 1, NEW D \in SUBSET Digits(n)
        PROVE  i \in Digits(n) /\ i + 1 \in 0..n /\ D \cup {i} \in SUBSET Digits(n)
    BY DEF Digits
  <1>6. ASSUME NEW s \in 0..n, NEW i \in s..n - 1, NEW D \in SUBSET Digits(n)
        PROVE  Without(f, 1, D, i) = {Digits(n) \ (D \cup {i})}
    <2>1. f[0][i + 1][D \cup {i}] = {Digits(n) \ (D \cup {i})}
      BY <1>3, <1>5
    <2>2. 1 - 1 = 0
      OBVIOUS
    <2>3. QED
      BY <2>1, <2>2, Zenon DEF Without
  <1>7. ASSUME NEW s \in 0..n, NEW D \in SUBSET Digits(n), NEW left \in 0..1, NEW C \in f[left][s][D]
        PROVE  C \subseteq Digits(n) \ D
    <2>1. CASE left = 0
      BY <1>3, <2>1
    <2>2. CASE left = 1
      <3>1. PICK i \in s..n - 1 : C \in Without(f, 1, D, i)
        BY <1>4, <2>2
      <3>2. QED
        BY <1>6, <3>1
    <2>3. QED
      BY <2>1, <2>2
  <1>8. generateDrops(n, 1) = {Digits(n) \ {i} : i \in Digits(n)}
    <2>1. {} \in SUBSET Digits(n) /\ 0 \in 0..n /\ Digits(n) = 0..n - 1
      BY DEF Digits
    <2>2. \A C : C \in f[1][0][{}] <=> \E i \in Digits(n) : C \in Without(f, 1, {}, i)
      BY <1>4, <2>1
    <2>3. ASSUME NEW i \in Digits(n) PROVE Without(f, 1, {}, i) = {Digits(n) \ {i}}
      <3>1. Without(f, 1, {}, i) = {Digits(n) \ ({} \cup {i})}
        BY <1>6, <2>1
      <3>2. QED
        BY <3>1
    <2>4. \A C : C \in f[1][0][{}] <=> \E i \in Digits(n) : C = Digits(n) \ {i}
      BY <2>2, <2>3
    <2>5. generateDrops(n, 1) = f[1][0][{}]
      BY <1>1
    <2>6. QED
      BY <2>4, <2>5
  <1>9. ASSUME NEW toDrop \in 2..3, NEW C \in generateDrops(n, toDrop)
        PROVE  \E i, j \in Digits(n) : i # j /\ C \subseteq (Digits(n) \ {i}) \ {j}
    <2>1. {} \in SUBSET Digits(n) /\ 0 \in 0..n
      BY DEF Digits
    <2>2. PICK k \in 0..1 : toDrop = k + 2
      OBVIOUS
    <2>3. C \in f[k + 2][0][{}]
      BY <1>1, <2>2
    <2>4. PICK i \in 0..n - 1 : C \in Without(f, k + 2, {}, i)
      BY <1>4, <2>1, <2>3
    <2>5. C \in f[k + 1][i + 1][{i}]
      BY <2>4 DEF Without
    <2>6. i \in Digits(n) /\ i + 1 \in 0..n /\ {i} \in SUBSET Digits(n)
      BY <1>5 DEF Digits
    <2>7. PICK j \in i + 1..n - 1 : C \in Without(f, k + 1, {i}, j)
      BY <1>4, <2>5, <2>6
    <2>8. C \in f[k][j + 1][{i} \cup {j}]
      BY <2>7 DEF Without
    <2>9. /\ j \in Digits(n) /\ j + 1 \in 0..n /\ {i} \cup {j} \in SUBSET Digits(n)
          /\ i # j
      BY <1>5, <2>6
    <2>10. C \subseteq Digits(n) \ ({i} \cup {j})
      BY <1>7, <2>8, <2>9
    <2>11. QED
      BY <2>6, <2>9, <2>10
  <1>10. QED
    BY <1>8, <1>9

\* Whichever position is left out, there is a combination of all the others.
LEMMA CombosOfAllButOne ==
    ASSUME NEW n \in 3..7, NEW k \in Digits(n)
    PROVE  Digits(n) \ {k} \in QueryCombination(n)
  <1>1. CASE n = 3
    <2>1. k \in {0, 1, 2} /\ Digits(n) = {0, 1, 2}
      BY <1>1 DEF Digits
    <2>2. Digits(n) \ {k} \in {{0, 1}, {0, 2}, {1, 2}}
      BY <2>1
    <2>3. QED
      BY <1>1, <2>2 DEF QueryCombination
  <1>2. CASE n = 4
    <2>1. k \in {0, 1, 2, 3} /\ Digits(n) = {0, 1, 2, 3}
      BY <1>2 DEF Digits
    <2>2. Digits(n) \ {k} \in {{0, 1, 2}, {0, 1, 3}, {0, 2, 3}, {1, 2, 3}}
      BY <2>1
    <2>3. QED
      BY <1>2, <2>2 DEF QueryCombination
  <1>3. CASE n = 5
    <2>1. k \in {0, 1, 2, 3, 4} /\ Digits(n) = {0, 1, 2, 3, 4}
      BY <1>3 DEF Digits
    <2>2. Digits(n) \ {k} \in {{0, 1, 2, 4}, {0, 1, 3, 4}, {0, 2, 3, 4}, {1, 2, 3, 4}, {0, 1, 2, 3}}
      BY <2>1
    <2>3. QED
      BY <1>3, <2>2 DEF QueryCombination
  <1>4. CASE n \in 6..7
    <2>1. QueryCombination(n) = generateCombos(n)
      BY <1>4 DEF QueryCombination
    <2>2. Digits(n) \ {k} \in generateDrops(n, 1)
      BY DropSets
    <2>3. QED
      BY <2>1, <2>2 DEF generateCombos
  <1>5. QED
    BY <1>1, <1>2, <1>3, <1>4

\* Up to six positions, there is one of them all.
LEMMA CombosOfAll ==
    ASSUME NEW n \in 1..6
    PROVE  Digits(n) \in QueryCombination(n)
  <1>1. CASE n = 6
    BY <1>1 DEF QueryCombination, generateCombos, HasComplete
  <1>2. CASE n = 1
    <2>1. Digits(n) = {0}
      BY <1>2 DEF Digits
    <2>2. QED
      BY <1>2, <2>1 DEF QueryCombination
  <1>3. CASE n = 2
    <2>1. Digits(n) = {0, 1}
      BY <1>3 DEF Digits
    <2>2. QED
      BY <1>3, <2>1 DEF QueryCombination
  <1>4. CASE n = 3
    <2>1. Digits(n) = {0, 1, 2}
      BY <1>4 DEF Digits
    <2>2. QED
      BY <1>4, <2>1 DEF QueryCombination
  <1>5. CASE n = 4
    <2>1. Digits(n) = {0, 1, 2, 3}
      BY <1>5 DEF Digits
    <2>2. QED
      BY <1>5, <2>1 DEF QueryCombination
  <1>6. CASE n = 5
    <2>1. Digits(n) = {0, 1, 2, 3, 4}
      BY <1>6 DEF Digits
    <2>2. QED
      BY <1>6, <2>1 DEF QueryCombination
  <1>7. QED
    BY <1>1, <1>2, <1>3, <1>4, <1>5, <1>6

-----------------------------------------------------------------------------
\* Where a keyword comes among those that are left.
Rank(i, kept) == Cardinality({j \in kept : j < i})

\* The ranks of the keywords that are left are all different, and below their
\* number.
LEMMA Ranks ==
    ASSUME NEW n \in Nat, NEW kept \in SUBSET Digits(n)
    PROVE  /\ IsFiniteSet(kept) /\ Cardinality(kept) \in 0..n
           /\ \A i \in kept : Rank(i, kept) \in 0..Cardinality(kept) - 1
           /\ \A i, j \in kept : Rank(i, kept) = Rank(j, kept) => i = j
  <1>1. IsFiniteSet(Digits(n)) /\ Cardinality(Digits(n)) = n
    BY FS_Interval DEF Digits
  <1>2. IsFiniteSet(kept) /\ Cardinality(kept) \in Nat /\ Cardinality(kept) <= n
    BY <1>1, FS_Subset, FS_CardinalityType
  <1>3. ASSUME NEW i \in kept, NEW S \in SUBSET kept, {j \in kept : j < i} \subseteq S, i \notin {j \in kept : j < i}, i \in S
        PROVE  Rank(i, kept) \in Nat /\ IsFiniteSet(S) /\ Rank(i, kept) < Cardinality(S)
    <2>1. PICK below : below = {j \in kept : j < i}
      OBVIOUS
    <2>2. IsFiniteSet(S) /\ Cardinality(S) \in Nat
      BY <1>2, FS_Subset, FS_CardinalityType
    <2>3. below \subseteq S \ {i}
      BY <1>3, <2>1
    <2>4. IsFiniteSet(S \ {i}) /\ Cardinality(S \ {i}) = Cardinality(S) - 1
      BY <1>3, <2>2, FS_RemoveElement
    <2>5. Cardinality(below) \in Nat /\ Cardinality(below) <= Cardinality(S \ {i})
      BY <2>3, <2>4, FS_Subset, FS_CardinalityType
    <2>6. QED
      BY <2>1, <2>2, <2>4, <2>5 DEF Rank
  <1>4. kept \subseteq Int
    BY DEF Digits
  <1>5. ASSUME NEW i \in kept PROVE Rank(i, kept) \in 0..Cardinality(kept) - 1
    BY <1>2, <1>3, <1>4
  <1>6. ASSUME NEW i \in kept, NEW j \in kept, i < j PROVE Rank(i, kept) < Rank(j, kept)
    <2>1. PICK S : S = {k \in kept : k < j}
      OBVIOUS
    <2>2. Rank(i, kept) < Cardinality(S)
      <3>1. S \in SUBSET kept /\ i \in S
        BY <1>6, <2>1
      <3>2. {k \in kept : k < i} \subseteq S /\ i \notin {k \in kept : k < i}
        <4>1. \A k \in kept : k < i => k < j
          BY <1>4, <1>6
        <4>2. ~(i < i)
          BY <1>4
        <4>3. QED
          BY <2>1, <4>1, <4>2
      <3>3. QED
        BY <1>3, <3>1, <3>2
    <2>3. QED
      BY <2>1, <2>2 DEF Rank
  <1>7. ASSUME NEW i \in kept, NEW j \in kept, Rank(i, kept) = Rank(j, kept) PROVE i = j
    BY <1>4, <1>5, <1>6, <1>7
  <1>8. QED
    BY <1>2, <1>5, <1>7

LEMMA SelectedByRank ==
    ASSUME NEW combo, NEW kept
    PROVE  Selected(combo, kept) = {i \in kept : Rank(i, kept) \in combo}
  <1>1. Words(kept) = {[index |-> Rank(i, kept), keyword |-> i] : i \in kept}
    BY Zenon DEF Words, Rank
  <1>2. ASSUME NEW i \in kept PROVE \E w \in Words(kept) : w.index = Rank(i, kept) /\ w.keyword = i
    <2>1. PICK w : w = [index |-> Rank(i, kept), keyword |-> i]
      OBVIOUS
    <2>2. w \in Words(kept)
      BY <1>1, <2>1, Zenon
    <2>3. QED
      BY <2>1, <2>2
  <1>3. \A w \in Words(kept) : w.keyword \in kept /\ w.index = Rank(w.keyword, kept)
    BY <1>1
  <1>4. Selected(combo, kept) = {w.keyword : w \in {v \in Words(kept) : v.index \in combo}}
    BY Zenon DEF Selected
  <1>5. QED
    BY <1>2, <1>3, <1>4

\* What an expression asks for.
Asked(n, lost) == {alternative.words : alternative \in Expression(n, lost)}

LEMMA AskedFor ==
    ASSUME NEW n, NEW lost, NEW ws
    PROVE  ws \in Asked(n, lost) <=>
             /\ Cardinality(ws) >= 2
             /\ \E combo \in QueryCombination(Used(n)) : ws = Selected(combo, Digits(Used(n)) \ lost)
  <1> DEFINE kept == Digits(Used(n)) \ lost
             S == {us \in {Selected(combo, kept) : combo \in QueryCombination(Used(n))} : Cardinality(us) >= 2}
  <1>1. Expression(n, lost) = {[words |-> us, distance |-> Distance(Cardinality(us))] : us \in S}
    BY Zenon DEF Expression
  <1>2. ws \in S <=> /\ Cardinality(ws) >= 2
                    /\ \E combo \in QueryCombination(Used(n)) : ws = Selected(combo, kept)
    OBVIOUS
  <1> HIDE DEF S
  <1>3. \A alternative \in Expression(n, lost) : alternative.words \in S
    BY <1>1
  <1>4. ASSUME NEW us \in S PROVE \E alternative \in Expression(n, lost) : alternative.words = us
    <2>1. PICK alternative : alternative = [words |-> us, distance |-> Distance(Cardinality(us))]
      OBVIOUS
    <2>2. alternative \in Expression(n, lost)
      BY <1>1, <2>1, Zenon
    <2>3. QED
      BY <2>1, <2>2
  <1>5. ws \in Asked(n, lost) <=> ws \in S
    BY <1>3, <1>4 DEF Asked
  <1>6. QED
    BY <1>2, <1>5

LEMMA DigitsFinite == \A n \in Nat : IsFiniteSet(Digits(n)) /\ Cardinality(Digits(n)) = n
  <1> SUFFICES ASSUME NEW n \in Nat
               PROVE  IsFiniteSet(Digits(n)) /\ Cardinality(Digits(n)) = n
    OBVIOUS
  <1>1. IsFiniteSet(0..n - 1) /\ Cardinality(0..n - 1) = n
    BY FS_Interval
  <1>2. QED
    BY <1>1 DEF Digits

\* The keywords that are left, all of them and all but one, are asked for; of
\* seven, exactly the sets of six, and no larger one.
LEMMA WantedIsAsked ==
    ASSUME NEW n \in 2..7, NEW kept \in SUBSET Digits(n), NEW asked,
           \A ws : ws \in asked <=>
             Cardinality(ws) >= 2 /\ \E combo \in QueryCombination(n) : ws = Selected(combo, kept)
    PROVE  /\ Cardinality(kept) \in 2..6 => kept \in asked
           /\ Cardinality(kept) \in 3..7 => \A i \in kept : kept \ {i} \in asked
           /\ Cardinality(kept) = 7 => \A ws \in asked : Cardinality(ws) >= 6 => \E i \in kept : ws = kept \ {i}
           /\ \A ws \in asked : ws \subseteq kept /\ Cardinality(ws) >= 2
  <1>1. /\ IsFiniteSet(kept) /\ Cardinality(kept) \in 0..n
        /\ \A i \in kept : Rank(i, kept) \in 0..Cardinality(kept) - 1
        /\ \A i, j \in kept : Rank(i, kept) = Rank(j, kept) => i = j
    BY Ranks
  <1>2. ASSUME Cardinality(kept) \in 2..6 PROVE kept \in asked
    <2>1. CASE n \in 2..6
      <3>1. \A i \in kept : Rank(i, kept) \in Digits(n)
        BY <1>1 DEF Digits
      <3>2. Selected(Digits(n), kept) = kept
        BY <3>1, SelectedByRank
      <3>3. Digits(n) \in QueryCombination(n)
        BY <2>1, CombosOfAll
      <3>4. QED
        BY <1>2, <3>2, <3>3
    <2>2. CASE n = 7
      <3>1. \A i \in kept : Rank(i, kept) \in Digits(n) \ {6}
        BY <1>1, <1>2, <2>2 DEF Digits
      <3>2. Selected(Digits(n) \ {6}, kept) = kept
        BY <3>1, SelectedByRank
      <3>3. Digits(n) \ {6} \in QueryCombination(n)
        BY <2>2, CombosOfAllButOne DEF Digits
      <3>4. QED
        BY <1>2, <3>2, <3>3
    <2>3. QED
      BY <2>1, <2>2
  <1>3. ASSUME Cardinality(kept) \in 3..7, NEW i \in kept PROVE kept \ {i} \in asked
    <2>1. n \in 3..7 /\ Rank(i, kept) \in Digits(n)
      BY <1>1, <1>3 DEF Digits
    <2>2. Digits(n) \ {Rank(i, kept)} \in QueryCombination(n)
      BY <2>1, CombosOfAllButOne
    <2>3. \A j \in kept : Rank(j, kept) \in Digits(n) \ {Rank(i, kept)} <=> j # i
      BY <1>1 DEF Digits
    <2>4. Selected(Digits(n) \ {Rank(i, kept)}, kept) = kept \ {i}
      BY <2>3, SelectedByRank
    <2>5. Cardinality(kept \ {i}) = Cardinality(kept) - 1
      BY <1>1, FS_RemoveElement
    <2>6. PICK ws : ws = kept \ {i}
      OBVIOUS
    <2>7. Cardinality(ws) >= 2
      BY <1>3, <2>5, <2>6
    <2>8. ws \in asked
      BY <2>2, <2>4, <2>6, <2>7
    <2>9. QED
      BY <2>6, <2>8
  <1>4. ASSUME Cardinality(kept) = 7, NEW ws \in asked, Cardinality(ws) >= 6
        PROVE  \E i \in kept : ws = kept \ {i}
    <2>1. n = 7 /\ IsFiniteSet(Digits(7)) /\ Cardinality(Digits(7)) = 7
      <3>1. n = 7
        BY <1>1, <1>4
      <3>2. QED
        BY <3>1, DigitsFinite
    <2>2. kept = Digits(7)
      BY <1>4, <2>1, FS_Subset
    <2>3. ASSUME NEW i \in Digits(7) PROVE Rank(i, kept) = i
      <3>1. {j \in kept : j < i} = 0..i - 1
        BY <2>2 DEF Digits
      <3>2. Cardinality(0..i - 1) = i
        BY FS_Interval DEF Digits
      <3>3. QED
        BY <3>1, <3>2 DEF Rank
    <2>4. PICK combo \in QueryCombination(7) : ws = Selected(combo, kept)
      BY <2>1
    <2>5. ws = kept \cap combo
      BY <2>2, <2>3, <2>4, SelectedByRank
    <2>6. PICK drop \in 1..3 : combo \in generateDrops(7, drop)
      <3>1. QueryCombination(7) = generateCombos(7)
        BY DEF QueryCombination
      <3>2. QED
        BY <2>4, <3>1 DEF generateCombos, HasComplete
    <2>7. CASE drop = 1
      <3>1. PICK i \in Digits(7) : combo = Digits(7) \ {i}
        BY <2>6, <2>7, DropSets
      <3>2. QED
        BY <2>2, <2>5, <3>1
    <2>8. CASE drop \in 2..3
      <3>1. PICK i, j \in Digits(7) : i # j /\ combo \subseteq (Digits(7) \ {i}) \ {j}
        BY <2>6, <2>8, DropSets
      <3>2. PICK others : others = Digits(7) \ {i}
        OBVIOUS
      <3>3. IsFiniteSet(others) /\ Cardinality(others) = 6
        BY <2>1, <3>2, FS_RemoveElement
      <3>4. PICK rest : rest = others \ {j} /\ j \in others
        BY <3>1, <3>2
      <3>5. IsFiniteSet(rest) /\ Cardinality(rest) = 5
        <4>1. IsFiniteSet(others \ {j}) /\ Cardinality(others \ {j}) = Cardinality(others) - 1
          BY <3>3, <3>4, FS_RemoveElement
        <4>2. QED
          BY <3>3, <3>4, <4>1
      <3>6. ws \subseteq rest
        BY <2>5, <3>1, <3>2, <3>4
      <3>7. Cardinality(ws) \in Nat /\ Cardinality(ws) <= 5
        BY <3>5, <3>6, FS_Subset, FS_CardinalityType
      <3>8. QED
        BY <1>4, <3>7
    <2>9. QED
      BY <2>7, <2>8
  <1>5. ASSUME NEW ws \in asked PROVE ws \subseteq kept /\ Cardinality(ws) >= 2
    BY <1>5, SelectedByRank
  <1>6. QED
    BY <1>2, <1>3, <1>4, <1>5

\* The query as it was asked.
QueryInv ==
    query # NoQuery =>
      /\ query.keywords \in 2..MaxKeywords
      /\ query.lost \subseteq Digits(query.keywords)
      /\ query.expression = Expression(query.keywords, query.lost)

LEMMA QueryInvariance == FullTextSpec => []QueryInv
  <1>1. FullTextInit => QueryInv
    BY DEF FullTextInit, QueryInv
  <1>2. QueryInv /\ [FullTextNext]_query => QueryInv'
    BY FullTextAssumption DEF QueryInv, FullTextNext, BuildExpression
  <1>3. QED
    BY <1>1, <1>2, PTL DEF FullTextSpec

LEMMA WordsTried == QueryInv => AllWordsTried
  <1> SUFFICES ASSUME QueryInv, query # NoQuery PROVE AllWordsTried
    BY DEF AllWordsTried
  <1> DEFINE asked == {alternative.words : alternative \in query.expression}
             n == Used(query.keywords)
  <1>1. /\ query.keywords \in Nat \ {0, 1} /\ query.lost \subseteq Digits(query.keywords)
        /\ query.expression = Expression(query.keywords, query.lost)
    BY FullTextAssumption DEF QueryInv
  <1>2. n \in 2..7 /\ n = IF query.keywords > 7 THEN 7 ELSE query.keywords
    BY <1>1 DEF Used
  <1>3. Kept = Digits(n) \ query.lost
    BY <1>1, <1>2 DEF Kept, Digits
  <1>4. \A ws : ws \in asked <=>
          Cardinality(ws) >= 2 /\ \E combo \in QueryCombination(n) : ws = Selected(combo, Kept)
    <2>1. asked = Asked(query.keywords, query.lost)
      BY <1>1 DEF Asked
    <2>2. ASSUME NEW ws
          PROVE  ws \in Asked(query.keywords, query.lost) <=>
                   Cardinality(ws) >= 2 /\ \E combo \in QueryCombination(n) : ws = Selected(combo, Kept)
      BY <1>3, AskedFor
    <2>3. QED
      BY <2>1, <2>2
  <1> HIDE DEF n
  <1>5. /\ Cardinality(Kept) \in 2..6 => Kept \in asked
        /\ Cardinality(Kept) \in 3..7 => \A i \in Kept : Kept \ {i} \in asked
        /\ Cardinality(Kept) = 7 => \A ws \in asked : Cardinality(ws) >= 6 => \E i \in Kept : ws = Kept \ {i}
        /\ \A ws \in asked : ws \subseteq Kept /\ Cardinality(ws) >= 2
    <2>1. n \in 2..7 /\ Kept \in SUBSET Digits(n)
      BY <1>2, <1>3
    <2> HIDE DEF asked
    <2>2. QED
      BY <1>4, <2>1, WantedIsAsked
  <1>6. IsFiniteSet(Kept) /\ Cardinality(Kept) \in 0..7
    BY <1>2, <1>3, Ranks
  <1>7. query.expression = {} <=> asked = {}
    OBVIOUS
  <1> HIDE DEF asked
  <1>8. asked = {} <=> Cardinality(Kept) < 2
    <2>1. ASSUME asked # {} PROVE Cardinality(Kept) >= 2
      <3>1. PICK ws \in asked : TRUE
        BY <2>1
      <3>2. ws \subseteq Kept /\ Cardinality(ws) >= 2
        BY <1>5
      <3>3. Cardinality(ws) \in Nat /\ Cardinality(ws) <= Cardinality(Kept)
        BY <1>6, <3>2, FS_Subset, FS_CardinalityType
      <3>4. QED
        BY <1>6, <3>2, <3>3
    <2>2. ASSUME Cardinality(Kept) = 7 PROVE asked # {}
      <3>1. Kept # {}
        BY <2>2, FS_EmptySet
      <3>2. PICK i \in Kept : TRUE
        BY <3>1
      <3>3. Kept \ {i} \in asked
        BY <1>5, <2>2, <3>2
      <3>4. QED
        BY <3>3
    <2>3. QED
      BY <1>5, <1>6, <2>1, <2>2
  <1>9. Cardinality(Kept) \in 2..6 => Wanted \subseteq asked
    BY <1>5, <1>6 DEF Wanted, AllButOne
  <1>10. ASSUME Cardinality(Kept) = 7
         PROVE  AllButOne = {ws \in asked : Cardinality(ws) >= 6}
    <2>1. ASSUME NEW i \in Kept PROVE Cardinality(Kept \ {i}) >= 6
      BY <1>6, <1>10, FS_RemoveElement
    <2>2. QED
      BY <1>5, <1>10, <2>1 DEF AllButOne
  <1>11. QED
    BY <1>5, <1>7, <1>8, <1>9, <1>10 DEF AllWordsTried, asked

\* Whatever keywords the dictionary loses, the search asks for all that are
\* left and for all but any one of them, except for seven at once
\* (fts_utils.go, kbbi.go): for lists of any length, not only those TLC tries.
THEOREM SearchesTryAllWords == FullTextSpec => []AllWordsTried
  BY QueryInvariance, WordsTried, PTL

-----------------------------------------------------------------------------
(* The types. *)

\* The searches that have read the entry.
Begun == {c \in Counts : count[c].pc # "idle"}

\* What CountInv leaves open of the types: the days, and that a search counts
\* one attempt at most.
CountBounds ==
    /\ day <= MaxDay
    /\ entry.attempt <= Cardinality(Begun) /\ changes <= Cardinality(Begun)
    /\ \A c \in Counts : count[c].entry.attempt <= Cardinality(Begun)

LEMMA CountInitBounds == CounterInit => CountBounds
  <1> SUFFICES ASSUME CounterInit PROVE CountBounds
    OBVIOUS
  <1>1. Begun = {}
    BY DEF CounterInit, Begun
  <1>2. Cardinality(Begun) = 0
    BY <1>1, FS_EmptySet
  <1>3. QED
    BY <1>2, CounterAssumption DEF CounterInit, CountBounds, NoEntry

LEMMA CountNextBounds ==
    ASSUME IsFiniteSet(Counts), CountInv, CountBounds, [CounterNext]_counterVars
    PROVE  CountBounds'
  <1>1. /\ count \in [Counts -> CountRequest]
        /\ entry \in [keywords : Keywords \cup {NoKeywords}, attempt : Nat]
        /\ day \in Nat /\ cacheDay \in Nat /\ changes \in Nat
    BY DEF CountInv
  <1>2. IsFiniteSet(Begun) /\ Cardinality(Begun) \in Nat
    BY FS_Subset, FS_CardinalityType DEF Begun
  <1>3. OfToday.attempt \in Nat /\ OfToday.attempt <= Cardinality(Begun)
    BY <1>1, <1>2 DEF OfToday, NoEntry, CountBounds
  <1>4. ASSUME NEW c \in Counts, ReadEntry(c) PROVE CountBounds'
    <2>1. count[c].pc = "idle" /\ entry' = OfToday /\ day' = day
      BY <1>4 DEF ReadEntry
    <2>2. PICK request \in CountRequest :
            /\ count' = [count EXCEPT ![c] = request] /\ request.pc \in {"write", "done"}
            /\ request.entry.attempt \in {count[c].entry.attempt, OfToday.attempt + 1}
            /\ changes' \in {changes, changes + 1, 1}
      <3>1. PICK keywords \in Keywords :
              IF OfToday.keywords = keywords
              THEN count' = [count EXCEPT ![c].pc = "done"] /\ UNCHANGED changes
              ELSE /\ count' = [count EXCEPT ![c] =
                        [pc |-> "write",
                         entry |-> [keywords |-> keywords, attempt |-> OfToday.attempt + 1]]]
                   /\ changes' = (IF cacheDay = day THEN changes ELSE 0) + 1
        BY <1>4 DEF ReadEntry
      <3>2. CASE OfToday.keywords = keywords
        <4>1. PICK request : request = [count[c] EXCEPT !.pc = "done"]
          OBVIOUS
        <4>2. request \in CountRequest /\ request.pc = "done" /\ request.entry = count[c].entry
          BY <1>1, <4>1 DEF CountRequest
        <4>3. count' = [count EXCEPT ![c] = request] /\ changes' = changes
          BY <3>1, <3>2, <4>1
        <4>4. QED
          BY <4>2, <4>3
      <3>3. CASE OfToday.keywords # keywords
        <4>1. PICK request : request = [pc |-> "write",
                                        entry |-> [keywords |-> keywords, attempt |-> OfToday.attempt + 1]]
          OBVIOUS
        <4>2. request \in CountRequest /\ request.pc = "write" /\ request.entry.attempt = OfToday.attempt + 1
          BY <1>3, <4>1 DEF CountRequest
        <4>3. count' = [count EXCEPT ![c] = request]
              /\ changes' = (IF cacheDay = day THEN changes ELSE 0) + 1
          BY <3>1, <3>3, <4>1
        <4>4. changes' \in {changes, changes + 1, 1}
          <5>1. CASE cacheDay = day
            BY <4>3, <5>1
          <5>2. CASE cacheDay # day
            BY <4>3, <5>2
          <5>3. QED
            BY <5>1, <5>2
        <4>5. request.entry.attempt \in {count[c].entry.attempt, OfToday.attempt + 1}
          BY <4>2
        <4>6. QED
          BY <4>2, <4>3, <4>4, <4>5
      <3>4. QED
        BY <3>2, <3>3
    <2>3. count'[c] = request /\ \A b \in Counts : b # c => count'[b] = count[b]
      BY <1>1, <2>2
    <2>4. Begun' = Begun \cup {c} /\ c \notin Begun
      BY <2>1, <2>2, <2>3 DEF Begun
    <2>5. Cardinality(Begun') = Cardinality(Begun) + 1
      BY <1>2, <2>4, FS_AddElement
    <2>6. \A b \in Counts : count'[b].entry.attempt <= Cardinality(Begun')
      <3>1. \A b \in Counts : count[b].entry.attempt \in Nat /\ count[b].entry.attempt <= Cardinality(Begun)
        BY <1>1 DEF CountRequest, CountBounds
      <3>2. count'[c].entry.attempt <= Cardinality(Begun')
        BY <1>2, <1>3, <2>2, <2>3, <2>5, <3>1
      <3>3. QED
        BY <1>2, <2>3, <2>5, <3>1, <3>2
    <2>7. entry'.attempt <= Cardinality(Begun')
      BY <1>2, <1>3, <2>1, <2>5
    <2>8. changes' <= Cardinality(Begun')
      BY <1>1, <1>2, <2>2, <2>5 DEF CountBounds
    <2>9. QED
      BY <2>1, <2>6, <2>7, <2>8 DEF CountBounds
  <1>5. ASSUME NEW c \in Counts, WriteEntry(c) PROVE CountBounds'
    <2>1. /\ count[c].pc = "write" /\ entry' = count[c].entry /\ UNCHANGED <<day, changes>>
          /\ count' = [count EXCEPT ![c] = [count[c] EXCEPT !.pc = "done"]]
      BY <1>5 DEF WriteEntry
    <2>2. /\ count'[c].pc = "done" /\ \A b \in Counts : count'[b].entry = count[b].entry
          /\ \A b \in Counts : b # c => count'[b] = count[b]
      BY <1>1, <2>1 DEF CountRequest
    <2>3. Begun' = Begun
      BY <2>1, <2>2 DEF Begun
    <2>4. QED
      BY <2>1, <2>2, <2>3 DEF CountBounds
  <1>6. CASE Midnight
    <2>1. Begun' = Begun
      BY <1>6 DEF Midnight, Begun
    <2>2. day' <= MaxDay
      BY <1>1, <1>6, CounterAssumption DEF Midnight
    <2>3. QED
      BY <1>6, <2>1, <2>2 DEF Midnight, CountBounds
  <1>7. CASE UNCHANGED counterVars
    BY <1>7 DEF counterVars, CountBounds, Begun
  <1>8. QED
    BY <1>4, <1>5, <1>6, <1>7 DEF CounterNext

LEMMA CountTyped == IsFiniteSet(Counts) /\ CountInv /\ CountBounds => CounterTypeOK
  <1> SUFFICES ASSUME IsFiniteSet(Counts), CountInv, CountBounds PROVE CounterTypeOK
    OBVIOUS
  <1>1. /\ count \in [Counts -> CountRequest]
        /\ entry \in [keywords : Keywords \cup {NoKeywords}, attempt : Nat]
        /\ day \in Nat /\ cacheDay \in Nat /\ changes \in Nat /\ cacheDay <= day /\ disturbed \in BOOLEAN
    BY DEF CountInv
  <1>2. /\ Cardinality(Begun) \in Nat /\ Cardinality(Counts) \in Nat
        /\ Cardinality(Begun) <= Cardinality(Counts)
    BY FS_Subset, FS_CardinalityType DEF Begun
  <1>3. /\ entry.attempt \in 0..Cardinality(Counts) /\ changes \in 0..Cardinality(Counts)
        /\ \A c \in Counts : count[c].entry.attempt \in 0..Cardinality(Counts)
    BY <1>1, <1>2 DEF CountBounds, CountRequest
  <1>4. entry \in Entries
    BY <1>1, <1>3 DEF Entries
  <1>5. ASSUME NEW c \in Counts PROVE count[c].entry \in Entries
    BY <1>1, <1>3 DEF Entries, CountRequest
  <1>6. count \in [Counts -> [pc : {"idle", "write", "done"}, entry : Entries]]
    BY <1>1, <1>5 DEF CountRequest
  <1>7. day \in 0..MaxDay /\ cacheDay \in 0..MaxDay
    BY <1>1, CounterAssumption DEF CountBounds
  <1>8. QED
    BY <1>1, <1>3, <1>4, <1>6, <1>7 DEF CounterTypeOK

-----------------------------------------------------------------------------
\* What the child writes in all is bounded.
CallBounds == \A stream \in Streams : output[stream] <= MaxOutput

LEMMA CallNextBounds == CallBounds /\ [AiCallNext]_callVars => CallBounds'
  <1> SUFFICES ASSUME CallBounds, [AiCallNext]_callVars PROVE CallBounds'
    OBVIOUS
  <1>1. output' = output \/ output' \in [Streams -> 0..MaxOutput]
    BY DEF AiCallNext, RunAIProvider, Proceed, EndHttp, ChildExits, DeadlineKills, EndCommand,
           ChildWrites, ReadAll, callVars
  <1>2. QED
    BY <1>1, AiCallAssumption DEF CallBounds

LEMMA CallTyped == CallInv /\ CallBounds => AiCallTypeOK
  <1> SUFFICES ASSUME CallInv, CallBounds PROVE AiCallTypeOK
    OBVIOUS
  <1>1. /\ output \in [Streams -> Nat] /\ pipe \in [Streams -> 0..PipeSize] /\ got \in [Streams -> Nat]
        /\ \A stream \in Streams : got[stream] + pipe[stream] <= output[stream]
    BY DEF CallInv
  <1>2. ASSUME NEW stream \in Streams
        PROVE  output[stream] \in 0..MaxOutput /\ got[stream] \in 0..MaxOutput
    BY <1>1, AiCallAssumption DEF CallBounds
  <1>3. output \in [Streams -> 0..MaxOutput] /\ got \in [Streams -> 0..MaxOutput]
    BY <1>1, <1>2
  <1>4. QED
    BY <1>1, <1>3 DEF AiCallTypeOK, CallInv, CallSteps

-----------------------------------------------------------------------------
LEMMA QueryTyped == QueryInv => FullTextTypeOK
  <1> SUFFICES ASSUME QueryInv PROVE FullTextTypeOK
    OBVIOUS
  <1>1. CASE query = NoQuery
    BY <1>1, FullTextAssumption DEF NoQuery, FullTextTypeOK
  <1>2. CASE query # NoQuery
    <2>1. /\ query.keywords \in 2..MaxKeywords /\ query.lost \subseteq Digits(query.keywords)
          /\ query.expression = Expression(query.keywords, query.lost)
      BY <1>2, FullTextAssumption DEF QueryInv
    <2>2. query.lost \subseteq Digits(MaxKeywords)
      BY <2>1, FullTextAssumption DEF Digits
    <2>3. PICK n, kept : n = Used(query.keywords) /\ kept = Digits(n) \ query.lost
      OBVIOUS
    <2>4. n \in 2..7
      BY <2>1, <2>3, FullTextAssumption DEF Used
    <2>5. ASSUME NEW ws
          PROVE  ws \in Asked(query.keywords, query.lost) <=>
                   Cardinality(ws) >= 2 /\ \E combo \in QueryCombination(n) : ws = Selected(combo, kept)
      <3>1. kept = Digits(Used(query.keywords)) \ query.lost
        BY <2>3
      <3>2. ws \in Asked(query.keywords, query.lost) <=>
              /\ Cardinality(ws) >= 2
              /\ \E combo \in QueryCombination(Used(query.keywords)) :
                   ws = Selected(combo, Digits(Used(query.keywords)) \ query.lost)
        BY AskedFor
      <3>3. QED
        BY <2>3, <3>1, <3>2, Zenon
    <2>6. \A ws \in Asked(query.keywords, query.lost) : ws \subseteq kept
      <3>1. kept \in SUBSET Digits(n)
        BY <2>3
      <3>2. PICK asked : asked = Asked(query.keywords, query.lost)
        OBVIOUS
      <3>3. \A ws : ws \in asked <=>
              Cardinality(ws) >= 2 /\ \E combo \in QueryCombination(n) : ws = Selected(combo, kept)
        BY <2>5, <3>2
      <3>4. \A ws \in asked : ws \subseteq kept /\ Cardinality(ws) >= 2
        BY <2>4, <3>1, <3>3, WantedIsAsked
      <3>5. QED
        BY <3>2, <3>4
    <2>7. kept \subseteq Digits(7)
      BY <2>3, <2>4 DEF Digits
    <2>8. ASSUME NEW alternative \in query.expression
          PROVE  alternative.words \subseteq Digits(7) /\ alternative.distance \in {4, 10}
      <3>1. alternative.words \in Asked(query.keywords, query.lost)
        BY <2>1 DEF Asked
      <3>2. PICK ws : alternative = [words |-> ws, distance |-> Distance(Cardinality(ws))]
        BY <2>1 DEF Expression
      <3>3. QED
        BY <2>6, <2>7, <3>1, <3>2 DEF Distance
    <2>9. QED
      BY <2>1, <2>2, <2>8 DEF FullTextTypeOK
  <1>3. QED
    BY <1>1, <1>2

-----------------------------------------------------------------------------
(* The components together. *)

\* The components' specifications, without their fairness, which is promised
\* only to the behaviours of the component.
Parts ==
    /\ LoadInit /\ [][LoadNext]_loadVars
    /\ SearchInit /\ [][SearchNext]_searchVars
    /\ FullTextSpec
    /\ CounterSpec
    /\ AiCallInit /\ [][AiCallNext]_callVars

\* Each component's own specification holds of the behaviours that the run
\* Readers checks, so that whatever is proved of one holds in all of them.
THEOREM ReadersSteps == Spec => Parts
  <1>1. Init => LoadInit /\ SearchInit /\ FullTextInit /\ CounterInit /\ AiCallInit
    BY DEF Init
  <1>2. [Next]_vars => /\ [LoadNext]_loadVars /\ [SearchNext]_searchVars /\ [FullTextNext]_query
                       /\ [CounterNext]_counterVars /\ [AiCallNext]_callVars
    BY DEF Next, vars, Loading, Searching, Expressing, CountingAttempts, Calling
  <1>3. QED
    BY <1>1, <1>2, PTL DEF Spec, Parts, FullTextSpec, CounterSpec

\* The variables of all components keep their types: among others, an address
\* has no more attempts than there are searches, and an expression asks for
\* keywords among the first seven only.
THEOREM ReadersTypes == ASSUME IsFiniteSet(Counts) PROVE Spec => []TypeOK
  <1>1. Spec => []LoadInv /\ []SearchInv /\ []CountInv /\ []CallInv
    BY ReadersSteps, LoadInitInv, LoadNextInv, SearchInitInv, SearchNextInv, CountInitInv, CountNextInv,
       CallInitInv, CallNextInv, PTL DEF Parts, CounterSpec
  <1>2. Spec => []QueryInv
    BY ReadersSteps, QueryInvariance, PTL DEF Parts
  <1>3. Spec => []SearchBounds
    BY <1>1, ReadersSteps, SearchInitBounds, SearchNextBounds, PTL DEF Parts
  <1>4. Spec => []CountBounds
    <2>1. CountInv /\ CountBounds /\ [CounterNext]_counterVars => CountBounds'
      BY CountNextBounds
    <2>2. QED
      BY <1>1, <2>1, ReadersSteps, CountInitBounds, PTL DEF Parts, CounterSpec
  <1>5. Spec => []CallBounds
    <2>1. AiCallInit => CallBounds
      BY AiCallAssumption DEF AiCallInit, CallBounds, Nothing
    <2>2. QED
      BY <2>1, ReadersSteps, CallNextBounds, PTL DEF Parts
  <1>6. Spec => [](scenario \in Scenarios)
    <2>1. Init => scenario \in Scenarios
      BY DEF Init
    <2>2. scenario \in Scenarios /\ [Next]_vars => (scenario \in Scenarios)'
      BY DEF Next, vars, Loading, Searching, Expressing, CountingAttempts, Calling
    <2>3. QED
      BY <2>1, <2>2, PTL DEF Spec
  <1>7. LoadInv => LoadTypeOK
    BY DEF LoadInv
  <1>8. CountInv /\ CountBounds => CounterTypeOK
    BY CountTyped
  <1>9. scenario \in Scenarios /\ LoadTypeOK /\ SearchTypeOK /\ FullTextTypeOK /\ CounterTypeOK /\ AiCallTypeOK
          => TypeOK
    BY DEF TypeOK
  <1>10. QED
    BY <1>1, <1>2, <1>3, <1>4, <1>5, <1>6, <1>7, <1>8, <1>9, SearchTyped, QueryTyped, CallTyped, PTL

\* The safety properties of the run Readers, of its specification.
THEOREM ReadersKeep ==
    Spec => /\ [](RowsAreComplete /\ LeaksAfterErrors /\ CacheSound /\ TotalIsSum)
            /\ [](AllWordsTried /\ CountsWhenAlone /\ NothingLost)
            /\ ServedQueries
  <1>1. Spec => [](RowsAreComplete /\ LeaksAfterErrors)
    BY ReadersSteps, LoadInitInv, LoadNextInv, RowsComplete, LeaksBounded, PTL DEF Parts
  <1>2. Spec => []SearchInv /\ [][SearchNext]_searchVars
    BY ReadersSteps, SearchInitInv, SearchNextInv, PTL DEF Parts
  <1>3. Spec => [](CacheSound /\ TotalIsSum)
    BY <1>2, CacheAgrees, TotalsOfResults, PTL
  <1>4. Spec => ServedQueries
    BY <1>2, OwnExpression, PTL DEF ServedQueries
  <1>5. Spec => []AllWordsTried /\ []CountsWhenAlone
    BY ReadersSteps, SearchesTryAllWords, LoneSearchesCount, PTL DEF Parts
  <1>6. Spec => []NothingLost
    BY ReadersSteps, CallInitInv, CallNextInv, NothingUnread, PTL DEF Parts
  <1>7. QED
    BY <1>1, <1>3, <1>4, <1>5, <1>6, PTL
=============================================================================
