--------------------------- MODULE ServicesProofs ---------------------------
(***************************************************************************)
(* Theorems about the run of launcher, overlay elements and threads, where *)
(* one part moves at a time: that every thread has an owner for any number *)
(* of sinks and of signals at any moment, and that no surface is lost by   *)
(* the elements without a codec, for every set of inputs and every number  *)
(* of surfaces, buffers, frames and faults: the lock of a surface counts   *)
(* who holds it, a task still to run is alone with its surface, frames     *)
(* keep their order, and a conversion fills what the upload copies.        *)
(*                                                                         *)
(* PInv says where a surface may be: with at most one task and at most one *)
(* of the queue, the next element and the hand of the element itself, and  *)
(* its lock is the number of these.                                        *)
(*                                                                         *)
(* For the threads the invariant TInv describes the main thread's stack:   *)
(* which calls may be under way (Shape), that each but the top one was     *)
(* interrupted by a signal (Interrupted), and what that says of the        *)
(* threads: m_WaitCount and m_Mutex are those of the calls in Wait, one    *)
(* call at most joins a thread, and what main has passed was joined.       *)
(***************************************************************************)
EXTENDS MCServices, TLAPS, SequenceTheorems, FunctionTheorems, FiniteSetTheorems

-----------------------------------------------------------------------------
(* The elements without a codec: the invariant. *)

\* What is in a queue but the mark of the end, and that it is there once.
Within(q) == {q[i] : i \in DOMAIN q} \ {0}
Apart(q) == \A i, j \in DOMAIN q : q[i] = q[j] /\ q[i] # 0 => i = j
One(p) == IF p THEN 1 ELSE 0

\* Where the threads are, and where they work on a surface.
ReaderPlaces == {"init", "pick", "process", "sync", "push", "put", "pushEos", "putEos", "end", "gone",
                 "crashed"}
WriterPlaces == {"init", "get", "submit", "sync", "write", "clear", "return", "gone"}
PickPlaces == IF Writes THEN {"submit", "sync", "write", "clear", "return"} ELSE {"sync", "push", "put"}

\* Types.
PTypes ==
  /\ ele \in Overlays /\ {running, eos, text, closed} \subseteq BOOLEAN
  /\ at \in IF Writes THEN WriterPlaces ELSE ReaderPlaces
  /\ content \in [Surfaces -> Nat] /\ locked \in [Surfaces -> 0 .. 2]
  /\ tasks \in [Tasks -> 0 .. MaxSurfaces] /\ work \in Seq(Tasks)
  /\ result \in {"none", "waiting", "done", "failed"} /\ pick \in 0 .. MaxSurfaces
  /\ pad \in Seq(0 .. MaxSurfaces) /\ Len(pad) <= PadSize
  /\ held \subseteq Surfaces /\ peer \in {"running", "left"}
  /\ rest \in Nat /\ (ele.kind = "yuv" => rest <= ele.frames)
  /\ bs \in Seq(1 .. MaxFrames) /\ out \in Seq(1 .. MaxFrames) /\ written \in Nat
  /\ sent \in 0 .. MaxFrames /\ faults \in 0 .. MaxFaults
  /\ Writes => \A s \in Surfaces : locked[s] # 0 => content[s] \in 1 .. MaxFrames

\* The surface in the hand of the element, and those of the tasks.
Hand == IF at \in PickPlaces THEN {pick} \ {0} ELSE {}
InTasks == {tasks[t] : t \in Tasks} \ {0}

\* Who holds a surface, and what its lock says.
Kept ==
  /\ Apart(work) /\ Apart(pad) /\ Apart(tasks)
  /\ \A t \in Tasks : Busy(t) <=> t \in Within(work)
  /\ Within(pad) \cap held = {} /\ Within(pad) \cap Hand = {} /\ held \cap Hand = {}
  /\ InTasks \cap Within(pad) = {} /\ InTasks \cap held = {}
  /\ at # "crashed" =>
       \A s \in Surfaces : locked[s] = One(s \in InTasks) + One(s \in Within(pad) \cup held \cup Hand)

\* What each place of the thread knows.
Places ==
  /\ at = "sync" => result # "none" /\ (result \in {"done", "failed"} => work = << >>)
  /\ at = "sync" /\ result = "waiting" => work # << >> /\ tasks[work[Len(work)]] = pick
  /\ at = "init" => work = << >>
  /\ at \in {"push", "put"} => work = << >>
  /\ faults = 0 => /\ Len(work) <= 1
                   /\ work # << >> => at \in {"sync", "crashed"} \/ (Writes /\ ~running)
  /\ at = "process" => pick # 0 /\ locked[pick] = 0
  /\ at \in PickPlaces \ {"submit"} => pick # 0
  /\ at = "submit" => pick \notin InTasks
  /\ at \in {"put", "putEos"} => Len(pad) < PadSize
  /\ \A i \in DOMAIN pad : pad[i] = 0 =>
       i = Len(pad) /\ (~Writes => at \in {"gone", "crashed"}) /\ (Writes => peer = "left")

\* While the raw file lasts, what is queued was loaded in order.
Loaded == ele.frames - rest
FramesInOrder ==
  ele.kind = "yuv" /\ rest > 0 =>
    /\ \A i \in DOMAIN pad : pad[i] # 0 => content[pad[i]] <= Loaded
    /\ \A i, j \in DOMAIN pad : i < j /\ pad[j] # 0 => content[pad[i]] < content[pad[j]]
    /\ at \in {"push", "put"} \/ (at = "sync" /\ result = "done") =>
         /\ content[pick] = Loaded
         /\ \A i \in DOMAIN pad : content[pad[i]] < Loaded

\* A text that can be converted is there while a task needs it.
TextLasts ==
  /\ at = "crashed" => ele.kind = "string" /\ ele.black
  /\ ele.kind = "string" /\ ~ele.black /\ (work # << >> \/ at \in {"pick", "process", "sync", "push", "put"})
       => text

\* The frames of a writer: copied to its buffer or still to copy, and taken.
Copied == IF at = "clear" THEN Len(out) ELSE Len(out) + Len(bs) + Len(work)
Taken == Copied + One(at = "submit" /\ pick # 0)
InStream ==
  Writes /\ ele.stream /\ faults = 0 =>
    /\ \A i \in DOMAIN out : out[i] = i
    /\ Len(bs) + Len(work) <= 1
    /\ at \in {"init", "submit"} \/ (running /\ at \in {"get", "return"}) => work = << >> /\ bs = << >>
    /\ at = "sync" => /\ result = "waiting" => bs = << >>
                      /\ result # "waiting" => Len(bs) = 1 /\ result = "done"
    /\ at \in {"write", "clear"} => work = << >> /\ Len(bs) = 1
    /\ at = "clear" => written = Len(bs)
    /\ at # "clear" => /\ bs # << >> => bs[1] = Len(out) + 1
                       /\ work # << >> => content[tasks[work[1]]] = Len(out) + 1
    /\ running =>
         /\ \A i \in DOMAIN pad : IF pad[i] # 0 THEN content[pad[i]] = Taken + i
                                  ELSE sent = Taken + Len(pad) - 1
         /\ at = "submit" /\ pick # 0 => content[pick] = Copied + 1
         /\ peer = "running" => sent = Taken + Len(pad)
    /\ at = "submit" /\ pick = 0 => sent = Len(out) /\ pad = << >> /\ peer = "left"
    /\ closed => /\ ~running /\ sent = Len(out) /\ work = << >> /\ bs = << >> /\ at \in {"get", "gone"}

\* The invariant.
PInv == PTypes /\ Kept /\ Places /\ FramesInOrder /\ TextLasts /\ InStream

-----------------------------------------------------------------------------
(* Queues: what is in them, and that nothing but the mark 0 is in them twice. *)

\* Positions and elements of a queue.
LEMMA SeqIs ==
  ASSUME NEW S, NEW q \in Seq(S)
  PROVE  DOMAIN q = 1 .. Len(q) /\ Len(q) \in Nat /\ \A i \in DOMAIN q : q[i] \in S
BY LenProperties, ElementOfSeq

\* Append to a queue: what is in it, and nothing twice if it was not in it.
LEMMA PutIs ==
  ASSUME NEW S, NEW q \in Seq(S), NEW x \in S
  PROVE  /\ Append(q, x) \in Seq(S) /\ Len(Append(q, x)) = Len(q) + 1 /\ Len(q) \in Nat
         /\ DOMAIN Append(q, x) = 1 .. Len(q) + 1 /\ Append(q, x)[Len(q) + 1] = x
         /\ \A i \in 1 .. Len(q) : Append(q, x)[i] = q[i]
         /\ Append(q, x) # << >>
         /\ Within(Append(q, x)) = Within(q) \cup ({x} \ {0})
         /\ Apart(q) /\ x \notin Within(q) => Apart(Append(q, x))
<1> DEFINE n == Len(q)
           r == Append(q, x)
<1>1. /\ r \in Seq(S) /\ Len(r) = n + 1 /\ n \in Nat
      /\ \A k \in 1 .. n : r[k] = q[k]
      /\ r[n + 1] = x
  BY AppendProperties
<1>2. DOMAIN r = 1 .. n + 1 /\ DOMAIN q = 1 .. n
  BY <1>1, LenProperties
<1>3. 1 .. n + 1 = (1 .. n) \cup {n + 1} /\ n + 1 \notin 1 .. n
  BY <1>1
<1>4. r # << >>
  BY <1>1, EmptySeq
<1> HIDE DEF n, r
<1>5. Within(r) = Within(q) \cup ({x} \ {0})
  <2>1. {r[i] : i \in DOMAIN r} = {q[i] : i \in DOMAIN q} \cup {x}
    BY <1>1, <1>2, <1>3
  <2> QED BY <2>1 DEF Within
<1>6. ASSUME Apart(q), x \notin Within(q) PROVE Apart(r)
  <2>1. \A i \in 1 .. n : r[i] = x => x = 0
    BY <1>1, <1>2, <1>6 DEF Within
  <2>2. SUFFICES ASSUME NEW i \in DOMAIN r, NEW j \in DOMAIN r, r[i] = r[j], r[i] # 0
                 PROVE  i = j
    BY DEF Apart
  <2>3. CASE i \in 1 .. n /\ j \in 1 .. n
    BY <1>1, <1>2, <1>6, <2>2, <2>3 DEF Apart
  <2>4. CASE i = n + 1 \/ j = n + 1
    BY <1>1, <1>2, <1>3, <2>1, <2>2, <2>4
  <2> QED BY <1>2, <1>3, <2>3, <2>4
<1> QED BY <1>1, <1>2, <1>4, <1>5, <1>6 DEF n, r

\* Tail of a queue: the head is no longer in it.
LEMMA TakeIs ==
  ASSUME NEW S, NEW q \in Seq(S), q # << >>
  PROVE  /\ Head(q) \in S /\ Head(q) = q[1] /\ Tail(q) \in Seq(S)
         /\ Len(Tail(q)) = Len(q) - 1 /\ Len(q) \in Nat \ {0}
         /\ DOMAIN Tail(q) = 1 .. Len(q) - 1 /\ \A k \in 1 .. Len(q) - 1 : Tail(q)[k] = q[k + 1]
         /\ Within(q) = Within(Tail(q)) \cup ({Head(q)} \ {0})
         /\ Apart(q) => Apart(Tail(q)) /\ Head(q) \notin Within(Tail(q))
<1> DEFINE n == Len(q)
           t == Tail(q)
<1>1. /\ n \in Nat \ {0} /\ Head(q) \in S /\ Head(q) = q[1]
      /\ t \in Seq(S) /\ Len(t) = n - 1
      /\ \A k \in 1 .. n - 1 : t[k] = q[k + 1]
  BY HeadTailProperties, EmptySeq
<1>2. DOMAIN t = 1 .. n - 1 /\ DOMAIN q = 1 .. n
  BY <1>1, LenProperties
<1> HIDE DEF n, t
<1>3. ASSUME NEW k \in DOMAIN t PROVE k + 1 \in DOMAIN q /\ k + 1 # 1 /\ q[k + 1] = t[k]
  BY <1>1, <1>2
<1>4. ASSUME NEW j \in DOMAIN q PROVE j = 1 \/ \E k \in DOMAIN t : q[j] = t[k]
  <2>1. CASE j # 1
    <3>1. j - 1 \in DOMAIN t /\ (j - 1) + 1 = j
      BY <1>1, <1>2, <2>1
    <3>2. q[(j - 1) + 1] = t[j - 1]
      BY <1>3, <3>1
    <3> QED BY <3>1, <3>2
  <2> QED BY <2>1
<1>5. 1 \in DOMAIN q
  BY <1>1, <1>2
<1>6. {q[i] : i \in DOMAIN q} = {t[i] : i \in DOMAIN t} \cup {Head(q)}
  <2>1. {t[i] : i \in DOMAIN t} \cup {Head(q)} \subseteq {q[i] : i \in DOMAIN q}
    BY <1>1, <1>3, <1>5
  <2>2. {q[i] : i \in DOMAIN q} \subseteq {t[i] : i \in DOMAIN t} \cup {Head(q)}
    BY <1>1, <1>4
  <2> QED BY <2>1, <2>2
<1>7. ASSUME Apart(q) PROVE Apart(t) /\ Head(q) \notin Within(t)
  <2>1. ASSUME NEW i \in DOMAIN t, NEW j \in DOMAIN t, t[i] = t[j], t[i] # 0
        PROVE  i = j
    <3>1. q[i + 1] = q[j + 1] /\ q[i + 1] # 0
      BY <1>3, <2>1
    <3>2. i + 1 = j + 1
      BY <1>3, <1>7, <3>1 DEF Apart
    <3> QED BY <1>1, <1>2, <3>2
  <2>2. ASSUME NEW i \in DOMAIN t, t[i] = Head(q), t[i] # 0 PROVE FALSE
    <3>1. q[i + 1] = q[1] /\ q[i + 1] # 0 /\ i + 1 # 1
      BY <1>1, <1>3, <2>2
    <3> QED BY <1>3, <1>5, <1>7, <3>1 DEF Apart
  <2> QED BY <2>1, <2>2 DEF Within, Apart
<1> QED BY <1>1, <1>2, <1>6, <1>7 DEF Within, n, t

\* Nothing is in an empty queue.
LEMMA EmptyIs == Within(<< >>) = {} /\ Apart(<< >>) /\ Len(<< >>) = 0
<1>1. DOMAIN << >> = {} /\ Len(<< >>) = 0
  BY EmptySeq
<1> QED BY <1>1 DEF Within, Apart

\* How often something is in such a queue.
LEMMA TimesIn ==
  ASSUME NEW q, Apart(q), NEW s, s # 0
  PROVE  Cardinality({i \in DOMAIN q : q[i] = s}) = One(s \in Within(q))
<1> DEFINE H == {i \in DOMAIN q : q[i] = s}
<1>1. CASE s \in Within(q)
  <2>1. PICK i \in DOMAIN q : q[i] = s
    BY <1>1 DEF Within
  <2>2. H = {i}
    BY <2>1 DEF Apart
  <2>3. Cardinality(H) = 1
    <3> HIDE DEF H
    <3> QED BY <2>2, FS_Singleton
  <2> QED BY <1>1, <2>3 DEF One
<1>2. CASE s \notin Within(q)
  <2>1. H = {}
    BY <1>2 DEF Within
  <2>2. Cardinality(H) = 0
    <3> HIDE DEF H
    <3> QED BY <2>1, FS_EmptySet
  <2> QED BY <1>2, <2>2 DEF One
<1> QED BY <1>1, <1>2

-----------------------------------------------------------------------------
(* The tasks of a plugin. *)

\* The two tasks, and that those with a surface are the ones submitted.
LEMMA TasksAre ==
  ASSUME PTypes, Kept
  PROVE  /\ DOMAIN tasks = Tasks /\ Tasks = {1, 2} /\ InTasks \subseteq Surfaces
         /\ Within(tasks) = InTasks /\ MaxSurfaces \in Nat \ {0}
         /\ DOMAIN work = 1 .. Len(work) /\ Len(work) \in Nat /\ Within(work) \subseteq Tasks
         /\ \A t \in Tasks : tasks[t] \in 0 .. MaxSurfaces
         /\ \A i \in DOMAIN work : work[i] \in Tasks /\ tasks[work[i]] \in InTasks
         /\ work = << >> => InTasks = {}
<1>1. /\ DOMAIN tasks = Tasks /\ Tasks = {1, 2} /\ MaxSurfaces \in Nat \ {0}
      /\ \A t \in Tasks : tasks[t] \in 0 .. MaxSurfaces
  BY OverlayBounds DEF PTypes, Tasks
<1>2. InTasks \subseteq Surfaces /\ Within(tasks) = InTasks
  BY <1>1 DEF InTasks, Within, Surfaces
<1>3. DOMAIN work = 1 .. Len(work) /\ Len(work) \in Nat /\ \A i \in DOMAIN work : work[i] \in Tasks
  BY SeqIs DEF PTypes
<1>4. Within(work) \subseteq Tasks /\ \A i \in DOMAIN work : work[i] \in Within(work)
  BY <1>1, <1>3 DEF Within
<1>5. \A i \in DOMAIN work : tasks[work[i]] \in InTasks
  BY <1>1, <1>3, <1>4 DEF Kept, Busy, None, InTasks
<1>6. work = << >> => InTasks = {}
  BY EmptyIs DEF Kept, Busy, None, InTasks
<1> QED BY <1>1, <1>2, <1>3, <1>4, <1>5, <1>6

\* A task is taken that is not busy.
LEMMA SubmitIs ==
  ASSUME PTypes, Kept, ~AllBusy, NEW s \in Surfaces, s \notin InTasks, Submit(s)
  PROVE  /\ tasks' \in [Tasks -> 0 .. MaxSurfaces] /\ work' \in Seq(Tasks)
         /\ InTasks' = InTasks \cup {s} /\ Apart(tasks') /\ Apart(work')
         /\ \A t \in Tasks : Busy(t)' <=> t \in Within(work')
         /\ work' # << >> /\ Len(work') = Len(work) + 1 /\ tasks'[work'[Len(work')]] = s
         /\ \A i \in 1 .. Len(work) : work'[i] = work[i] /\ tasks'[work'[i]] = tasks[work[i]]
         /\ locked' = [locked EXCEPT ![s] = @ + IF Writes THEN 1 ELSE 2]
         /\ result' = "waiting" /\ content' = content
<1> DEFINE t == CHOOSE t \in Tasks : ~Busy(t) /\ \A u \in 1 .. t - 1 : Busy(u)
<1>1. /\ tasks' = [tasks EXCEPT ![t] = s] /\ work' = Append(work, t)
      /\ locked' = [locked EXCEPT ![s] = @ + IF Writes THEN 1 ELSE 2]
      /\ result' = "waiting" /\ content' = content
  BY DEF Submit
<1>2. \E x \in Tasks : ~Busy(x) /\ \A u \in 1 .. x - 1 : Busy(u)
  <2>1. Tasks = {1, 2} /\ 1 .. 0 = {} /\ 1 .. 1 = {1}
    BY DEF Tasks
  <2>2. CASE ~Busy(1)
    BY <2>1, <2>2
  <2>3. CASE Busy(1)
    BY <2>1, <2>3 DEF AllBusy
  <2> QED BY <2>2, <2>3
<1>3. t \in Tasks /\ ~Busy(t)
  BY <1>2
<1> HIDE DEF t
<1>4. /\ DOMAIN tasks = Tasks /\ Tasks = {1, 2} /\ DOMAIN work = 1 .. Len(work) /\ s # 0
      /\ \A i \in DOMAIN work : work[i] \in Tasks
      /\ work \in Seq(Tasks) /\ s \in 0 .. MaxSurfaces /\ tasks \in [Tasks -> 0 .. MaxSurfaces]
  BY TasksAre DEF PTypes, Surfaces
<1>5. t \notin Within(work) /\ t # 0 /\ tasks[t] = 0
  BY <1>3, <1>4 DEF Kept, Busy, None
<1>6. /\ work' \in Seq(Tasks) /\ Len(work') = Len(work) + 1 /\ work' # << >>
      /\ work'[Len(work) + 1] = t /\ \A i \in 1 .. Len(work) : work'[i] = work[i]
      /\ Within(work') = Within(work) \cup {t} /\ Apart(work')
  BY <1>1, <1>3, <1>4, <1>5, PutIs DEF Kept
<1>7. /\ tasks' \in [Tasks -> 0 .. MaxSurfaces] /\ tasks'[t] = s
      /\ \A u \in Tasks : u # t => tasks'[u] = tasks[u]
  BY <1>1, <1>3, <1>4
<1>8. InTasks' = InTasks \cup {s}
  BY <1>3, <1>4, <1>5, <1>7 DEF InTasks
<1>9. Apart(tasks')
  <2>1. \A u \in Tasks : tasks[u] # s
    BY <1>4 DEF InTasks
  <2> QED BY <1>3, <1>4, <1>7, <2>1 DEF Apart, Kept
<1>10. \A u \in Tasks : Busy(u)' <=> u \in Within(work')
  BY <1>4, <1>6, <1>7 DEF Kept, Busy, None
<1>11. \A i \in 1 .. Len(work) : tasks'[work'[i]] = tasks[work[i]]
  <2>1. \A i \in 1 .. Len(work) : work[i] \in Tasks /\ work[i] # t
    BY <1>4, <1>5 DEF Within
  <2> QED BY <1>6, <1>7, <2>1
<1> QED BY <1>1, <1>6, <1>7, <1>8, <1>9, <1>10, <1>11

\* The oldest task is over.
LEMMA FreeIs ==
  ASSUME PTypes, Kept, work # << >>, FreeResources(Head(work))
  PROVE  LET s == tasks[Head(work)]
         IN  /\ tasks' \in [Tasks -> 0 .. MaxSurfaces] /\ work' \in Seq(Tasks)
             /\ s \in InTasks /\ s \in Surfaces /\ InTasks' = InTasks \ {s}
             /\ Apart(tasks') /\ Apart(work')
             /\ \A t \in Tasks : Busy(t)' <=> t \in Within(work')
             /\ Len(work') = Len(work) - 1 /\ Len(work) \in Nat \ {0}
             /\ Head(work) = work[1] /\ (Len(work) = 1 => work' = << >>)
             /\ \A i \in 1 .. Len(work) - 1 :
                  work'[i] = work[i + 1] /\ tasks'[work'[i]] = tasks[work[i + 1]]
             /\ locked' = [locked EXCEPT ![s] = @ - 1]
<1> DEFINE t == Head(work)
           s == tasks[t]
<1>1. /\ tasks' = [tasks EXCEPT ![t] = 0] /\ work' = Tail(work)
      /\ locked' = [locked EXCEPT ![s] = @ - 1]
  BY DEF FreeResources, None
<1>2. /\ DOMAIN tasks = Tasks /\ Tasks = {1, 2} /\ DOMAIN work = 1 .. Len(work)
      /\ work \in Seq(Tasks) /\ tasks \in [Tasks -> 0 .. MaxSurfaces] /\ InTasks \subseteq Surfaces
      /\ \A i \in DOMAIN work : work[i] \in Tasks /\ tasks[work[i]] \in InTasks
      /\ 0 \in 0 .. MaxSurfaces
  BY TasksAre DEF PTypes
<1>3. /\ t \in Tasks /\ t = work[1] /\ work' \in Seq(Tasks)
      /\ Len(work') = Len(work) - 1 /\ Len(work) \in Nat \ {0}
      /\ \A k \in 1 .. Len(work) - 1 : work'[k] = work[k + 1]
      /\ Within(work) = Within(work') \cup {t} /\ Apart(work') /\ t \notin Within(work')
  BY <1>1, <1>2, TakeIs DEF Kept
<1> HIDE DEF t
<1>4. /\ tasks' \in [Tasks -> 0 .. MaxSurfaces] /\ tasks'[t] = 0
      /\ \A u \in Tasks : u # t => tasks'[u] = tasks[u]
  BY <1>1, <1>2, <1>3
<1>5. s \in InTasks /\ s \in Surfaces /\ s # 0
  BY <1>2, <1>3 DEF InTasks
<1>6. \A u \in Tasks : u # t => tasks[u] # s
  BY <1>2, <1>3, <1>5 DEF Kept, Apart
<1>7. InTasks' = InTasks \ {s}
  BY <1>2, <1>3, <1>4, <1>5, <1>6 DEF InTasks
<1>8. Apart(tasks')
  BY <1>2, <1>3, <1>4 DEF Apart, Kept
<1>9. \A u \in Tasks : Busy(u)' <=> u \in Within(work')
  BY <1>2, <1>3, <1>4 DEF Kept, Busy, None
<1>10. \A i \in 1 .. Len(work) - 1 : tasks'[work'[i]] = tasks[work[i + 1]]
  <2>1. ASSUME NEW i \in 1 .. Len(work) - 1 PROVE work[i + 1] \in Tasks /\ work[i + 1] # t
    <3>1. i + 1 \in DOMAIN work /\ 1 \in DOMAIN work /\ i + 1 # 1
      BY <1>2, <1>3
    <3>2. work[i + 1] # work[1]
      BY <1>2, <3>1 DEF Kept, Apart
    <3> QED BY <1>2, <1>3, <3>1, <3>2
  <2> QED BY <1>3, <1>4, <2>1
<1>11. Len(work) = 1 => work' = << >>
  BY <1>3, EmptySeq
<1> QED BY <1>1, <1>3, <1>4, <1>5, <1>7, <1>8, <1>9, <1>10, <1>11 DEF t

-----------------------------------------------------------------------------
(* What each step does to the elements without a codec. *)

\* A reader writes no stream, and a writer reads no file and no text.
LEMMA OnesOwn ==
  ASSUME PTypes'
  PROVE  /\ ~Writes' => InStream'
         /\ Writes' => FramesInOrder' /\ TextLasts'
<1>1. Writes' => at' # "crashed" /\ at' \notin {"pick", "process", "push", "put"}
  BY DEF PTypes, WriterPlaces
<1> QED BY <1>1 DEF InStream, FramesInOrder, TextLasts, Writes

\* A step that moves no surface, or ends the thread, keeps the locks right.
LEMMA KeptStays ==
  ASSUME Kept, UNCHANGED <<tasks, work, pad, held, locked>>, Hand' = Hand \/ Hand' = {},
         at' # "crashed" => at # "crashed" /\ Hand' = Hand
  PROVE  Kept'
<1>1. InTasks' = InTasks /\ \A t \in Tasks : Busy(t)' = Busy(t)
  BY DEF InTasks, Busy
<1>2. /\ Apart(work)' /\ Apart(pad)' /\ Apart(tasks)' /\ Within(pad)' = Within(pad)
      /\ \A t \in Tasks : Busy(t)' <=> (t \in Within(work))'
  BY <1>1 DEF Kept, Apart, Within
<1>3. at' # "crashed" =>
        \A s \in Surfaces : locked'[s] = One(s \in InTasks') + One(s \in Within(pad') \cup held' \cup Hand')
  BY <1>1, <1>2 DEF Kept, One
<1> QED BY <1>1, <1>2, <1>3 DEF Kept

\* The lock of a surface that nobody holds is 0, of another it is not.
LEMMA LocksAre ==
  ASSUME PTypes, Kept, at # "crashed"
  PROVE  \A s \in Surfaces :
           /\ locked[s] = 0 <=> s \notin InTasks \cup Within(pad) \cup held \cup Hand
           /\ locked[s] \in 0 .. 2
BY DEF PTypes, Kept, One

\* The session runs a task of a plugin.
LEMMA ExecuteKeeps == ASSUME PInv, Execute PROVE PInv'
<1> DEFINE s == tasks[Head(work)]
<1>1. /\ work # << >> /\ at # "crashed"
      /\ UNCHANGED <<ele, running, pick, pad, peer, faults, eos, held, out, closed, written, sent>>
  BY DEF Execute
<1>2. CASE ele.kind = "string" /\ ~text
  <2>1. /\ at' = "crashed" /\ UNCHANGED <<text, content, locked, tasks, work, result, rest, bs>>
    BY <1>2 DEF Execute, ExecuteString, Writes, taskVars
  <2>2. ~Writes /\ Writes' = Writes /\ PickPlaces' = PickPlaces
    BY <1>1, <1>2 DEF Writes, PickPlaces
  <2>3. PTypes'
    BY <1>1, <2>1, <2>2 DEF PInv, PTypes, ReaderPlaces
  <2>4. Hand' = {}
    BY <2>1, <2>2 DEF Hand, PickPlaces
  <2>5. Kept'
    BY <1>1, <2>1, <2>4, KeptStays DEF PInv
  <2>6. Places'
    BY <1>1, <2>1, <2>2 DEF PInv, Places, PickPlaces
  <2>7. FramesInOrder'
    BY <1>1, <1>2 DEF FramesInOrder
  <2>8. TextLasts'
    BY <1>1, <1>2, <2>1 DEF PInv, TextLasts
  <2> QED BY <2>2, <2>3, <2>5, <2>6, <2>7, <2>8, OnesOwn DEF PInv
<1>3. CASE ele.kind # "string" \/ text
  <2>1. /\ UNCHANGED at /\ FreeResources(Head(work))
        /\ \/ Writes /\ UNCHANGED <<content, text, rest>> /\ bs' = Append(bs, content[s]) /\ Completed(Head(work), "done")
           \/ ele.kind = "yuv" /\ LoadNextFrame(Head(work)) /\ UNCHANGED <<bs, text>>
           \/ /\ ele.kind \in {"string", "picture"} /\ UNCHANGED <<bs, rest, content>>
              /\ (ele.kind = "string" => text' = Converts) /\ (ele.kind = "picture" => text' = text)
              /\ Completed(Head(work), IF Converts THEN "done" ELSE "failed")
    BY <1>3 DEF Execute, ExecuteString, ExecutePicture, LoadNextFrame, GetInputYUV
  <2>2. PTypes /\ Kept /\ Places
    BY DEF PInv
  <2>3. /\ tasks' \in [Tasks -> 0 .. MaxSurfaces] /\ work' \in Seq(Tasks)
        /\ s \in InTasks /\ s \in Surfaces /\ InTasks' = InTasks \ {s}
        /\ Apart(tasks') /\ Apart(work')
        /\ \A t \in Tasks : Busy(t)' <=> t \in Within(work')
        /\ Len(work') = Len(work) - 1 /\ Len(work) \in Nat \ {0}
        /\ Head(work) = work[1] /\ (Len(work) = 1 => work' = << >>)
        /\ \A i \in 1 .. Len(work) - 1 :
             work'[i] = work[i + 1] /\ tasks'[work'[i]] = tasks[work[i + 1]]
        /\ locked' = [locked EXCEPT ![s] = @ - 1]
    BY <1>1, <2>1, <2>2, FreeIs
  <2>4. /\ result' = result \/ (Len(work) = 1 /\ result = "waiting" /\ result' \in {"done", "failed"})
        /\ Len(work) = 1 /\ result = "waiting" => result' # "waiting"
        /\ ele.kind \notin {"string", "picture"} => result' # "failed" \/ result' = result
    BY <2>1 DEF Completed, LoadNextFrame, Writes
  <2> HIDE DEF s
  <2>5. /\ locked \in [Surfaces -> 0 .. 2] /\ DOMAIN locked = Surfaces
        /\ \A u \in Surfaces : locked[u] \in 0 .. 2
        /\ locked[s] \in 1 .. 2
    <3>1. locked \in [Surfaces -> 0 .. 2]
      BY <2>2 DEF PTypes
    <3>2. locked[s] # 0
      BY <1>1, <2>2, <2>3, LocksAre
    <3>3. locked[s] \in 0 .. 2
      BY <2>3, <3>1
    <3> QED BY <3>1, <3>2, <3>3
  <2>5a. Writes => /\ UNCHANGED <<content, text, rest>> /\ bs' = Append(bs, content[s])
                  /\ Completed(Head(work), "done")
                  /\ bs \in Seq(1 .. MaxFrames) /\ content[s] \in 1 .. MaxFrames
    <3>1. Writes => /\ UNCHANGED <<content, text, rest>> /\ bs' = Append(bs, content[s])
                    /\ Completed(Head(work), "done")
      BY <2>1 DEF Writes
    <3>2. Writes => content[s] \in 1 .. MaxFrames
      <4>1. locked[s] # 0 /\ s \in Surfaces
        BY <2>3, <2>5
      <4> QED BY <2>2, <4>1 DEF PTypes
    <3>3. bs \in Seq(1 .. MaxFrames)
      BY <2>2 DEF PTypes
    <3> QED BY <3>1, <3>2, <3>3
  <2>6. /\ locked' \in [Surfaces -> 0 .. 2] /\ locked'[s] = locked[s] - 1
        /\ \A u \in Surfaces : u # s => locked'[u] = locked[u]
    <3>1. locked' = [locked EXCEPT ![s] = locked[s] - 1] /\ s \in Surfaces
      BY <2>3
    <3>2. locked[s] - 1 \in 0 .. 2
      BY <2>5
    <3> QED BY <2>5, <3>1, <3>2
  <2>7. Hand' = Hand /\ Writes' = Writes /\ PickPlaces' = PickPlaces
    BY <1>1, <2>1 DEF Hand, PickPlaces, Writes
  <2>8. Kept'
    <3>1. /\ Apart(pad)' /\ Within(pad)' = Within(pad)
      BY <1>1, <2>2 DEF Kept, Apart, Within
    <3>2. /\ Within(pad') \cap held' = {} /\ Within(pad') \cap Hand' = {} /\ held' \cap Hand' = {}
          /\ InTasks' \cap Within(pad') = {} /\ InTasks' \cap held' = {}
      BY <1>1, <2>2, <2>3, <2>7, <3>1 DEF Kept
    <3>3. \A u \in Surfaces : locked'[u] = One(u \in InTasks') + One(u \in Within(pad') \cup held' \cup Hand')
      BY <1>1, <2>2, <2>3, <2>5, <2>6, <2>7, <3>1 DEF Kept, One
    <3> QED BY <2>3, <3>1, <3>2, <3>3 DEF Kept
  <2>9. Places'
    <3> DEFINE n == Len(work)
    <3>1. at = "sync" => result = "waiting" /\ tasks[work[n]] = pick
      BY <1>1, <2>2 DEF Places, PTypes
    <3>2. at = "sync" /\ n = 1 => work' = << >> /\ result' \in {"done", "failed"}
      BY <2>3, <2>4, <3>1
    <3>3. at = "sync" /\ n # 1 => result' = "waiting" /\ work' # << >> /\ tasks'[work'[Len(work')]] = pick
      <4>1. ASSUME n # 1 PROVE n - 1 \in 1 .. n - 1 /\ (n - 1) + 1 = n /\ Len(work') = n - 1 /\ work' # << >>
        BY <2>3, <4>1, EmptyIs
      <4> QED BY <2>3, <2>4, <3>1, <4>1
    <3>4. at \notin {"init", "push", "put"}
      BY <1>1, <2>2 DEF Places
    <3>5. faults = 0 => Len(work') <= 1 /\ (at \in {"sync", "crashed"} \/ (Writes /\ ~running))
      BY <1>1, <2>2, <2>3 DEF Places
    <3>6. at = "process" => locked'[pick] = 0
      <4>1. at = "process" => pick \in Surfaces /\ pick # s
        BY <2>2, <2>5 DEF Places, PTypes, Surfaces
      <4> QED BY <2>2, <2>6, <4>1 DEF Places
    <3>7. at = "submit" => pick \notin InTasks'
      BY <2>2, <2>3 DEF Places
    <3> HIDE DEF n
    <3> QED BY <1>1, <2>1, <2>2, <2>7, <3>2, <3>3, <3>4, <3>5, <3>6, <3>7 DEF Places
  <2>10. PTypes'
    <3>1. /\ content' \in [Surfaces -> Nat] /\ rest' \in Nat /\ (ele.kind = "yuv" => rest' <= ele.frames)
      <4>1. CASE ele.kind = "yuv"
        <5>1. /\ content' = [content EXCEPT ![s] = IF rest > 0 THEN ele.frames - rest + 1 ELSE @]
              /\ rest' = IF rest > 0 THEN rest - 1 ELSE 0
          BY <2>1, <4>1 DEF LoadNextFrame, Writes, s
        <5>2. ele.frames \in Nat /\ rest \in Nat /\ rest <= ele.frames /\ content \in [Surfaces -> Nat]
          BY <2>2, <4>1, OverlayShapes DEF PTypes
        <5>3. IF rest > 0 THEN ele.frames - rest + 1 \in Nat ELSE content[s] \in Nat
          BY <2>3, <5>2
        <5> QED BY <2>3, <5>1, <5>2, <5>3
      <4>2. CASE ele.kind # "yuv"
        BY <2>1, <2>2, <4>2 DEF PTypes
      <4> QED BY <4>1, <4>2
    <3>2. bs' \in Seq(1 .. MaxFrames)
      <4>1. CASE Writes
        <5> DEFINE F == 1 .. MaxFrames
        <5>1. content[s] \in F /\ bs' = Append(bs, content[s]) /\ bs \in Seq(F)
          BY <2>5a, <4>1
        <5> HIDE DEF F
        <5>2. bs' \in Seq(F)
          BY <5>1, AppendProperties
        <5> QED BY <5>2 DEF F
      <4>2. CASE ~Writes
        BY <2>1, <2>2, <4>2 DEF PTypes, Writes
      <4> QED BY <4>1, <4>2
    <3>3. Writes' => \A u \in Surfaces : locked'[u] # 0 => content'[u] \in 1 .. MaxFrames
      <4>1. ASSUME Writes PROVE content' = content
        BY <2>1, <4>1 DEF Writes
      <4>2. \A u \in Surfaces : locked'[u] # 0 => locked[u] # 0
        BY <2>5, <2>6
      <4> QED BY <2>2, <2>7, <4>1, <4>2 DEF PTypes
    <3>4. text' \in BOOLEAN
      <4>1. CASE ele.kind = "string"
        BY <2>1, <4>1 DEF Converts, Writes
      <4>2. CASE ele.kind # "string"
        BY <2>1, <2>2, <4>2 DEF PTypes
      <4> QED BY <4>1, <4>2
    <3>5. result' \in {"none", "waiting", "done", "failed"}
      BY <2>2, <2>4 DEF PTypes
    <3> QED BY <1>1, <2>1, <2>2, <2>3, <2>6, <2>7, <3>1, <3>2, <3>3, <3>4, <3>5 DEF PTypes
  <2>11. TextLasts'
    <3>1. ele.kind = "string" /\ ~ele.black => text'
      BY <2>1 DEF Converts, Writes
    <3> QED BY <1>1, <2>1, <3>1 DEF TextLasts
  <2>12. FramesInOrder'
    <3> SUFFICES ASSUME ele.kind = "yuv", rest' > 0 PROVE FramesInOrder'
      BY <1>1 DEF FramesInOrder
    <3>1. /\ content' = [content EXCEPT ![s] = IF rest > 0 THEN ele.frames - rest + 1 ELSE @]
          /\ rest' = IF rest > 0 THEN rest - 1 ELSE 0
      BY <2>1 DEF LoadNextFrame, Writes, s
    <3>2. ele.frames \in Nat /\ rest \in Nat /\ rest > 0 /\ content \in [Surfaces -> Nat] /\ ~Writes
      BY <2>2, <3>1, OverlayShapes DEF PTypes, Writes
    <3>3. Loaded' = Loaded + 1 /\ Loaded \in Int /\ content'[s] = Loaded'
      <4>1. rest' = rest - 1 /\ content'[s] = ele.frames - rest + 1 /\ ele' = ele
        BY <1>1, <2>3, <3>1, <3>2
      <4>2. Loaded' = ele.frames - (rest - 1)
        BY <4>1 DEF Loaded
      <4> QED BY <3>2, <4>1, <4>2 DEF Loaded
    <3>4. \A u \in Surfaces : u # s => content'[u] = content[u]
      BY <2>3, <3>1, <3>2
    <3>5. \A i \in DOMAIN pad : pad[i] = 0 \/ (pad[i] \in Surfaces /\ content'[pad[i]] = content[pad[i]])
      <4>1. \A i \in DOMAIN pad : pad[i] \in 0 .. MaxSurfaces /\ (pad[i] # 0 => pad[i] \in Within(pad))
        BY <2>2, SeqIs DEF PTypes, Within
      <4>2. MaxSurfaces \in Nat /\ \A u \in Within(pad) : u # s
        BY <2>2, <2>3, TasksAre DEF Kept
      <4> QED BY <3>4, <4>1, <4>2 DEF Surfaces
    <3>6. /\ \A i \in DOMAIN pad : pad[i] # 0 => content[pad[i]] <= Loaded
          /\ \A i, j \in DOMAIN pad : i < j /\ pad[j] # 0 => content[pad[i]] < content[pad[j]]
      BY <3>2 DEF PInv, FramesInOrder
    <3>7. \A i \in DOMAIN pad : pad[i] = 0 => i = Len(pad) /\ at = "gone"
      BY <1>1, <2>2, <3>2 DEF Places
    <3>8. \A i, j \in DOMAIN pad : i < j => pad[i] # 0
      <4>1. DOMAIN pad = 1 .. Len(pad) /\ Len(pad) \in Nat
        BY <2>2, SeqIs DEF PTypes
      <4> QED BY <3>7, <4>1
    <3>9. \A i \in DOMAIN pad : pad[i] # 0 => content'[pad[i]] < Loaded'
      BY <3>2, <3>3, <3>5, <3>6
    <3>10. \A i, j \in DOMAIN pad : i < j /\ pad[j] # 0 => content'[pad[i]] < content'[pad[j]]
      BY <3>5, <3>6, <3>8
    <3>11. at \in {"push", "put"} \/ (at = "sync" /\ result' = "done") => at = "sync" /\ pick = s
      <4>1. at \notin {"push", "put"}
        BY <1>1, <2>2 DEF Places
      <4>2. at = "sync" => result = "waiting" /\ tasks[work[Len(work)]] = pick
        BY <1>1, <2>2 DEF Places, PTypes
      <4>3. at = "sync" /\ result' = "done" => Len(work) = 1
        BY <2>4, <4>2
      <4> QED BY <2>3, <4>1, <4>2, <4>3 DEF s
    <3>12. \A i \in DOMAIN pad : at = "sync" => pad[i] # 0
      BY <3>7
    <3>13. pad' = pad /\ pick' = pick /\ at' = at /\ DOMAIN pad' = DOMAIN pad
      BY <1>1, <2>1
    <3>14. at' \in {"push", "put"} \/ (at' = "sync" /\ result' = "done") =>
             content'[pick'] = Loaded' /\ \A i \in DOMAIN pad' : content'[pad'[i]] < Loaded'
      BY <3>3, <3>9, <3>11, <3>12, <3>13
    <3>15. /\ \A i \in DOMAIN pad' : pad'[i] # 0 => content'[pad'[i]] <= Loaded'
           /\ \A i, j \in DOMAIN pad' : i < j /\ pad'[j] # 0 => content'[pad'[i]] < content'[pad'[j]]
      <4>1. \A i \in DOMAIN pad : pad[i] # 0 => content'[pad[i]] \in Int /\ Loaded' \in Int
        BY <2>2, <3>1, <3>2, <3>3, <3>5
      <4> QED BY <3>9, <3>10, <3>13, <4>1
    <3> QED BY <3>14, <3>15 DEF FramesInOrder
  <2>13. InStream'
    <3> SUFFICES ASSUME Writes, ele.stream, faults = 0 PROVE InStream'
      BY <1>1, <2>7 DEF InStream
    <3>1. /\ Len(work) = 1 /\ work' = << >> /\ Len(work') = 0 /\ (at = "sync" \/ ~running)
          /\ at \in WriterPlaces
      BY <1>1, <2>2, <2>3, EmptyIs DEF Places, PTypes
    <3>2. /\ bs' = Append(bs, content[s]) /\ content' = content /\ bs \in Seq(1 .. MaxFrames)
          /\ content[s] \in 1 .. MaxFrames
      BY <2>5a
    <3>3. /\ Len(bs) + Len(work) <= 1 /\ at \notin {"init", "submit", "write", "clear"} /\ ~closed
          /\ content[s] = Len(out) + 1 /\ \A i \in DOMAIN out : out[i] = i
      BY <1>1, <2>3 DEF PInv, InStream, s
    <3>4. /\ Len(bs') = Len(bs) + 1 /\ bs'[Len(bs) + 1] = content[s] /\ Len(bs) \in Nat /\ bs' # << >>
      BY <3>2, PutIs
    <3>5. Len(bs) = 0 /\ Len(bs') = 1 /\ bs'[1] = Len(out) + 1
      BY <3>1, <3>3, <3>4
    <3>6. Copied' = Copied /\ Taken' = Taken
      <4>1. Len(out) + Len(bs') + Len(work') = Len(out) + Len(bs) + Len(work)
        BY <3>1, <3>5
      <4> QED BY <1>1, <2>1, <4>1 DEF Copied, Taken, One
    <3>7. at = "sync" => result' = "done"
      <4>1. at = "sync" => result = "waiting"
        BY <1>1, <2>2 DEF Places, PTypes
      <4> QED BY <2>1, <2>4, <3>1, <4>1 DEF Writes
    <3>8. running => at = "sync"
      BY <3>1
    <3> QED BY <1>1, <2>1, <3>1, <3>2, <3>3, <3>4, <3>5, <3>6, <3>7 DEF PInv, InStream
  <2> QED BY <2>8, <2>9, <2>10, <2>11, <2>12, <2>13 DEF PInv
<1> QED BY <1>2, <1>3

\* What a reader's own steps leave alone, and what the facts of a reader say.
LEMMA ReaderIs ==
  ASSUME PInv, ~Writes, UNCHANGED <<ele, peer, writerVars>>
  PROVE  /\ ~Writes' /\ PickPlaces = {"sync", "push", "put"} /\ PickPlaces' = PickPlaces
         /\ at \in ReaderPlaces /\ InStream' /\ PTypes /\ Kept /\ Places
         /\ bs' = bs /\ out' = out /\ closed' = closed /\ written' = written /\ sent' = sent
<1>1. ~Writes' /\ PickPlaces = {"sync", "push", "put"} /\ PickPlaces' = PickPlaces
  BY DEF Writes, PickPlaces
<1>2. at \in ReaderPlaces /\ InStream' /\ PTypes /\ Kept /\ Places
  BY <1>1 DEF PInv, PTypes, InStream
<1> QED BY <1>1, <1>2 DEF writerVars

\* A holder but a task lets go of a surface.
LEMMA GivenBack ==
  ASSUME PTypes, Kept, at # "crashed", UNCHANGED <<tasks, work>>,
         NEW s \in Surfaces, s \in Within(pad) \cup held \cup Hand,
         locked' = [locked EXCEPT ![s] = @ - 1], Apart(pad'),
         Within(pad') \subseteq Within(pad), held' \subseteq held, Hand' \subseteq Hand,
         Within(pad') \cup held' \cup Hand' = (Within(pad) \cup held \cup Hand) \ {s}
  PROVE  /\ Kept' /\ locked' \in [Surfaces -> 0 .. 2]
         /\ locked[s] # 0 /\ locked'[s] = locked[s] - 1
         /\ \A u \in Surfaces : u # s => locked'[u] = locked[u]
<1>1. locked[s] \in 1 .. 2 /\ locked \in [Surfaces -> 0 .. 2]
  <2>1. locked[s] # 0 /\ locked[s] \in 0 .. 2
    BY LocksAre
  <2> QED BY <2>1 DEF PTypes
<1>2. locked[s] - 1 \in 0 .. 2
  BY <1>1
<1>3. /\ locked' \in [Surfaces -> 0 .. 2] /\ locked'[s] = locked[s] - 1
      /\ \A u \in Surfaces : u # s => locked'[u] = locked[u]
  BY <1>1, <1>2
<1>4. InTasks' = InTasks /\ \A t \in Tasks : Busy(t)' = Busy(t)
  BY DEF InTasks, Busy
<1>5. \A u \in Surfaces : locked'[u] = One(u \in InTasks') + One(u \in Within(pad') \cup held' \cup Hand')
  <2>1. \A u \in Surfaces : locked[u] = One(u \in InTasks) + One(u \in Within(pad) \cup held \cup Hand)
    BY DEF Kept
  <2>2. locked'[s] = One(s \in InTasks)
    BY <1>1, <1>3, <2>1 DEF One
  <2>3. s \notin Within(pad') \cup held' \cup Hand'
    OBVIOUS
  <2>4. ASSUME NEW u \in Surfaces, u # s
        PROVE  u \in Within(pad') \cup held' \cup Hand' <=> u \in Within(pad) \cup held \cup Hand
    BY <2>4
  <2> HIDE DEF Within, Hand
  <2> QED BY <1>3, <1>4, <2>1, <2>2, <2>3, <2>4 DEF One
<1>6. /\ Within(pad') \cap held' = {} /\ Within(pad') \cap Hand' = {} /\ held' \cap Hand' = {}
      /\ InTasks' \cap Within(pad') = {} /\ InTasks' \cap held' = {} /\ Apart(work') /\ Apart(tasks')
      /\ \A t \in Tasks : Busy(t)' <=> t \in Within(work')
  BY <1>4 DEF Kept
<1> QED BY <1>1, <1>3, <1>5, <1>6 DEF Kept

\* A surface goes from one holder to another.
LEMMA PassedOn ==
  ASSUME Kept, at # "crashed", UNCHANGED <<tasks, work, locked>>, Apart(pad'),
         Within(pad') \cap held' = {}, Within(pad') \cap Hand' = {}, held' \cap Hand' = {},
         InTasks \cap Within(pad') = {}, InTasks \cap held' = {},
         Within(pad') \cup held' \cup Hand' = Within(pad) \cup held \cup Hand
  PROVE  Kept'
<1>1. InTasks' = InTasks /\ \A t \in Tasks : Busy(t)' = Busy(t)
  BY DEF InTasks, Busy
<1>2. \A u \in Surfaces : locked'[u] = One(u \in InTasks') + One(u \in Within(pad') \cup held' \cup Hand')
  BY <1>1 DEF Kept
<1> QED BY <1>1, <1>2 DEF Kept

\* A reader opens its input or ends.
LEMMA InitDecoderKeeps == ASSUME PInv, InitDecoder PROVE PInv'
<1>1. /\ ~Writes /\ UNCHANGED <<ele, peer, writerVars>> /\ at = "init"
      /\ UNCHANGED <<running, pick, pad, faults, eos, rest, held, content, locked, tasks, work, result>>
      /\ at' \in {"end", "pick", "gone"} /\ text' \in BOOLEAN
      /\ at' = "pick" /\ ele.kind = "string" => text'
  BY DEF InitDecoder, ReaderStep, Goes, taskVars
<1>2. /\ ~Writes' /\ PickPlaces = {"sync", "push", "put"} /\ PickPlaces' = PickPlaces
      /\ InStream' /\ PTypes /\ Kept /\ Places /\ UNCHANGED <<bs, out, closed, written, sent>>
  BY <1>1, ReaderIs
<1>3. PTypes'
  BY <1>1, <1>2 DEF PTypes, ReaderPlaces
<1>4. Kept'
  <2>1. Hand = {} /\ Hand' = {}
    BY <1>1, <1>2 DEF Hand
  <2> QED BY <1>1, <1>2, <2>1, KeptStays
<1>5. Places'
  BY <1>1, <1>2 DEF Places
<1>6. FramesInOrder'
  BY <1>1, <1>2 DEF PInv, FramesInOrder, Loaded
<1>7. TextLasts'
  BY <1>1, <1>2 DEF Places, TextLasts
<1> QED BY <1>2, <1>3, <1>4, <1>5, <1>6, <1>7 DEF PInv

\* A reader picks a surface whose lock is 0.
LEMMA PickSurfaceKeeps == ASSUME PInv, PickSurface PROVE PInv'
<1>1. /\ ~Writes /\ UNCHANGED <<ele, peer, writerVars>> /\ at = "pick"
      /\ UNCHANGED <<running, pad, faults, eos, text, rest, held, content, locked, tasks, work, result>>
      /\ \/ at' = "end" /\ pick' = pick
         \/ at' = "process" /\ pick' \in Surfaces /\ locked[pick'] = 0
  BY DEF PickSurface, ReaderStep, Goes, taskVars, readerVars, Free
<1>2. /\ ~Writes' /\ PickPlaces = {"sync", "push", "put"} /\ PickPlaces' = PickPlaces
      /\ InStream' /\ PTypes /\ Kept /\ Places /\ UNCHANGED <<bs, out, closed, written, sent>>
  BY <1>1, ReaderIs
<1>3. PTypes'
  <2>1. pick' \in 0 .. MaxSurfaces /\ MaxSurfaces \in Nat
    BY <1>1, <1>2, OverlayBounds DEF PTypes, Surfaces
  <2> QED BY <1>1, <1>2, <2>1 DEF PTypes, ReaderPlaces
<1>4. Kept'
  <2>1. Hand = {} /\ Hand' = {}
    BY <1>1, <1>2 DEF Hand
  <2> QED BY <1>1, <1>2, <2>1, KeptStays
<1>5. Places'
  <2>1. at' = "process" => pick' # 0
    BY <1>1 DEF Surfaces
  <2> QED BY <1>1, <1>2, <2>1 DEF Places
<1>6. FramesInOrder'
  BY <1>1, <1>2 DEF PInv, FramesInOrder, Loaded
<1>7. TextLasts'
  BY <1>1, <1>2 DEF PInv, TextLasts
<1> QED BY <1>2, <1>3, <1>4, <1>5, <1>6, <1>7 DEF PInv

\* A reader submits a task for it, or picks again or ends.
LEMMA ProcessFrameKeeps == ASSUME PInv, ProcessFrame PROVE PInv'
<1>1. /\ ~Writes /\ UNCHANGED <<ele, peer, writerVars>> /\ at = "process"
      /\ UNCHANGED <<running, pick, pad, faults, eos, text, rest, held>>
      /\ \/ at' \in {"end", "pick"} /\ UNCHANGED <<content, locked, tasks, work, result>>
         \/ ~AllBusy /\ Submit(pick) /\ at' = "sync"
  BY DEF ProcessFrame, ReaderStep, Goes, taskVars, readerVars
<1>2. /\ ~Writes' /\ PickPlaces = {"sync", "push", "put"} /\ PickPlaces' = PickPlaces
      /\ InStream' /\ PTypes /\ Kept /\ Places /\ UNCHANGED <<bs, out, closed, written, sent>>
  BY <1>1, ReaderIs
<1>3. pick \in Surfaces /\ locked[pick] = 0 /\ MaxSurfaces \in Nat
  BY <1>1, <1>2, OverlayBounds DEF Places, PTypes, Surfaces
<1>4. TextLasts'
  BY <1>1, <1>2 DEF PInv, TextLasts
<1>5. CASE at' # "sync"
  <2>1. UNCHANGED <<content, locked, tasks, work, result>> /\ at' \in {"end", "pick"}
    BY <1>1, <1>5
  <2>2. PTypes'
    BY <1>1, <1>2, <2>1 DEF PTypes, ReaderPlaces
  <2>3. Kept'
    <3>1. Hand = {} /\ Hand' = {}
      BY <1>1, <1>2, <2>1 DEF Hand
    <3> QED BY <1>1, <1>2, <2>1, <3>1, KeptStays
  <2>4. Places'
    BY <1>1, <1>2, <2>1 DEF Places
  <2>5. FramesInOrder'
    BY <1>1, <1>2, <2>1 DEF PInv, FramesInOrder, Loaded
  <2> QED BY <1>2, <1>4, <2>2, <2>3, <2>4, <2>5 DEF PInv
<1>6. CASE at' = "sync"
  <2>1. pick \notin InTasks \cup Within(pad) \cup held \cup Hand /\ Submit(pick) /\ ~AllBusy
    BY <1>1, <1>2, <1>3, <1>6, LocksAre
  <2>2. /\ tasks' \in [Tasks -> 0 .. MaxSurfaces] /\ work' \in Seq(Tasks)
        /\ InTasks' = InTasks \cup {pick} /\ Apart(tasks') /\ Apart(work')
        /\ \A t \in Tasks : Busy(t)' <=> t \in Within(work')
        /\ work' # << >> /\ Len(work') = Len(work) + 1 /\ tasks'[work'[Len(work')]] = pick
        /\ locked' = [locked EXCEPT ![pick] = @ + 2]
        /\ result' = "waiting" /\ content' = content
    BY <1>1, <1>2, <1>3, <2>1, SubmitIs
  <2>3. /\ locked' \in [Surfaces -> 0 .. 2] /\ locked'[pick] = 2
        /\ \A u \in Surfaces : u # pick => locked'[u] = locked[u]
    BY <1>2, <1>3, <2>2 DEF PTypes
  <2>4. Hand = {} /\ Hand' = {pick}
    BY <1>1, <1>2, <1>3, <1>6 DEF Hand, Surfaces
  <2>5. PTypes'
    BY <1>1, <1>2, <1>6, <2>2, <2>3 DEF PTypes, ReaderPlaces
  <2>6. Kept'
    <3>1. Apart(pad)' /\ Within(pad)' = Within(pad)
      BY <1>1, <1>2 DEF Kept, Apart, Within
    <3>2. \A u \in Surfaces : locked'[u] = One(u \in InTasks') + One(u \in Within(pad') \cup held' \cup Hand')
      BY <1>1, <1>2, <1>3, <2>1, <2>2, <2>3, <2>4, <3>1 DEF Kept, One
    <3> QED BY <1>1, <1>2, <2>1, <2>2, <2>4, <3>1, <3>2 DEF Kept
  <2>7. Places'
    <3>1. faults = 0 => Len(work') <= 1
      BY <1>1, <1>2, <2>2, EmptyIs DEF Places
    <3> QED BY <1>1, <1>2, <1>3, <1>6, <2>2, <3>1 DEF Places, Surfaces
  <2>8. FramesInOrder'
    BY <1>1, <1>2, <1>6, <2>2 DEF PInv, FramesInOrder, Loaded
  <2> QED BY <1>2, <1>4, <2>5, <2>6, <2>7, <2>8 DEF PInv
<1> QED BY <1>5, <1>6

\* A reader has waited for the task, with success or without.
LEMMA SyncReaderKeeps == ASSUME PInv, SyncReader PROVE PInv'
<1>1. /\ ~Writes /\ UNCHANGED <<ele, peer, writerVars>> /\ at = "sync" /\ result' = "none"
      /\ UNCHANGED <<running, pick, pad, eos, text, rest, held, content, tasks, work>>
      /\ \/ result = "done" /\ at' = "push" /\ UNCHANGED <<locked, faults>>
         \/ /\ at' = "pick" /\ locked' = [locked EXCEPT ![pick] = @ - 1]
            /\ \/ result = "failed" /\ faults' = faults
               \/ result = "waiting" /\ faults < MaxFaults /\ faults' = faults + 1
  BY DEF SyncReader, ReaderStep, Goes, DropLock, readerVars
<1>2. /\ ~Writes' /\ PickPlaces = {"sync", "push", "put"} /\ PickPlaces' = PickPlaces
      /\ InStream' /\ PTypes /\ Kept /\ Places /\ UNCHANGED <<bs, out, closed, written, sent>>
  BY <1>1, ReaderIs
<1>3. pick \in Surfaces /\ Hand = {pick}
  <2>1. pick # 0 /\ pick \in 0 .. MaxSurfaces /\ MaxSurfaces \in Nat
    BY <1>1, <1>2, OverlayBounds DEF Places, PTypes
  <2> QED BY <1>1, <1>2, <2>1 DEF Surfaces, Hand
<1>4. TextLasts'
  BY <1>1, <1>2 DEF PInv, TextLasts
<1>5. CASE at' = "push"
  <2>1. result = "done" /\ UNCHANGED <<locked, faults>> /\ work = << >>
    BY <1>1, <1>2, <1>5 DEF Places
  <2>2. PTypes'
    BY <1>1, <1>2, <1>5, <2>1 DEF PTypes, ReaderPlaces
  <2>3. Kept'
    <3>1. Hand' = Hand
      BY <1>1, <1>2, <1>5 DEF Hand
    <3> QED BY <1>1, <1>2, <1>5, <2>1, <3>1, KeptStays
  <2>4. Places'
    BY <1>1, <1>2, <1>3, <1>5, <2>1 DEF Places, Surfaces
  <2>5. FramesInOrder'
    BY <1>1, <1>2, <1>5, <2>1 DEF PInv, FramesInOrder, Loaded
  <2> QED BY <1>2, <1>4, <2>2, <2>3, <2>4, <2>5 DEF PInv
<1>6. CASE at' # "push"
  <2>1. /\ at' = "pick" /\ locked' = [locked EXCEPT ![pick] = @ - 1]
        /\ faults' \in 0 .. MaxFaults /\ (work # << >> => faults' # 0)
    BY <1>1, <1>2, <1>6, OverlayBounds DEF Places, PTypes
  <2>2. Hand' = {} /\ Within(pad)' = Within(pad) /\ Apart(pad') /\ pick \notin Within(pad) \cup held
    BY <1>1, <1>2, <1>3, <2>1 DEF Hand, Within, Apart, Kept
  <2>3. Kept' /\ locked' \in [Surfaces -> 0 .. 2]
    BY <1>1, <1>2, <1>3, <2>1, <2>2, GivenBack
  <2>5. PTypes'
    BY <1>1, <1>2, <2>1, <2>3 DEF PTypes, ReaderPlaces
  <2>7. Places'
    <3>1. faults' = 0 => work' = << >>
      BY <1>1, <2>1
    <3> QED BY <1>1, <1>2, <2>1, <3>1, EmptyIs DEF Places
  <2>8. FramesInOrder'
    BY <1>1, <1>2, <2>1 DEF PInv, FramesInOrder, Loaded
  <2> QED BY <1>2, <1>4, <2>3, <2>5, <2>7, <2>8 DEF PInv
<1> QED BY <1>5, <1>6

\* A reader hands its surface, or the end, to the next element.
LEMMA PushToPeerKeeps == ASSUME PInv, PushToPeer PROVE PInv'
<1>1. /\ ~Writes /\ UNCHANGED <<ele, peer, writerVars>> /\ at \in {"push", "put", "pushEos", "putEos"}
      /\ UNCHANGED <<running, pick, faults, text, rest, held, content, tasks, work, result>>
      /\ \/ /\ at \in {"push", "pushEos"} /\ Len(pad) < PadSize
            /\ at' = IF at = "pushEos" THEN "putEos" ELSE "put"
            /\ UNCHANGED <<pad, locked, eos>>
         \/ /\ at = "pushEos" /\ at' = "gone" /\ UNCHANGED <<pad, locked>> /\ eos' = TRUE
         \/ /\ at = "push" /\ at' = "pick" /\ UNCHANGED <<pad, eos>>
            /\ locked' = [locked EXCEPT ![pick] = @ - 1]
         \/ at = "put" /\ at' = "pick" /\ pad' = Append(pad, pick) /\ UNCHANGED <<locked, eos>>
         \/ at = "putEos" /\ at' = "gone" /\ pad' = Append(pad, 0) /\ UNCHANGED <<locked, eos>>
  BY DEF PushToPeer, ReaderStep, Goes, DropLock, EOS
<1>2. /\ ~Writes' /\ PickPlaces = {"sync", "push", "put"} /\ PickPlaces' = PickPlaces
      /\ InStream' /\ PTypes /\ Kept /\ Places /\ UNCHANGED <<bs, out, closed, written, sent>>
  BY <1>1, ReaderIs
<1>3. /\ at \in {"push", "put"} => pick \in Surfaces /\ Hand = {pick} /\ work = << >>
      /\ at \in {"pushEos", "putEos"} => Hand = {}
  <2>1. at \in {"push", "put"} => pick # 0 /\ work = << >>
    BY <1>2 DEF Places
  <2>2. pick \in 0 .. MaxSurfaces /\ MaxSurfaces \in Nat
    BY <1>2, OverlayBounds DEF PTypes
  <2> QED BY <1>2, <2>1, <2>2 DEF Surfaces, Hand
<1>4. TextLasts'
  BY <1>1, <1>2 DEF PInv, TextLasts
<1>5. CASE UNCHANGED <<pad, locked>>
  <2>1. /\ at' \in ReaderPlaces \ {"push", "init", "sync", "process", "crashed"} /\ eos' \in BOOLEAN
        /\ at' = "put" => at = "push" /\ Len(pad) < PadSize
        /\ at' = "putEos" => Len(pad) < PadSize
        /\ at' \notin {"put", "putEos"} => at = "pushEos" /\ at' = "gone"
    <3>1. pad # Append(pad, pick) /\ pad # Append(pad, 0)
      <4>1. pick \in 0 .. MaxSurfaces /\ 0 \in 0 .. MaxSurfaces /\ pad \in Seq(0 .. MaxSurfaces)
        BY <1>2, OverlayBounds DEF PTypes
      <4> QED BY <4>1, PutIs
    <3>2. at = "push" => locked # [locked EXCEPT ![pick] = @ - 1]
      <4>1. ASSUME at = "push" PROVE locked[pick] \in 1 .. 2 /\ locked \in [Surfaces -> 0 .. 2]
        BY <1>2, <1>3, <4>1, LocksAre DEF PTypes
      <4> QED BY <1>3, <4>1
    <3> QED BY <1>1, <1>2, <1>5, <3>1, <3>2 DEF PTypes, ReaderPlaces
  <2>2. PTypes'
    BY <1>1, <1>2, <1>5, <2>1 DEF PTypes
  <2>3. Kept'
    <3>1. Hand' = Hand
      BY <1>1, <1>2, <2>1 DEF Hand
    <3> QED BY <1>1, <1>2, <1>5, <3>1, KeptStays
  <2>4. Places'
    BY <1>1, <1>2, <1>5, <2>1 DEF Places
  <2>5. FramesInOrder'
    BY <1>1, <1>2, <1>5, <2>1 DEF PInv, FramesInOrder, Loaded
  <2> QED BY <1>2, <1>4, <2>2, <2>3, <2>4, <2>5 DEF PInv
<1>6. CASE at = "push" /\ at' = "pick"
  <2>1. /\ locked' = [locked EXCEPT ![pick] = @ - 1] /\ pad' = pad /\ eos' = eos
    BY <1>1, <1>6
  <2>2. Hand' = {} /\ Within(pad)' = Within(pad) /\ Apart(pad') /\ pick \notin Within(pad) \cup held
    BY <1>1, <1>2, <1>3, <1>6, <2>1 DEF Hand, Within, Apart, Kept
  <2>3. Kept' /\ locked' \in [Surfaces -> 0 .. 2]
    BY <1>1, <1>2, <1>3, <1>6, <2>1, <2>2, GivenBack
  <2>4. PTypes'
    BY <1>1, <1>2, <1>6, <2>1, <2>3 DEF PTypes, ReaderPlaces
  <2>5. Places'
    BY <1>1, <1>2, <1>3, <1>6, <2>1, EmptyIs DEF Places
  <2>6. FramesInOrder'
    BY <1>1, <1>2, <1>6, <2>1 DEF PInv, FramesInOrder, Loaded
  <2> QED BY <1>2, <1>4, <2>3, <2>4, <2>5, <2>6 DEF PInv
<1>7. CASE at \in {"put", "putEos"}
  <2> DEFINE x == IF at = "put" THEN pick ELSE 0
  <2>1. /\ pad' = Append(pad, x) /\ UNCHANGED <<locked, eos>>
        /\ at' = IF at = "put" THEN "pick" ELSE "gone"
    BY <1>1, <1>7
  <2>2. x \in 0 .. MaxSurfaces /\ pad \in Seq(0 .. MaxSurfaces) /\ x \notin Within(pad)
    <3>1. pick \in 0 .. MaxSurfaces /\ 0 \in 0 .. MaxSurfaces /\ pad \in Seq(0 .. MaxSurfaces)
      BY <1>2, OverlayBounds DEF PTypes
    <3>2. at = "put" => pick \notin Within(pad)
      BY <1>2, <1>3 DEF Kept
    <3>3. 0 \notin Within(pad)
      BY DEF Within
    <3> QED BY <3>1, <3>2, <3>3
  <2> HIDE DEF x
  <2>3. /\ pad' \in Seq(0 .. MaxSurfaces) /\ Len(pad') = Len(pad) + 1 /\ Len(pad) \in Nat
        /\ DOMAIN pad' = 1 .. Len(pad) + 1 /\ DOMAIN pad = 1 .. Len(pad) /\ pad'[Len(pad) + 1] = x
        /\ \A i \in 1 .. Len(pad) : pad'[i] = pad[i]
        /\ Within(pad') = Within(pad) \cup ({x} \ {0}) /\ Apart(pad')
    <3>1. DOMAIN pad = 1 .. Len(pad) /\ Apart(pad)
      BY <1>2, <2>2, SeqIs DEF Kept
    <3> DEFINE S == 0 .. MaxSurfaces
    <3>2. pad \in Seq(S) /\ x \in S
      BY <2>2
    <3> HIDE DEF S
    <3>3. /\ pad' \in Seq(S) /\ Len(pad') = Len(pad) + 1 /\ Len(pad) \in Nat
          /\ DOMAIN pad' = 1 .. Len(pad) + 1 /\ pad'[Len(pad) + 1] = x
          /\ \A i \in 1 .. Len(pad) : pad'[i] = pad[i]
          /\ Within(pad') = Within(pad) \cup ({x} \ {0}) /\ Apart(pad')
      BY <2>1, <2>2, <3>1, <3>2, PutIs
    <3> QED BY <3>1, <3>3 DEF S
  <2>4. Hand' = {} /\ {x} \ {0} = Hand
    BY <1>2, <1>3, <1>7, <2>1 DEF Hand, Surfaces, x
  <2>5. at = "put" => x = pick /\ x # 0
    BY <1>3 DEF Surfaces, x
  <2>6. Kept'
    <3>1. at = "put" => InTasks = {}
      BY <1>2, <1>3, TasksAre
    <3>2. InTasks \cap Within(pad') = {}
      BY <1>2, <1>3, <1>7, <2>3, <2>4, <3>1 DEF Kept
    <3> QED BY <1>1, <1>2, <1>7, <2>1, <2>3, <2>4, <3>2, PassedOn DEF Kept
  <2>7. PTypes'
    <3>1. Len(pad') <= PadSize
      BY <1>2, <1>7, <2>3, OverlayBounds DEF Places
    <3> QED BY <1>1, <1>2, <2>1, <2>3, <3>1 DEF PTypes, ReaderPlaces
  <2>8. \A i \in DOMAIN pad : pad[i] # 0
    BY <1>1, <1>2, <1>7 DEF Places
  <2>9. Places'
    <3>1. \A i \in DOMAIN pad' : pad'[i] = 0 => i = Len(pad') /\ at' = "gone"
      BY <1>7, <2>1, <2>3, <2>5, <2>8
    <3>2. at' \in {"pick", "gone"} /\ (faults = 0 => work = << >>)
      BY <1>1, <1>2, <1>7, <2>1 DEF Places
    <3> QED BY <1>1, <1>2, <3>1, <3>2, EmptyIs DEF Places
  <2>10. FramesInOrder'
    <3> SUFFICES ASSUME ele.kind = "yuv", rest > 0
                 PROVE  /\ \A i \in DOMAIN pad' : pad'[i] # 0 => content[pad'[i]] <= Loaded
                        /\ \A i, j \in DOMAIN pad' : i < j /\ pad'[j] # 0 => content[pad'[i]] < content[pad'[j]]
      BY <1>1, <2>1 DEF FramesInOrder, Loaded
    <3>1. /\ \A i \in DOMAIN pad : pad[i] # 0 => content[pad[i]] <= Loaded
          /\ \A i, j \in DOMAIN pad : i < j /\ pad[j] # 0 => content[pad[i]] < content[pad[j]]
          /\ at = "put" => content[pick] = Loaded /\ \A i \in DOMAIN pad : content[pad[i]] < Loaded
      BY DEF PInv, FramesInOrder
    <3>2. Loaded \in Int
      BY <1>2, OverlayShapes DEF PTypes, Loaded
    <3>3. \A i \in DOMAIN pad' : i \in DOMAIN pad \/ i = Len(pad) + 1
      BY <2>3
    <3>4. \A i, j \in DOMAIN pad' : i < j => i \in DOMAIN pad
      BY <2>3
    <3>5. x # 0 => at = "put" /\ x = pick
      BY <1>7, <2>5 DEF x
    <3> QED BY <2>3, <3>1, <3>2, <3>3, <3>4, <3>5
  <2> QED BY <1>2, <1>4, <2>6, <2>7, <2>9, <2>10 DEF PInv
<1> QED BY <1>1, <1>5, <1>6, <1>7

\* A reader leaves its loop.
LEMMA LeaveReaderKeeps == ASSUME PInv, LeaveReader PROVE PInv'
<1>1. /\ ~Writes /\ UNCHANGED <<ele, peer, writerVars>> /\ at = "end" /\ running' = FALSE
      /\ at' \in {"gone", "pushEos"}
      /\ UNCHANGED <<pick, pad, faults, eos, text, rest, held, content, locked, tasks, work, result>>
  BY DEF LeaveReader, ReaderStep, Goes, taskVars, readerVars
<1>2. /\ ~Writes' /\ PickPlaces = {"sync", "push", "put"} /\ PickPlaces' = PickPlaces
      /\ InStream' /\ PTypes /\ Kept /\ Places /\ UNCHANGED <<bs, out, closed, written, sent>>
  BY <1>1, ReaderIs
<1>3. PTypes'
  BY <1>1, <1>2 DEF PTypes, ReaderPlaces
<1>4. Kept'
  <2>1. Hand = {} /\ Hand' = {}
    BY <1>1, <1>2 DEF Hand
  <2> QED BY <1>1, <1>2, <2>1, KeptStays
<1>5. Places'
  BY <1>1, <1>2 DEF Places
<1>6. FramesInOrder'
  BY <1>1, <1>2 DEF PInv, FramesInOrder, Loaded
<1>7. TextLasts'
  BY <1>1, <1>2 DEF PInv, TextLasts
<1> QED BY <1>2, <1>3, <1>4, <1>5, <1>6, <1>7 DEF PInv

\* What the element behind a reader leaves alone.
LEMMA PeerIs ==
  ASSUME PInv, PeerStep
  PROVE  /\ ~Writes /\ ~Writes' /\ PickPlaces = {"sync", "push", "put"} /\ PickPlaces' = PickPlaces
         /\ at \in ReaderPlaces \ {"crashed"} /\ InStream' /\ PTypes /\ Kept /\ Places
         /\ UNCHANGED <<ele, at, running, pick, faults, text, rest, bs, out, closed, written, sent>>
         /\ Hand' = Hand /\ MaxSurfaces \in Nat
<1>1. /\ ~Writes /\ at # "crashed"
      /\ UNCHANGED <<ele, at, running, pick, faults, text, rest, bs, out, closed, written, sent>>
  BY DEF PeerStep, writerVars
<1>2. ~Writes' /\ PickPlaces = {"sync", "push", "put"} /\ PickPlaces' = PickPlaces
  BY <1>1 DEF Writes, PickPlaces
<1>3. at \in ReaderPlaces /\ InStream' /\ PTypes /\ Kept /\ Places /\ MaxSurfaces \in Nat
  BY <1>1, <1>2, OverlayBounds DEF PInv, PTypes, InStream
<1>4. Hand' = Hand
  BY <1>1, <1>2 DEF Hand
<1> QED BY <1>1, <1>2, <1>3, <1>4

\* The next element takes a buffer.
LEMMA PeerTakesKeeps == ASSUME PInv, PeerTakes PROVE PInv'
<1> DEFINE x == Head(pad)
<1>1. /\ PeerStep /\ pad # << >> /\ held' = held \cup ({x} \ {0}) /\ pad' = Tail(pad)
      /\ UNCHANGED <<eos, peer, content, locked, tasks, work, result>>
  BY DEF PeerTakes, EOS, taskVars
<1>2. /\ ~Writes /\ ~Writes' /\ PickPlaces = {"sync", "push", "put"} /\ PickPlaces' = PickPlaces
      /\ at \in ReaderPlaces \ {"crashed"} /\ InStream' /\ PTypes /\ Kept /\ Places
      /\ UNCHANGED <<ele, at, running, pick, faults, text, rest, bs, out, closed, written, sent>>
      /\ Hand' = Hand /\ MaxSurfaces \in Nat
  BY <1>1, PeerIs
<1>3. /\ x \in 0 .. MaxSurfaces /\ pad' \in Seq(0 .. MaxSurfaces)
      /\ Len(pad') = Len(pad) - 1 /\ Len(pad) \in Nat \ {0}
      /\ DOMAIN pad' = 1 .. Len(pad) - 1 /\ DOMAIN pad = 1 .. Len(pad)
      /\ \A k \in 1 .. Len(pad) - 1 : pad'[k] = pad[k + 1]
      /\ Within(pad) = Within(pad') \cup ({x} \ {0}) /\ Apart(pad') /\ x \notin Within(pad')
  <2>1. pad \in Seq(0 .. MaxSurfaces) /\ Apart(pad)
    BY <1>2 DEF PTypes, Kept
  <2>2. DOMAIN pad = 1 .. Len(pad)
    BY <2>1, SeqIs
  <2>3. pad' = Tail(pad) /\ pad # << >>
    BY <1>1
  <2> DEFINE S == 0 .. MaxSurfaces
  <2>4. pad \in Seq(S)
    BY <2>1
  <2> HIDE DEF S
  <2>5. /\ x \in S /\ pad' \in Seq(S) /\ Len(pad') = Len(pad) - 1 /\ Len(pad) \in Nat \ {0}
        /\ DOMAIN pad' = 1 .. Len(pad) - 1 /\ \A k \in 1 .. Len(pad) - 1 : pad'[k] = pad[k + 1]
        /\ Within(pad) = Within(pad') \cup ({x} \ {0}) /\ Apart(pad') /\ x \notin Within(pad')
    BY <2>1, <2>3, <2>4, TakeIs
  <2> QED BY <2>2, <2>5 DEF S
<1> HIDE DEF x
<1>4. TextLasts'
  BY <1>1, <1>2 DEF PInv, TextLasts
<1>5. PTypes'
  <2>1. Len(pad') <= PadSize /\ held' \subseteq Surfaces
    BY <1>1, <1>2, <1>3, OverlayBounds DEF PTypes, Surfaces
  <2> QED BY <1>1, <1>2, <1>3, <2>1 DEF PTypes
<1>6. Kept'
  BY <1>1, <1>2, <1>3, PassedOn DEF Kept
<1>7. \A k \in DOMAIN pad' : k + 1 \in DOMAIN pad /\ pad'[k] = pad[k + 1] /\ k \in Int
  BY <1>3
<1>8. Places'
  <2>1. Len(pad') < PadSize \/ ~(Len(pad) < PadSize)
    BY <1>2, <1>3, OverlayBounds
  <2>2. \A i \in DOMAIN pad' : pad'[i] = 0 => i = Len(pad') /\ at \in {"gone", "crashed"}
    <3>1. ASSUME NEW i \in DOMAIN pad', pad'[i] = 0 PROVE i + 1 = Len(pad) /\ at \in {"gone", "crashed"}
      BY <1>2, <1>7, <3>1 DEF Places
    <3> QED BY <1>3, <1>7, <3>1
  <2> QED BY <1>1, <1>2, <2>1, <2>2 DEF Places, ReaderPlaces
<1>9. FramesInOrder'
  <2>1. Loaded' = Loaded
    BY <1>2 DEF Loaded
  <2>2. \A i, j \in DOMAIN pad' : i < j => i + 1 < j + 1
    BY <1>7
  <2> QED BY <1>1, <1>2, <1>7, <2>1, <2>2 DEF PInv, FramesInOrder
<1> QED BY <1>2, <1>4, <1>5, <1>6, <1>8, <1>9 DEF PInv

\* The next element gives a surface back.
LEMMA PeerReturnsKeeps == ASSUME PInv, PeerReturns PROVE PInv'
<1>1. PICK s \in held : /\ held' = held \ {s} /\ locked' = [locked EXCEPT ![s] = @ - 1]
                        /\ eos' = TRUE \/ eos' = FALSE
  BY DEF PeerReturns
<1>2. PeerStep /\ UNCHANGED <<pad, peer, content, tasks, work, result>>
  BY DEF PeerReturns
<1>3. /\ ~Writes /\ ~Writes' /\ PickPlaces = {"sync", "push", "put"} /\ PickPlaces' = PickPlaces
      /\ at \in ReaderPlaces \ {"crashed"} /\ InStream' /\ PTypes /\ Kept /\ Places
      /\ UNCHANGED <<ele, at, running, pick, faults, text, rest, bs, out, closed, written, sent>>
      /\ Hand' = Hand /\ MaxSurfaces \in Nat
  BY <1>2, PeerIs
<1>4. s \in Surfaces /\ held \subseteq Surfaces
  BY <1>3 DEF PTypes
<1>5. /\ Kept' /\ locked' \in [Surfaces -> 0 .. 2] /\ locked[s] # 0
      /\ \A u \in Surfaces : u # s => locked'[u] = locked[u]
  <2>1. Within(pad') = Within(pad) /\ Apart(pad') /\ s \notin Within(pad) /\ s \notin Hand
    BY <1>1, <1>2, <1>3 DEF Within, Apart, Kept
  <2>2. Within(pad') \cup held' \cup Hand' = (Within(pad) \cup held \cup Hand) \ {s} /\ held' \subseteq held
    BY <1>1, <1>3, <2>1
  <2> QED BY <1>1, <1>2, <1>3, <1>4, <2>1, <2>2, GivenBack
<1>6. TextLasts'
  BY <1>2, <1>3 DEF PInv, TextLasts
<1>7. PTypes'
  BY <1>1, <1>2, <1>3, <1>4, <1>5 DEF PTypes
<1>8. Places'
  <2>1. at = "process" => pick \in Surfaces /\ pick # s
    BY <1>3, <1>5 DEF Places, PTypes, Surfaces
  <2> QED BY <1>2, <1>3, <1>5, <2>1 DEF Places, ReaderPlaces
<1>9. FramesInOrder'
  BY <1>2, <1>3 DEF PInv, FramesInOrder, Loaded
<1> QED BY <1>3, <1>5, <1>6, <1>7, <1>8, <1>9 DEF PInv

\* The next element ends and gives back what is queued for it.
LEMMA PeerLeavesKeeps == ASSUME PInv, PeerLeaves PROVE PInv'
<1>1. /\ PeerStep /\ held = {} /\ peer' = "left" /\ pad' = << >> /\ (eos' = TRUE \/ eos' = FALSE)
      /\ locked' = [s \in Surfaces |-> locked[s] - Cardinality({i \in DOMAIN pad : pad[i] = s})]
      /\ UNCHANGED <<held, content, tasks, work, result>>
  BY DEF PeerLeaves
<1>2. /\ ~Writes /\ ~Writes' /\ PickPlaces = {"sync", "push", "put"} /\ PickPlaces' = PickPlaces
      /\ at \in ReaderPlaces \ {"crashed"} /\ InStream' /\ PTypes /\ Kept /\ Places
      /\ UNCHANGED <<ele, at, running, pick, faults, text, rest, bs, out, closed, written, sent>>
      /\ Hand' = Hand /\ MaxSurfaces \in Nat
  BY <1>1, PeerIs
<1>3. \A s \in Surfaces : locked'[s] = locked[s] - One(s \in Within(pad))
  <2>1. Apart(pad) /\ \A s \in Surfaces : s # 0
    BY <1>2 DEF Kept, Surfaces
  <2> QED BY <1>1, <2>1, TimesIn
<1>4. Within(pad') = {} /\ Apart(pad') /\ Len(pad') = 0 /\ DOMAIN pad' = {}
  BY <1>1, EmptyIs, EmptySeq
<1>5. InTasks' = InTasks /\ \A t \in Tasks : Busy(t)' = Busy(t)
  BY <1>1 DEF InTasks, Busy
<1>6. /\ \A s \in Surfaces : locked[s] = One(s \in InTasks) + One(s \in Within(pad) \cup Hand)
      /\ Within(pad) \cap Hand = {}
  BY <1>1, <1>2 DEF Kept
<1>7. \A s \in Surfaces : locked'[s] = One(s \in InTasks) + One(s \in Hand)
  BY <1>3, <1>6 DEF One
<1>8. Kept'
  BY <1>1, <1>2, <1>4, <1>5, <1>7 DEF Kept
<1>9. PTypes'
  <2>1. locked' \in [Surfaces -> 0 .. 2]
    BY <1>1, <1>7 DEF One
  <2>2. pad' \in Seq(0 .. MaxSurfaces) /\ Len(pad') <= PadSize
    BY <1>1, <1>4, OverlayBounds, EmptySeq
  <2> QED BY <1>1, <1>2, <2>1, <2>2 DEF PTypes
<1>10. Places'
  <2>1. at = "process" => pick \in Surfaces /\ locked'[pick] = 0
    <3>1. at = "process" => pick \in Surfaces /\ locked[pick] = 0
      BY <1>2 DEF Places, PTypes, Surfaces
    <3> QED BY <1>6, <1>7, <3>1 DEF One
  <2>2. Len(pad') < PadSize
    BY <1>4, OverlayBounds
  <2> QED BY <1>1, <1>2, <1>4, <2>1, <2>2 DEF Places, ReaderPlaces
<1>11. FramesInOrder'
  BY <1>1, <1>2, <1>4 DEF PInv, FramesInOrder, Loaded
<1>12. TextLasts'
  BY <1>1, <1>2 DEF PInv, TextLasts
<1> QED BY <1>2, <1>8, <1>9, <1>10, <1>11, <1>12 DEF PInv

\* What a writer's own steps leave alone, and what the facts of a writer say.
LEMMA WriterIs ==
  ASSUME PInv, Writes, UNCHANGED <<ele, held>>
  PROVE  /\ Writes' /\ PickPlaces = {"submit", "sync", "write", "clear", "return"}
         /\ PickPlaces' = PickPlaces /\ at \in WriterPlaces /\ at # "crashed"
         /\ PTypes /\ Kept /\ Places /\ InStream /\ held' = held
         /\ MaxSurfaces \in Nat /\ MaxFrames \in Nat /\ MaxFaults \in Nat
         /\ Hand = IF at \in {"submit", "sync", "write", "clear", "return"} THEN {pick} \ {0} ELSE {}
         /\ (at \in {"sync", "write", "clear", "return"} \/ (at = "submit" /\ pick # 0) =>
               pick \in Surfaces /\ Hand = {pick})
<1>1. Writes' /\ PickPlaces = {"submit", "sync", "write", "clear", "return"} /\ PickPlaces' = PickPlaces
  BY DEF Writes, PickPlaces
<1>2. /\ at \in WriterPlaces /\ PTypes /\ Kept /\ Places /\ InStream
      /\ pick \in 0 .. MaxSurfaces
  BY DEF PInv, PTypes
<1>3. /\ at # "crashed" /\ MaxSurfaces \in Nat /\ MaxFrames \in Nat /\ MaxFaults \in Nat
  BY <1>2, OverlayBounds DEF WriterPlaces
<1>4. Hand = IF at \in {"submit", "sync", "write", "clear", "return"} THEN {pick} \ {0} ELSE {}
  BY <1>1 DEF Hand
<1>5. at \in {"sync", "write", "clear", "return"} \/ (at = "submit" /\ pick # 0) => pick \in Surfaces
  BY <1>1, <1>2, <1>3 DEF Places, Surfaces
<1> QED BY <1>1, <1>2, <1>3, <1>4, <1>5 DEF Surfaces

\* For a writer the parts about readers hold.
LEMMA WriterDone ==
  ASSUME Writes', PTypes', Kept', Places', InStream'
  PROVE  PInv'
BY OnesOwn DEF PInv

\* The element before a writer fills a surface or ends the stream.
LEMMA FeedWriterKeeps == ASSUME PInv, FeedWriter PROVE PInv'
<1>1. /\ Writes /\ running /\ peer = "running" /\ Len(pad) < PadSize
      /\ UNCHANGED <<ele, at, running, pick, faults, tasks, work, result, bs, out, closed, written,
                     eos, text, rest, held>>
  BY DEF FeedWriter, readerVars
<1>2. /\ Writes' /\ PickPlaces = {"submit", "sync", "write", "clear", "return"}
      /\ PickPlaces' = PickPlaces /\ at \in WriterPlaces /\ at # "crashed"
      /\ PTypes /\ Kept /\ Places /\ InStream
      /\ MaxSurfaces \in Nat /\ MaxFrames \in Nat
      /\ (at = "submit" /\ pick # 0 => Hand = {pick})
  BY <1>1, WriterIs
<1>3. Hand' = Hand /\ InTasks' = InTasks /\ (\A t \in Tasks : Busy(t)' = Busy(t)) /\ Taken' = Taken
      /\ Copied' = Copied
  BY <1>1, <1>2 DEF Hand, InTasks, Busy, Taken, Copied, One
<1> DEFINE S == 0 .. MaxSurfaces
<1>4. pad \in Seq(S) /\ 0 \in S /\ \A s \in Surfaces : s \in S /\ s # 0
  BY <1>2 DEF PTypes, Surfaces
<1>5. \A i \in DOMAIN pad : pad[i] # 0 /\ pad[i] \in Within(pad)
  BY <1>1, <1>2 DEF Places, Within
<1> HIDE DEF S
<1>6. DOMAIN pad = 1 .. Len(pad) /\ Len(pad) \in Nat
  BY <1>4, SeqIs
<1>7. Len(pad) + 1 <= PadSize
  BY <1>1, <1>6, OverlayBounds
<1>8. ASSUME NEW s \in Surfaces, sent < MaxFrames, Free(s), content' = [content EXCEPT ![s] = sent + 1],
             locked' = [locked EXCEPT ![s] = 1], pad' = Append(pad, s), sent' = sent + 1, peer' = peer
      PROVE  PInv'
  <2>1. s \notin InTasks \cup Within(pad) \cup held \cup Hand /\ locked[s] = 0
    BY <1>2, <1>8, LocksAre DEF Free
  <2>2. /\ pad' \in Seq(S) /\ Len(pad') = Len(pad) + 1 /\ DOMAIN pad' = 1 .. Len(pad) + 1
        /\ pad'[Len(pad) + 1] = s /\ \A i \in 1 .. Len(pad) : pad'[i] = pad[i]
        /\ Within(pad') = Within(pad) \cup {s} /\ Apart(pad')
    BY <1>2, <1>4, <1>8, <2>1, PutIs DEF Kept
  <2>3. /\ locked' \in [Surfaces -> 0 .. 2] /\ locked'[s] = 1 /\ content' \in [Surfaces -> Nat]
        /\ content'[s] = sent + 1 /\ sent + 1 \in 1 .. MaxFrames
        /\ \A u \in Surfaces : u # s => locked'[u] = locked[u] /\ content'[u] = content[u]
    <3>1. /\ locked \in [Surfaces -> 0 .. 2] /\ content \in [Surfaces -> Nat] /\ sent \in 0 .. MaxFrames
      BY <1>2 DEF PTypes
    <3>2. sent + 1 \in 1 .. MaxFrames
      BY <1>2, <1>8, <3>1
    <3> QED BY <1>8, <3>1, <3>2
  <2>4. PTypes'
    <3>1. pad' \in Seq(0 .. MaxSurfaces) /\ Len(pad') <= PadSize /\ sent' \in 0 .. MaxFrames
      BY <1>2, <1>7, <1>8, <2>2, <2>3 DEF S
    <3>2. \A u \in Surfaces : locked'[u] # 0 => content'[u] \in 1 .. MaxFrames
      BY <1>1, <1>2, <2>3 DEF PTypes
    <3> QED BY <1>1, <1>2, <1>8, <2>3, <3>1, <3>2 DEF PTypes
  <2>5. Kept'
    <3>1. \A u \in Surfaces : locked'[u] = One(u \in InTasks') + One(u \in Within(pad') \cup held' \cup Hand')
      BY <1>1, <1>2, <1>3, <2>1, <2>2, <2>3 DEF Kept, One
    <3> QED BY <1>1, <1>2, <1>3, <2>1, <2>2, <3>1 DEF Kept
  <2>6. \A i \in DOMAIN pad' : pad'[i] # 0
    BY <1>4, <1>5, <1>6, <2>2
  <2>7. Places'
    <3>1. at \notin {"process", "put", "putEos"}
      BY <1>2 DEF WriterPlaces
    <3> QED BY <1>1, <1>2, <1>3, <2>6, <3>1 DEF Places
  <2>8. InStream'
    <3> SUFFICES ASSUME ele.stream, faults = 0 PROVE InStream'
      BY <1>1 DEF InStream
    <3>1. /\ \A i \in DOMAIN pad : content[pad[i]] = Taken + i
          /\ sent = Taken + Len(pad) /\ ~closed /\ ~(at = "submit" /\ pick = 0)
      BY <1>1, <1>2, <1>5 DEF InStream
    <3>2. \A i \in DOMAIN pad' : content'[pad'[i]] = Taken + i
      <4>1. ASSUME NEW i \in 1 .. Len(pad) PROVE pad'[i] = pad[i] /\ pad[i] \in Surfaces /\ pad[i] # s
        <5>1. pad[i] \in S /\ pad[i] # 0 /\ pad[i] # s
          BY <1>4, <1>5, <1>6, <2>1, SeqIs
        <5> QED BY <1>2, <2>2, <5>1 DEF S, Surfaces
      <4>2. content'[s] = Taken + (Len(pad) + 1)
        <5>1. Taken \in Int
          <6>1. Len(out) \in Nat /\ Len(bs) \in Nat /\ Len(work) \in Nat
            BY <1>2, LenProperties DEF PTypes
          <6> QED BY <6>1 DEF Taken, Copied, One
        <5> QED BY <1>6, <2>3, <3>1, <5>1
      <4>3. \A i \in DOMAIN pad' : i \in 1 .. Len(pad) \/ i = Len(pad) + 1
        BY <1>6, <2>2
      <4> QED BY <1>6, <2>2, <2>3, <3>1, <4>1, <4>2, <4>3
    <3>3. sent' = Taken + Len(pad')
      <4>1. Taken \in Int
        <5>1. Len(out) \in Nat /\ Len(bs) \in Nat /\ Len(work) \in Nat
          BY <1>2, LenProperties DEF PTypes
        <5> QED BY <5>1 DEF Taken, Copied, One
      <4> QED BY <1>6, <1>8, <2>2, <3>1, <4>1
    <3>4. at = "submit" => content'[pick] = content[pick]
      <4>1. at = "submit" => pick \in Surfaces /\ pick # s
        BY <1>2, <2>1, <3>1 DEF PTypes, Surfaces
      <4> QED BY <2>3, <4>1
    <3>5. work # << >> => content'[tasks[work[1]]] = content[tasks[work[1]]]
      <4>1. work # << >> => tasks[work[1]] \in InTasks
        BY <1>2, TasksAre, EmptySeq
      <4>2. InTasks \subseteq Surfaces
        BY <1>2, TasksAre
      <4> QED BY <2>1, <2>3, <4>1, <4>2
    <3> QED BY <1>1, <1>2, <1>3, <2>6, <3>1, <3>2, <3>3, <3>4, <3>5 DEF InStream
  <2> QED BY <1>2, <2>4, <2>5, <2>7, <2>8, WriterDone
<1>9. ASSUME pad' = Append(pad, 0), peer' = "left", UNCHANGED <<sent, content, locked>>
      PROVE  PInv'
  <2>1. 0 \notin Within(pad)
    BY DEF Within
  <2>2. /\ pad' \in Seq(S) /\ Len(pad') = Len(pad) + 1 /\ DOMAIN pad' = 1 .. Len(pad) + 1
        /\ pad'[Len(pad) + 1] = 0 /\ \A i \in 1 .. Len(pad) : pad'[i] = pad[i]
        /\ Within(pad') = Within(pad) /\ Apart(pad')
    <3>1. /\ pad' \in Seq(S) /\ Len(pad') = Len(pad) + 1 /\ DOMAIN pad' = 1 .. Len(pad) + 1
          /\ pad'[Len(pad) + 1] = 0 /\ \A i \in 1 .. Len(pad) : pad'[i] = pad[i]
          /\ Within(pad') = Within(pad) \cup ({0} \ {0}) /\ Apart(pad')
      BY <1>2, <1>4, <1>9, <2>1, PutIs DEF Kept
    <3> QED BY <3>1
  <2>3. PTypes'
    <3>1. pad' \in Seq(0 .. MaxSurfaces) /\ Len(pad') <= PadSize
      BY <1>7, <2>2 DEF S
    <3> QED BY <1>1, <1>2, <1>9, <3>1 DEF PTypes
  <2>4. Kept'
    BY <1>1, <1>2, <1>3, <1>9, <2>2, PassedOn DEF Kept
  <2>5. \A i \in DOMAIN pad' : pad'[i] = 0 => i = Len(pad')
    <3>1. \A i \in DOMAIN pad' : i \in DOMAIN pad \/ i = Len(pad) + 1
      BY <1>6, <2>2
    <3> QED BY <1>5, <1>6, <2>2, <3>1
  <2>6. Places'
    <3>1. at \notin {"process", "put", "putEos"}
      BY <1>2 DEF WriterPlaces
    <3> QED BY <1>1, <1>2, <1>3, <1>9, <2>5, <3>1 DEF Places
  <2>7. InStream'
    <3> SUFFICES ASSUME ele.stream, faults = 0 PROVE InStream'
      BY <1>1 DEF InStream
    <3>1. /\ \A i \in DOMAIN pad : content[pad[i]] = Taken + i
          /\ sent = Taken + Len(pad) /\ ~closed /\ ~(at = "submit" /\ pick = 0)
      BY <1>1, <1>2, <1>5 DEF InStream
    <3>2. Taken \in Int
      <4>1. Len(out) \in Nat /\ Len(bs) \in Nat /\ Len(work) \in Nat
        BY <1>2, LenProperties DEF PTypes
      <4> QED BY <4>1 DEF Taken, Copied, One
    <3>3. \A i \in DOMAIN pad' : IF pad'[i] # 0 THEN content'[pad'[i]] = Taken + i
                                 ELSE sent = Taken + Len(pad') - 1
      <4>1. \A i \in DOMAIN pad' : i \in DOMAIN pad \/ i = Len(pad) + 1
        BY <1>6, <2>2
      <4>2. sent = Taken + Len(pad') - 1
        BY <1>6, <2>2, <3>1, <3>2
      <4> QED BY <1>5, <1>6, <1>9, <2>2, <3>1, <4>1, <4>2
    <3> QED BY <1>1, <1>2, <1>3, <1>9, <3>1, <3>3 DEF InStream
  <2> QED BY <1>2, <2>3, <2>4, <2>6, <2>7, WriterDone
<1>10. \/ \E s \in Surfaces :
            /\ sent < MaxFrames /\ Free(s) /\ content' = [content EXCEPT ![s] = sent + 1]
            /\ locked' = [locked EXCEPT ![s] = 1] /\ pad' = Append(pad, s) /\ sent' = sent + 1 /\ peer' = peer
       \/ pad' = Append(pad, 0) /\ peer' = "left" /\ UNCHANGED <<sent, content, locked>>
  BY DEF FeedWriter, EOS
<1> QED BY <1>8, <1>9, <1>10

\* The counts of the frames of a writer are numbers.
LEMMA CountsAre ==
  ASSUME PTypes
  PROVE  Len(out) \in Nat /\ Len(bs) \in Nat /\ Len(work) \in Nat /\ Taken \in Int /\ Copied \in Int
<1>1. Len(out) \in Nat /\ Len(bs) \in Nat /\ Len(work) \in Nat
  BY LenProperties DEF PTypes
<1> QED BY <1>1 DEF Taken, Copied, One

\* The writer takes the next buffer out of its queue.
LEMMA WriterTakes ==
  ASSUME PInv, WriterStep, at \in {"init", "get"}, running, pad # << >>,
         pad' = Tail(pad), pick' = Head(pad),
         at' = IF at = "init" /\ Head(pad) = 0 THEN "init" ELSE "submit",
         bs' \in Seq(1 .. MaxFrames), ele.stream /\ faults = 0 => bs' = bs,
         UNCHANGED <<running, faults, content, locked, tasks, work, result, out, closed, written, sent>>
  PROVE  PInv'
<1> DEFINE x == Head(pad)
<1>1. Writes /\ UNCHANGED <<ele, peer, eos, text, rest, held>>
  BY DEF WriterStep, readerVars
<1>2. /\ Writes' /\ PickPlaces = {"submit", "sync", "write", "clear", "return"}
      /\ PickPlaces' = PickPlaces /\ at \in WriterPlaces
      /\ PTypes /\ Kept /\ Places /\ InStream
      /\ MaxSurfaces \in Nat /\ Hand = {}
  BY <1>1, WriterIs
<1>3. /\ x \in 0 .. MaxSurfaces /\ pad' \in Seq(0 .. MaxSurfaces)
      /\ Len(pad') = Len(pad) - 1 /\ Len(pad) \in Nat \ {0} /\ x = pad[1]
      /\ DOMAIN pad' = 1 .. Len(pad) - 1 /\ DOMAIN pad = 1 .. Len(pad)
      /\ \A k \in 1 .. Len(pad) - 1 : pad'[k] = pad[k + 1]
      /\ Within(pad) = Within(pad') \cup ({x} \ {0}) /\ Apart(pad') /\ x \notin Within(pad')
  <2>1. pad \in Seq(0 .. MaxSurfaces) /\ Apart(pad)
    BY <1>2 DEF PTypes, Kept
  <2>2. DOMAIN pad = 1 .. Len(pad)
    BY <2>1, SeqIs
  <2> DEFINE S == 0 .. MaxSurfaces
  <2>3. pad \in Seq(S)
    BY <2>1
  <2> HIDE DEF S
  <2>4. /\ x \in S /\ pad' \in Seq(S) /\ Len(pad') = Len(pad) - 1 /\ Len(pad) \in Nat \ {0}
        /\ x = pad[1]
        /\ DOMAIN pad' = 1 .. Len(pad) - 1 /\ \A k \in 1 .. Len(pad) - 1 : pad'[k] = pad[k + 1]
        /\ Within(pad) = Within(pad') \cup ({x} \ {0}) /\ Apart(pad') /\ x \notin Within(pad')
    BY <2>1, <2>3, TakeIs
  <2> QED BY <2>2, <2>4 DEF S
<1>4. pick' = x /\ at' = IF at = "init" /\ x = 0 THEN "init" ELSE "submit"
  OBVIOUS
<1> HIDE DEF x
<1>5. Hand' = {x} \ {0}
  BY <1>2, <1>4 DEF Hand
<1>6. InTasks' = InTasks
  BY DEF InTasks
<1>7. PTypes'
  <2>1. Len(pad') <= PadSize
    BY <1>2, <1>3, OverlayBounds DEF PTypes
  <2>2. at' \in WriterPlaces
    BY <1>4 DEF WriterPlaces
  <2> QED BY <1>1, <1>2, <1>3, <1>4, <2>1, <2>2 DEF PTypes
<1>8. Kept'
  <2>1. at # "crashed" /\ at' # "crashed"
    BY <1>4
  <2>2. Within(pad') \cap Hand' = {} /\ held' \cap Hand' = {} /\ Within(pad') \cap held' = {}
    BY <1>1, <1>2, <1>3, <1>5 DEF Kept
  <2> QED BY <1>1, <1>2, <1>3, <1>5, <2>1, <2>2, PassedOn DEF Kept
<1>9. \A k \in DOMAIN pad' : k + 1 \in DOMAIN pad /\ pad'[k] = pad[k + 1] /\ k \in Int
  BY <1>3
<1>10. 1 \in DOMAIN pad
  BY <1>3
<1>11. x = 0 => Len(pad) = 1 /\ DOMAIN pad' = {} /\ peer = "left"
  <2>1. x = 0 => 1 = Len(pad) /\ peer = "left"
    BY <1>1, <1>2, <1>3, <1>10 DEF Places
  <2> QED BY <1>3, <2>1
<1>12. Places'
  <2>1. \A i \in DOMAIN pad' : pad'[i] = 0 => i = Len(pad') /\ peer = "left"
    <3>1. ASSUME NEW i \in DOMAIN pad', pad'[i] = 0 PROVE i + 1 = Len(pad) /\ peer = "left"
      BY <1>1, <1>2, <1>9, <3>1 DEF Places
    <3> QED BY <1>3, <1>9, <3>1
  <2>2. x \notin InTasks
    BY <1>2, <1>3 DEF Kept, InTasks
  <2>3. at' \in {"init", "submit"} /\ (at' = "init" => at = "init")
    BY <1>4
  <2> QED BY <1>1, <1>2, <1>4, <1>6, <2>1, <2>2, <2>3 DEF Places
<1>13. InStream'
  <2> SUFFICES ASSUME ele.stream, faults = 0 PROVE InStream'
    BY <1>1 DEF InStream
  <2>1. /\ work = << >> /\ bs = << >> /\ bs' = << >> /\ ~closed /\ bs' = bs
        /\ \A i \in DOMAIN out : out[i] = i
    BY <1>1, <1>2 DEF InStream
  <2>2. Taken = Len(out) /\ Copied = Len(out) /\ Copied' = Len(out) /\ Taken' = Len(out) + One(x # 0)
        /\ Len(out) \in Nat /\ Len(bs) + Len(work) <= 1
    <3>1. Len(out) \in Nat /\ Len(bs) = 0 /\ Len(work) = 0 /\ bs' = bs /\ out' = out /\ work' = work
      BY <1>2, <2>1, CountsAre, EmptyIs
    <3>2. Copied = Len(out) /\ Taken = Copied
      BY <3>1 DEF Copied, Taken, One
    <3>3. Copied' = Len(out) /\ Taken' = Copied' + One(x # 0)
      BY <1>4, <3>1 DEF Copied, Taken, One
    <3> QED BY <3>1, <3>2, <3>3
  <2>3. /\ \A i \in DOMAIN pad : IF pad[i] # 0 THEN content[pad[i]] = Taken + i
                                 ELSE sent = Taken + Len(pad) - 1
        /\ peer = "running" => sent = Taken + Len(pad)
    BY <1>1, <1>2 DEF InStream
  <2>4. x # 0 => content[x] = Len(out) + 1
    BY <1>3, <1>10, <2>2, <2>3
  <2>5. x = 0 => sent = Len(out) /\ pad' = << >>
    <3>1. x = 0 => sent = Taken + Len(pad) - 1
      BY <1>3, <1>10, <2>3
    <3>2. x = 0 => Len(pad') = 0
      BY <1>3, <1>11
    <3>3. x = 0 => pad' = << >>
      BY <1>3, <3>2, EmptySeq
    <3>4. x = 0 => Taken + Len(pad) - 1 = Len(out)
      <4>1. Taken = Len(out) /\ Len(out) \in Nat
        BY <2>2
      <4> QED BY <1>11, <4>1
    <3> QED BY <3>1, <3>3, <3>4
  <2>6. x # 0 => Taken' = Taken + 1
    BY <2>2 DEF One
  <2>7. \A i \in DOMAIN pad' : IF pad'[i] # 0 THEN content[pad'[i]] = Taken' + i
                               ELSE sent = Taken' + Len(pad') - 1
    <3>1. ASSUME NEW i \in DOMAIN pad'
          PROVE  IF pad'[i] # 0 THEN content[pad'[i]] = Taken' + i
                               ELSE sent = Taken' + Len(pad') - 1
      <4>1. x # 0
        BY <1>11, <3>1
      <4>2. IF pad'[i] # 0 THEN content[pad'[i]] = Taken + (i + 1) ELSE sent = Taken + Len(pad) - 1
        BY <1>9, <2>3, <3>1
      <4>3. Taken + (i + 1) = Taken' + i /\ Taken + Len(pad) - 1 = Taken' + Len(pad') - 1
        <5>1. Taken' = Taken + 1 /\ Taken \in Int /\ i \in Int /\ Len(pad') = Len(pad) - 1 /\ Len(pad) \in Int
          BY <1>2, <1>3, <1>9, <2>6, <3>1, <4>1, CountsAre
        <5> QED BY <5>1
      <4> QED BY <4>2, <4>3
    <3> QED BY <3>1
  <2>8. peer = "running" => sent = Taken' + Len(pad')
    BY <1>3, <1>11, <2>2, <2>3, <2>6
  <2> QED BY <1>1, <1>2, <1>4, <1>11, <2>1, <2>2, <2>4, <2>5, <2>7, <2>8 DEF InStream
<1> QED BY <1>2, <1>7, <1>8, <1>12, <1>13, WriterDone

\* A writer takes its first buffer.
LEMMA InitEncoderKeeps == ASSUME PInv, InitEncoder PROVE PInv'
<1>1. /\ WriterStep /\ at = "init" /\ running /\ pad # << >> /\ pad' = Tail(pad) /\ pick' = Head(pad)
      /\ UNCHANGED <<running, faults, content, locked, work, result, out, closed, written, sent>>
      /\ at' = IF Head(pad) = 0 THEN "init" ELSE "submit"
      /\ bs' = bs \/ bs' = << >>
      /\ tasks' = tasks \/ tasks' = [t \in Tasks |-> 0]
  BY DEF InitEncoder, EOS, None, Goes
<1>2. PTypes /\ Kept /\ Places /\ InStream /\ Writes
  BY <1>1 DEF PInv, WriterStep
<1>3. tasks' = tasks
  <2>1. InTasks = {} /\ tasks \in [Tasks -> 0 .. MaxSurfaces]
    BY <1>1, <1>2, TasksAre DEF Places, PTypes
  <2>2. \A t \in Tasks : tasks[t] = 0
    BY <2>1 DEF InTasks
  <2>3. [t \in Tasks |-> 0] = tasks
    BY <2>1, <2>2
  <2> QED BY <1>1, <2>3
<1>4. bs' \in Seq(1 .. MaxFrames) /\ (ele.stream /\ faults = 0 => bs' = bs)
  <2>1. bs \in Seq(1 .. MaxFrames) /\ << >> \in Seq(1 .. MaxFrames)
    BY <1>2, EmptySeq DEF PTypes
  <2>2. ele.stream /\ faults = 0 => bs = << >>
    BY <1>1, <1>2 DEF InStream
  <2> QED BY <1>1, <2>1, <2>2
<1> QED BY <1>1, <1>3, <1>4, WriterTakes

\* A writer takes the next buffer.
LEMMA GetBufDataKeeps == ASSUME PInv, GetBufData PROVE PInv'
<1>1. /\ WriterStep /\ at = "get" /\ running /\ pad # << >> /\ pad' = Tail(pad) /\ pick' = Head(pad)
      /\ UNCHANGED <<running, faults, content, locked, tasks, work, result, bs, out, closed, written, sent>>
      /\ at' = "submit"
  BY DEF GetBufData, Goes, taskVars, writerVars
<1>2. bs' \in Seq(1 .. MaxFrames)
  BY <1>1 DEF PInv, PTypes
<1> QED BY <1>1, <1>2, WriterTakes

\* The surface the writer worked on goes back to the element before it.
LEMMA WriterReturns ==
  ASSUME PInv, WriterStep, at \in {"submit", "return"}, pick # 0, at' = "get",
         locked' = [locked EXCEPT ![pick] = @ - 1], ~running \/ at = "return",
         UNCHANGED <<running, pick, pad, faults, content, tasks, work, result, bs, out, closed, written, sent>>
  PROVE  PInv'
<1>1. Writes /\ UNCHANGED <<ele, peer, eos, text, rest, held>>
  BY DEF WriterStep, readerVars
<1>2. /\ Writes' /\ PickPlaces = {"submit", "sync", "write", "clear", "return"}
      /\ PickPlaces' = PickPlaces /\ at \in WriterPlaces /\ at # "crashed"
      /\ PTypes /\ Kept /\ Places /\ InStream /\ pick \in Surfaces /\ Hand = {pick}
  BY <1>1, WriterIs
<1>3. Hand' = {} /\ Within(pad') = Within(pad) /\ Apart(pad') /\ pick \notin Within(pad) \cup held
  BY <1>2 DEF Hand, Within, Apart, Kept
<1>4. /\ Kept' /\ locked' \in [Surfaces -> 0 .. 2] /\ locked[pick] # 0
      /\ \A u \in Surfaces : u # pick => locked'[u] = locked[u]
  BY <1>1, <1>2, <1>3, GivenBack
<1>5. PTypes'
  <2>1. \A u \in Surfaces : locked'[u] # 0 => content'[u] \in 1 .. MaxFrames
    BY <1>1, <1>2, <1>4 DEF PTypes
  <2> QED BY <1>1, <1>2, <1>4, <2>1 DEF PTypes, WriterPlaces
<1>6. Places'
  <2>1. faults = 0 /\ work # << >> => ~running
    BY <1>2 DEF Places
  <2> QED BY <1>1, <1>2, <2>1 DEF Places
<1>7. InStream'
  <2> SUFFICES ASSUME ele.stream, faults = 0 PROVE InStream'
    BY <1>1 DEF InStream
  <2>1. Copied' = Copied /\ (running => Taken' = Taken)
    <3>1. Copied' = Copied
      BY DEF Copied
    <3>2. running => Taken' = Copied' + One(FALSE) /\ Taken = Copied + One(FALSE)
      BY DEF Taken, One
    <3> QED BY <3>1, <3>2
  <2>2. ~closed /\ (running => work = << >> /\ bs = << >>)
    BY <1>1, <1>2 DEF InStream
  <2> QED BY <1>1, <1>2, <2>1, <2>2 DEF InStream
<1> QED BY <1>2, <1>4, <1>5, <1>6, <1>7, WriterDone

\* A writer submits a task, or closes the stream, or skips a buffer.
LEMMA SubmitWriterKeeps == ASSUME PInv, SubmitWriter PROVE PInv'
<1>1. /\ Writes /\ UNCHANGED <<ele, peer, eos, text, rest, held>> /\ at = "submit"
      /\ UNCHANGED <<pick, pad, faults, bs, out, written, sent>> /\ WriterStep
  BY DEF SubmitWriter, WriterStep, readerVars
<1>2. /\ Writes' /\ PickPlaces = {"submit", "sync", "write", "clear", "return"}
      /\ PickPlaces' = PickPlaces /\ at \in WriterPlaces /\ at # "crashed"
      /\ PTypes /\ Kept /\ Places /\ InStream
      /\ Hand = {pick} \ {0} /\ (pick # 0 => pick \in Surfaces /\ Hand = {pick})
  BY <1>1, WriterIs
<1>3. CASE /\ pick = 0 /\ closed' = (closed \/ ele.stream) /\ running' = (running /\ ~ele.stream)
           /\ at' = "get" /\ UNCHANGED <<content, locked, tasks, work, result>>
  <2>1. closed' = TRUE \/ closed' = FALSE
    BY <1>3
  <2>2. running' = TRUE \/ running' = FALSE
    BY <1>3
  <2>3. PTypes'
    BY <1>1, <1>2, <1>3, <2>1, <2>2 DEF PTypes, WriterPlaces
  <2>4. Kept'
    <3>1. Hand' = {} /\ Hand = {}
      BY <1>1, <1>2, <1>3 DEF Hand
    <3> QED BY <1>1, <1>2, <1>3, <3>1, KeptStays
  <2>5. Places'
    BY <1>1, <1>2, <1>3 DEF Places
  <2>6. InStream'
    <3> SUFFICES ASSUME ele.stream, faults = 0 PROVE InStream'
      BY <1>1 DEF InStream
    <3>1. ~running' /\ work = << >> /\ bs = << >> /\ sent = Len(out) /\ Len(bs) + Len(work) <= 1
          /\ \A i \in DOMAIN out : out[i] = i
      BY <1>1, <1>2, <1>3 DEF InStream
    <3> QED BY <1>1, <1>3, <3>1 DEF InStream
  <2> QED BY <1>2, <2>3, <2>4, <2>5, <2>6, WriterDone
<1>4. CASE /\ pick # 0 /\ ~running /\ locked' = [locked EXCEPT ![pick] = @ - 1] /\ at' = "get"
           /\ UNCHANGED <<running, closed, content, tasks, work, result>>
  BY <1>1, <1>4, WriterReturns
<1>5. CASE /\ pick # 0 /\ running /\ ~AllBusy /\ Submit(pick) /\ at' = "sync"
           /\ UNCHANGED <<running, closed>>
  <2>1. pick \notin InTasks /\ pick \in Surfaces /\ Hand = {pick}
    BY <1>1, <1>2, <1>5 DEF Places
  <2>2. /\ tasks' \in [Tasks -> 0 .. MaxSurfaces] /\ work' \in Seq(Tasks)
        /\ InTasks' = InTasks \cup {pick} /\ Apart(tasks') /\ Apart(work')
        /\ \A t \in Tasks : Busy(t)' <=> t \in Within(work')
        /\ work' # << >> /\ Len(work') = Len(work) + 1 /\ tasks'[work'[Len(work')]] = pick
        /\ locked' = [locked EXCEPT ![pick] = @ + 1]
        /\ result' = "waiting" /\ content' = content
    BY <1>1, <1>2, <1>5, <2>1, SubmitIs
  <2>3. locked[pick] = 1
    BY <1>2, <2>1 DEF Kept, One
  <2>4. /\ locked' \in [Surfaces -> 0 .. 2] /\ locked'[pick] = 2
        /\ \A u \in Surfaces : u # pick => locked'[u] = locked[u]
    BY <1>2, <2>1, <2>2, <2>3 DEF PTypes
  <2>5. Hand' = {pick}
    BY <1>1, <1>2, <1>5, <2>1 DEF Hand
  <2>6. PTypes'
    <3>1. \A u \in Surfaces : locked'[u] # 0 => content'[u] \in 1 .. MaxFrames
      BY <1>1, <1>2, <2>1, <2>2, <2>3, <2>4 DEF PTypes
    <3> QED BY <1>1, <1>2, <1>5, <2>2, <2>4, <3>1 DEF PTypes, WriterPlaces
  <2>7. Kept'
    <3>1. Apart(pad') /\ Within(pad') = Within(pad)
      BY <1>1, <1>2 DEF Kept, Apart, Within
    <3>2. \A u \in Surfaces : locked'[u] = One(u \in InTasks') + One(u \in Within(pad') \cup held' \cup Hand')
      BY <1>1, <1>2, <2>1, <2>2, <2>3, <2>4, <2>5, <3>1 DEF Kept, One
    <3> QED BY <1>1, <1>2, <2>1, <2>2, <2>5, <3>1, <3>2 DEF Kept
  <2>8. faults = 0 => work = << >>
    BY <1>1, <1>2, <1>5 DEF Places
  <2>9. Places'
    <3>1. faults = 0 => Len(work') <= 1
      BY <2>2, <2>8, EmptyIs
    <3> QED BY <1>1, <1>2, <1>5, <2>2, <3>1 DEF Places
  <2>10. InStream'
    <3> SUFFICES ASSUME ele.stream, faults = 0 PROVE InStream'
      BY <1>1 DEF InStream
    <3>1. /\ work = << >> /\ bs = << >> /\ content[pick] = Copied + 1 /\ ~closed
          /\ \A i \in DOMAIN out : out[i] = i
          /\ \A i \in DOMAIN pad : IF pad[i] # 0 THEN content[pad[i]] = Taken + i
                                   ELSE sent = Taken + Len(pad) - 1
          /\ peer = "running" => sent = Taken + Len(pad)
      BY <1>1, <1>2, <1>5 DEF InStream
    <3>2. Len(out) \in Nat /\ Len(bs) = 0 /\ Len(work) = 0 /\ Len(work') = 1
      BY <1>2, <2>2, <3>1, CountsAre, EmptyIs
    <3>3. Copied = Len(out) /\ Copied' = Len(out) + 1 /\ Taken = Len(out) + 1 /\ Taken' = Len(out) + 1
      <4>1. Copied = Len(out)
        BY <1>1, <3>2 DEF Copied
      <4>2. Copied' = Len(out) + 1
        <5>1. bs' = bs /\ out' = out /\ at' = "sync"
          BY <1>1, <1>5
        <5> QED BY <3>2, <5>1 DEF Copied
      <4>3. Taken = Len(out) + 1
        BY <1>1, <1>5, <3>2, <4>1 DEF Taken, One
      <4>4. Taken' = Len(out) + 1
        BY <1>5, <3>2, <4>2 DEF Taken, One
      <4> QED BY <4>1, <4>2, <4>3, <4>4
    <3>4. tasks'[work'[1]] = pick /\ content'[pick] = Len(out) + 1 /\ Len(bs) + Len(work') <= 1
      BY <2>2, <3>1, <3>2, <3>3
    <3> QED BY <1>1, <1>5, <2>2, <3>1, <3>3, <3>4 DEF InStream
  <2> QED BY <1>2, <2>6, <2>7, <2>9, <2>10, WriterDone
<1> QED BY <1>3, <1>4, <1>5 DEF SubmitWriter, EndOfStream, ReturnBuf, EOS, Goes, taskVars

\* A writer has waited for its task, or was stopped.
LEMMA SyncWriterKeeps == ASSUME PInv, SyncWriter PROVE PInv'
<1>1. /\ Writes /\ UNCHANGED <<ele, peer, eos, text, rest, held>> /\ at = "sync" /\ result' = "none"
      /\ UNCHANGED <<running, pick, pad, content, locked, tasks, work, bs, out, closed, written, sent>>
      /\ at' \in {"return", "write"} /\ (at' = "write" => ele.stream)
      /\ \/ ~running /\ at' = "return" /\ faults' = faults
         \/ result = "done" /\ faults' = faults /\ (ele.stream => at' = "write")
         \/ faults < MaxFaults /\ faults' = faults + 1
  BY DEF SyncWriter, WriterStep, Goes, readerVars, writerVars
<1>2. /\ Writes' /\ PickPlaces = {"submit", "sync", "write", "clear", "return"}
      /\ PickPlaces' = PickPlaces /\ at \in WriterPlaces /\ at # "crashed"
      /\ PTypes /\ Kept /\ Places /\ InStream /\ MaxFaults \in Nat
      /\ Hand = {pick} /\ pick \in Surfaces
  BY <1>1, WriterIs
<1>3. Hand' = Hand
  BY <1>1, <1>2 DEF Hand
<1>4. faults' \in 0 .. MaxFaults /\ (faults' = 0 => faults = 0 /\ ((~running /\ at' = "return") \/ result = "done"))
  BY <1>1, <1>2 DEF PTypes
<1>5. PTypes'
  BY <1>1, <1>2, <1>4 DEF PTypes, WriterPlaces
<1>6. Kept'
  BY <1>1, <1>2, <1>3, KeptStays
<1>7. Places'
  <2>1. result = "done" => work = << >>
    BY <1>1, <1>2 DEF Places
  <2>2. pick # 0 /\ ~(at' \in {"init", "push", "put", "process", "putEos", "submit", "sync"})
    BY <1>1, <1>2 DEF Surfaces
  <2> QED BY <1>1, <1>2, <1>4, <2>1, <2>2 DEF Places
<1>8. InStream'
  <2> SUFFICES ASSUME ele.stream, faults' = 0 PROVE InStream'
    BY <1>1 DEF InStream
  <2>1. Copied' = Copied /\ Taken' = Taken
    <3>1. Copied' = Copied
      BY <1>1 DEF Copied
    <3> QED BY <1>1, <3>1 DEF Taken
  <2>2. faults = 0 /\ (at' = "return" => ~running) /\ (at' = "write" => result = "done")
    BY <1>1, <1>4
  <2>3. at' = "write" => work = << >> /\ Len(bs) = 1
    BY <1>1, <1>2, <2>2 DEF InStream, Places
  <2>4. ~closed
    BY <1>1, <1>2, <2>2 DEF InStream
  <2> QED BY <1>1, <1>2, <2>1, <2>2, <2>3, <2>4 DEF InStream
<1> QED BY <1>2, <1>5, <1>6, <1>7, <1>8, WriterDone

\* A writer writes its buffer, or fails to.
LEMMA WriteBlockKeeps == ASSUME PInv, WriteBlock PROVE PInv'
<1>1. /\ Writes /\ UNCHANGED <<ele, peer, eos, text, rest, held>> /\ at = "write" /\ at' = "clear"
      /\ UNCHANGED <<running, pick, pad, content, locked, tasks, work, result, bs, closed, sent>>
      /\ \/ written' = Len(bs) /\ out' = out \o bs /\ faults' = faults
         \/ faults < MaxFaults /\ faults' = faults + 1 /\ written' = 0 /\ out' = out
  BY DEF WriteBlock, WriterStep, Goes, readerVars, taskVars
<1>2. /\ Writes' /\ PickPlaces = {"submit", "sync", "write", "clear", "return"}
      /\ PickPlaces' = PickPlaces /\ at \in WriterPlaces /\ at # "crashed"
      /\ PTypes /\ Kept /\ Places /\ InStream /\ MaxFaults \in Nat
      /\ Hand = {pick} /\ pick \in Surfaces
  BY <1>1, WriterIs
<1>3. Hand' = Hand
  BY <1>1, <1>2 DEF Hand
<1>4. /\ Len(bs) \in Nat /\ Len(out) \in Nat /\ Len(work) \in Nat
      /\ bs \in Seq(1 .. MaxFrames) /\ out \in Seq(1 .. MaxFrames) /\ faults \in 0 .. MaxFaults
  BY <1>2, CountsAre DEF PTypes
<1>5. faults' \in 0 .. MaxFaults /\ (faults' = 0 => faults = 0 /\ written' = Len(bs) /\ out' = out \o bs)
  <2>1. CASE faults' = faults /\ written' = Len(bs) /\ out' = out \o bs
    BY <1>4, <2>1
  <2>2. CASE faults < MaxFaults /\ faults' = faults + 1
    <3> QED BY <1>2, <1>4, <2>2
  <2> QED BY <1>1, <2>1, <2>2
<1>6. out' \in Seq(1 .. MaxFrames) /\ written' \in Nat
  <2> DEFINE S == 1 .. MaxFrames
  <2>1. out \in Seq(S) /\ bs \in Seq(S)
    BY <1>4
  <2> HIDE DEF S
  <2>2. out \o bs \in Seq(S)
    BY <2>1, ConcatProperties
  <2>3. out' \in Seq(S)
    BY <1>1, <2>1, <2>2
  <2> QED BY <1>1, <1>4, <2>3 DEF S
<1>7. PTypes'
  BY <1>1, <1>2, <1>5, <1>6 DEF PTypes, WriterPlaces
<1>8. Kept'
  BY <1>1, <1>2, <1>3, KeptStays
<1>9. Places'
  <2>1. faults = 0 /\ work # << >> => ~running
    BY <1>1, <1>2 DEF Places
  <2>2. pick # 0 /\ faults' = 0 => faults = 0
    BY <1>5
  <2> QED BY <1>1, <1>2, <1>5, <2>1 DEF Places, Surfaces
<1>10. InStream'
  <2> SUFFICES ASSUME ele.stream, faults' = 0 PROVE InStream'
    BY <1>1 DEF InStream
  <2>1. /\ faults = 0 /\ work = << >> /\ Len(bs) = 1 /\ ~closed /\ bs # << >>
        /\ \A i \in DOMAIN out : out[i] = i
        /\ bs[1] = Len(out) + 1
    <3>1. faults = 0 /\ work = << >> /\ Len(bs) = 1 /\ \A i \in DOMAIN out : out[i] = i
      BY <1>1, <1>2, <1>5 DEF InStream
    <3>2. bs # << >>
      BY <3>1, EmptyIs
    <3> QED BY <1>1, <1>2, <3>1, <3>2 DEF InStream
  <2>2. /\ Len(out') = Len(out) + 1 /\ out'[Len(out) + 1] = bs[1]
        /\ \A i \in 1 .. Len(out) : out'[i] = out[i]
    <3>1. out' = out \o bs
      BY <1>5
    <3>2. Len(out \o bs) = Len(out) + Len(bs) /\ \A i \in 1 .. Len(out) + Len(bs) :
             (out \o bs)[i] = IF i <= Len(out) THEN out[i] ELSE bs[i - Len(out)]
      BY <1>4, ConcatProperties
    <3>3. Len(out) + 1 \in 1 .. Len(out) + Len(bs) /\ ~(Len(out) + 1 <= Len(out))
          /\ (Len(out) + 1) - Len(out) = 1
      BY <1>4, <2>1
    <3>4. (out \o bs)[Len(out) + 1] = bs[1]
      BY <3>2, <3>3
    <3>5. \A i \in 1 .. Len(out) : i \in 1 .. Len(out) + Len(bs) /\ i <= Len(out)
      BY <1>4
    <3> QED BY <2>1, <3>1, <3>2, <3>4, <3>5
  <2>3. \A i \in DOMAIN out' : out'[i] = i
    <3>1. DOMAIN out' = 1 .. Len(out) + 1 /\ DOMAIN out = 1 .. Len(out)
      BY <1>4, <1>6, <2>2, LenProperties
    <3>2. \A i \in DOMAIN out' : i \in 1 .. Len(out) \/ i = Len(out) + 1
      BY <1>4, <3>1
    <3> QED BY <2>1, <2>2, <3>1, <3>2
  <2>4. Copied' = Copied /\ Taken' = Taken
    <3>1. Len(work) = 0 /\ Copied = Len(out) + Len(bs) + Len(work)
      BY <1>1, <2>1, EmptyIs DEF Copied
    <3>2. Copied' = Len(out')
      BY <1>1 DEF Copied
    <3>3. Copied' = Copied
      BY <1>4, <2>1, <2>2, <3>1, <3>2
    <3>4. at # "submit" /\ at' # "submit"
      BY <1>1
    <3> QED BY <3>3, <3>4 DEF Taken
  <2>5. written' = Len(bs) /\ Len(bs) + Len(work) <= 1
    BY <1>2, <1>5, <2>1 DEF InStream
  <2> QED BY <1>1, <1>2, <2>1, <2>3, <2>4, <2>5 DEF InStream
<1> QED BY <1>2, <1>7, <1>8, <1>9, <1>10, WriterDone

\* A writer empties the buffer when all of it is written.
LEMMA ClearBufferKeeps == ASSUME PInv, ClearBuffer PROVE PInv'
<1>1. /\ Writes /\ UNCHANGED <<ele, peer, eos, text, rest, held>> /\ at = "clear" /\ at' = "return"
      /\ UNCHANGED <<running, pick, pad, faults, content, locked, tasks, work, result, out, closed, written, sent>>
      /\ bs' = IF written = Len(bs) THEN << >> ELSE bs
  BY DEF ClearBuffer, WriterStep, Goes, readerVars, taskVars
<1>2. /\ Writes' /\ PickPlaces = {"submit", "sync", "write", "clear", "return"}
      /\ PickPlaces' = PickPlaces /\ at \in WriterPlaces /\ at # "crashed"
      /\ PTypes /\ Kept /\ Places /\ InStream
      /\ Hand = {pick} /\ pick \in Surfaces
  BY <1>1, WriterIs
<1>3. PTypes'
  <2>1. bs' \in Seq(1 .. MaxFrames)
    BY <1>1, <1>2, EmptySeq DEF PTypes
  <2> QED BY <1>1, <1>2, <2>1 DEF PTypes, WriterPlaces
<1>4. Kept'
  <2>1. Hand' = Hand
    BY <1>1, <1>2 DEF Hand
  <2> QED BY <1>1, <1>2, <2>1, KeptStays
<1>5. Places'
  BY <1>1, <1>2 DEF Places
<1>6. InStream'
  <2> SUFFICES ASSUME ele.stream, faults = 0 PROVE InStream'
    BY <1>1 DEF InStream
  <2>1. work = << >> /\ bs' = << >> /\ ~closed /\ \A i \in DOMAIN out : out[i] = i
    BY <1>1, <1>2 DEF InStream
  <2>2. Len(bs') = 0 /\ Len(work) = 0 /\ Len(out) \in Nat
    BY <1>2, <2>1, CountsAre, EmptyIs
  <2>3. Copied' = Copied /\ Taken' = Taken
    <3>1. Copied' = Len(out) + 0 + 0 /\ Copied = Len(out)
      BY <1>1, <2>2 DEF Copied
    <3>2. at # "submit" /\ at' # "submit"
      BY <1>1
    <3> QED BY <2>2, <3>1, <3>2 DEF Taken
  <2>4. Len(bs') + Len(work) <= 1
    BY <2>2
  <2> QED BY <1>1, <1>2, <2>1, <2>3, <2>4 DEF InStream
<1> QED BY <1>2, <1>3, <1>4, <1>5, <1>6, WriterDone

\* A writer gives its surface back.
LEMMA ReturnToPeerKeeps == ASSUME PInv, ReturnToPeer PROVE PInv'
<1>1. /\ WriterStep /\ at = "return" /\ at' = "get"
      /\ UNCHANGED <<running, pick, pad, faults, content, tasks, work, result, bs, out, closed, written, sent>>
      /\ locked' = IF pick = 0 THEN locked ELSE [locked EXCEPT ![pick] = @ - 1]
  BY DEF ReturnToPeer, ReturnBuf, EOS, Goes, writerVars
<1>2. pick # 0
  <2>1. pick \in Surfaces
    BY <1>1, WriterIs DEF WriterStep, readerVars
  <2> QED BY <2>1 DEF Surfaces
<1> QED BY <1>1, <1>2, WriterReturns

\* A stopped writer gives back what is queued for it.
LEMMA LeaveWriterKeeps == ASSUME PInv, LeaveWriter PROVE PInv'
<1>1. /\ Writes /\ UNCHANGED <<ele, peer, eos, text, rest, held>> /\ at \in {"init", "get"} /\ ~running
      /\ UNCHANGED <<running, pick, faults, content, tasks, work, result, bs, out, closed, written, sent>>
      /\ \/ /\ pad # << >> /\ pad' = Tail(pad) /\ at' = at
            /\ locked' = IF Head(pad) = 0 THEN locked ELSE [locked EXCEPT ![Head(pad)] = @ - 1]
         \/ at' = "gone" /\ UNCHANGED <<pad, locked>>
  BY DEF LeaveWriter, WriterStep, Goes, EOS, readerVars, writerVars
<1>2. /\ Writes' /\ PickPlaces = {"submit", "sync", "write", "clear", "return"}
      /\ PickPlaces' = PickPlaces /\ at \in WriterPlaces /\ at # "crashed"
      /\ PTypes /\ Kept /\ Places /\ InStream /\ Hand = {} /\ MaxSurfaces \in Nat
  BY <1>1, WriterIs
<1>3. Hand' = {} /\ at' \in WriterPlaces /\ InTasks' = InTasks
  BY <1>1, <1>2 DEF Hand, WriterPlaces, InTasks
<1>4. InStream'
  BY <1>1, <1>2 DEF InStream
<1>5. CASE at' = "gone" /\ UNCHANGED <<pad, locked>>
  <2>1. PTypes'
    BY <1>1, <1>2, <1>3, <1>5 DEF PTypes
  <2>2. Kept'
    BY <1>1, <1>2, <1>3, <1>5, KeptStays
  <2>3. Places'
    BY <1>1, <1>2, <1>5 DEF Places
  <2> QED BY <1>2, <1>4, <2>1, <2>2, <2>3, WriterDone
<1>6. CASE /\ pad # << >> /\ pad' = Tail(pad) /\ at' = at
           /\ locked' = IF Head(pad) = 0 THEN locked ELSE [locked EXCEPT ![Head(pad)] = @ - 1]
  <2> DEFINE x == Head(pad)
             S == 0 .. MaxSurfaces
  <2>1. pad \in Seq(S) /\ Apart(pad) /\ pad # << >> /\ pad' = Tail(pad)
    BY <1>2, <1>6 DEF PTypes, Kept
  <2>2. locked' = IF x = 0 THEN locked ELSE [locked EXCEPT ![x] = @ - 1]
    BY <1>6
  <2>3. DOMAIN pad = 1 .. Len(pad)
    BY <2>1, SeqIs
  <2> HIDE DEF S
  <2>4. /\ x \in S /\ pad' \in Seq(S) /\ Len(pad') = Len(pad) - 1 /\ Len(pad) \in Nat \ {0}
        /\ DOMAIN pad' = 1 .. Len(pad) - 1 /\ \A k \in 1 .. Len(pad) - 1 : pad'[k] = pad[k + 1]
        /\ Within(pad) = Within(pad') \cup ({x} \ {0}) /\ Apart(pad') /\ x \notin Within(pad')
    BY <2>1, TakeIs
  <2> HIDE DEF x
  <2>5. Kept' /\ locked' \in [Surfaces -> 0 .. 2] /\ \A u \in Surfaces : locked'[u] # 0 => locked[u] # 0
    <3>1. CASE x = 0
      <4>1. Within(pad') = Within(pad) /\ locked' = locked
        BY <2>2, <2>4, <3>1
      <4>2. Kept'
        BY <1>1, <1>2, <1>3, <2>4, <4>1, PassedOn DEF Kept
      <4> QED BY <1>2, <4>1, <4>2 DEF PTypes
    <3>2. CASE x # 0
      <4>1. x \in Surfaces /\ x \in Within(pad) /\ Within(pad') = Within(pad) \ {x} /\ x \notin held
        BY <1>2, <2>4, <3>2 DEF S, Surfaces, Kept
      <4>2. locked' = [locked EXCEPT ![x] = @ - 1] /\ held' = held /\ tasks' = tasks /\ work' = work
        BY <1>1, <2>2, <3>2
      <4>3. /\ x \in Within(pad) \cup held \cup Hand /\ Apart(pad') /\ Within(pad') \subseteq Within(pad)
            /\ held' \subseteq held /\ Hand' \subseteq Hand
            /\ Within(pad') \cup held' \cup Hand' = (Within(pad) \cup held \cup Hand) \ {x}
        BY <1>2, <1>3, <2>4, <4>1, <4>2
      <4>4. /\ Kept' /\ locked' \in [Surfaces -> 0 .. 2] /\ locked[x] # 0
            /\ \A u \in Surfaces : u # x => locked'[u] = locked[u]
        BY <1>2, <4>1, <4>2, <4>3, GivenBack
      <4> QED BY <4>4
    <3> QED BY <3>1, <3>2
  <2>6. PTypes'
    <3>1. Len(pad') <= PadSize /\ pad' \in Seq(0 .. MaxSurfaces)
      BY <1>2, <2>4, OverlayBounds DEF PTypes, S
    <3>2. \A u \in Surfaces : locked'[u] # 0 => content'[u] \in 1 .. MaxFrames
      BY <1>1, <1>2, <2>5 DEF PTypes
    <3> QED BY <1>1, <1>2, <1>6, <2>5, <3>1, <3>2 DEF PTypes
  <2>7. Places'
    <3>1. \A i \in DOMAIN pad' : pad'[i] = 0 => i = Len(pad') /\ peer = "left"
      <4>1. ASSUME NEW i \in DOMAIN pad', pad'[i] = 0 PROVE i + 1 = Len(pad) /\ peer = "left"
        <5>1. i + 1 \in DOMAIN pad /\ pad[i + 1] = 0
          BY <2>3, <2>4, <4>1
        <5> QED BY <1>1, <1>2, <5>1 DEF Places
      <4> QED BY <2>4, <4>1
    <3> QED BY <1>1, <1>2, <1>6, <3>1 DEF Places
  <2> QED BY <1>2, <1>4, <2>5, <2>6, <2>7, WriterDone
<1> QED BY <1>1, <1>5, <1>6

\* Stop of an element.
LEMMA StopKeeps == ASSUME PInv, Stop PROVE PInv'
<1>1. /\ running /\ running' = FALSE
      /\ UNCHANGED <<ele, at, pick, pad, peer, faults, eos, text, rest, held, bs, out, closed, written,
                     sent, content, locked, tasks, work, result>>
  BY DEF Stop, readerVars, writerVars, taskVars
<1>2. Writes' = Writes /\ PickPlaces' = PickPlaces /\ Hand' = Hand /\ Loaded' = Loaded /\ InTasks' = InTasks
      /\ Copied' = Copied /\ Taken' = Taken
  BY <1>1 DEF Writes, PickPlaces, Hand, Loaded, InTasks, Copied, Taken
<1>3. PTypes'
  BY <1>1, <1>2 DEF PInv, PTypes
<1>4. Kept'
  BY <1>1, <1>2, KeptStays DEF PInv
<1>5. Places'
  BY <1>1, <1>2 DEF PInv, Places
<1>6. FramesInOrder' /\ TextLasts'
  BY <1>1, <1>2 DEF PInv, FramesInOrder, TextLasts
<1>7. InStream'
  BY <1>1, <1>2 DEF PInv, InStream
<1> QED BY <1>3, <1>4, <1>5, <1>6, <1>7 DEF PInv

\* Nothing changes.
LEMMA StutterKeeps == ASSUME PInv, UNCHANGED overlayVars PROVE PInv'
<1>1. UNCHANGED <<ele, at, running, pick, pad, peer, faults, eos, text, rest, held, bs, out, closed,
                  written, sent, content, locked, tasks, work, result>>
  BY DEF overlayVars, readerVars, writerVars, taskVars
<1>2. Writes' = Writes /\ PickPlaces' = PickPlaces /\ Hand' = Hand /\ Loaded' = Loaded /\ InTasks' = InTasks
      /\ Copied' = Copied /\ Taken' = Taken
  BY <1>1 DEF Writes, PickPlaces, Hand, Loaded, InTasks, Copied, Taken
<1>3. PTypes'
  BY <1>1, <1>2 DEF PInv, PTypes
<1>4. Kept'
  BY <1>1, <1>2, KeptStays DEF PInv
<1>5. Places' /\ FramesInOrder' /\ TextLasts'
  BY <1>1, <1>2 DEF PInv, Places, FramesInOrder, TextLasts
<1>6. InStream'
  BY <1>1, <1>2 DEF PInv, InStream
<1> QED BY <1>3, <1>4, <1>5, <1>6 DEF PInv

\* The invariant holds at first ...
LEMMA OverlaysStart == ASSUME OverlayInit PROVE PInv
<1>1. /\ ele \in Overlays /\ at = "init" /\ running = TRUE /\ eos = FALSE /\ text = FALSE
      /\ rest = IF ele.kind = "yuv" THEN ele.frames ELSE 0
      /\ content = [s \in Surfaces |-> 0] /\ locked = [s \in Surfaces |-> 0]
      /\ tasks = [t \in Tasks |-> 0] /\ work = << >> /\ result = "none" /\ pick = 0 /\ pad = << >>
      /\ held = {} /\ peer = "running" /\ bs = << >> /\ out = << >> /\ closed = FALSE /\ written = 0
      /\ sent = 0 /\ faults = 0
  BY DEF OverlayInit, None
<1>2. /\ MaxSurfaces \in Nat /\ PadSize \in Nat /\ MaxFrames \in Nat /\ MaxFaults \in Nat
      /\ rest \in Nat /\ (ele.kind = "yuv" => rest <= ele.frames)
  BY <1>1, OverlayBounds, OverlayShapes
<1>3. Within(<< >>) = {} /\ Apart(<< >>) /\ Len(<< >>) = 0 /\ DOMAIN << >> = {}
  BY EmptyIs, EmptySeq
<1>4. InTasks = {} /\ Hand = {} /\ Apart(tasks) /\ \A t \in Tasks : ~Busy(t)
  BY <1>1 DEF InTasks, Hand, Apart, Busy, None
<1>5. PTypes
  <2>1. pad \in Seq(0 .. MaxSurfaces) /\ work \in Seq(Tasks) /\ bs \in Seq(1 .. MaxFrames)
        /\ out \in Seq(1 .. MaxFrames)
    BY <1>1, EmptySeq
  <2>2. at \in IF Writes THEN WriterPlaces ELSE ReaderPlaces
    BY <1>1 DEF WriterPlaces, ReaderPlaces
  <2>3. content \in [Surfaces -> Nat] /\ locked \in [Surfaces -> 0 .. 2]
    BY <1>1
  <2>4. tasks \in [Tasks -> 0 .. MaxSurfaces] /\ pick \in 0 .. MaxSurfaces
    BY <1>1, <1>2
  <2>5. \A s \in Surfaces : locked[s] = 0
    BY <1>1
  <2>6. Len(pad) <= PadSize /\ written \in Nat /\ sent \in 0 .. MaxFrames /\ faults \in 0 .. MaxFaults
    BY <1>1, <1>2, <1>3
  <2>7. {running, eos, text, closed} \subseteq BOOLEAN /\ held \subseteq Surfaces
        /\ peer \in {"running", "left"} /\ result \in {"none", "waiting", "done", "failed"}
    BY <1>1
  <2> QED BY <1>1, <1>2, <2>1, <2>2, <2>3, <2>4, <2>5, <2>6, <2>7 DEF PTypes
<1>6. Kept
  BY <1>1, <1>3, <1>4 DEF Kept, One
<1>7. Places
  BY <1>1, <1>3 DEF Places, PickPlaces
<1>8. FramesInOrder /\ TextLasts
  BY <1>1, <1>3 DEF FramesInOrder, TextLasts
<1>9. InStream
  <2>1. Taken = 0
    <3>1. Copied = 0
      BY <1>1, <1>3 DEF Copied
    <3> QED BY <1>1, <3>1 DEF Taken, One
  <2> QED BY <1>1, <1>3, <2>1 DEF InStream
<1> QED BY <1>5, <1>6, <1>7, <1>8, <1>9 DEF PInv

\* ... and every step keeps it.
LEMMA OverlaysKeepOn == ASSUME PInv, OverlayNext \/ UNCHANGED overlayVars PROVE PInv'
BY ExecuteKeeps, InitDecoderKeeps, PickSurfaceKeeps, ProcessFrameKeeps, SyncReaderKeeps,
   PushToPeerKeeps, LeaveReaderKeeps, PeerTakesKeeps, PeerReturnsKeeps, PeerLeavesKeeps,
   InitEncoderKeeps, GetBufDataKeeps, SubmitWriterKeeps, SyncWriterKeeps, WriteBlockKeeps,
   ClearBufferKeeps, ReturnToPeerKeeps, LeaveWriterKeeps, FeedWriterKeeps, StopKeeps, StutterKeeps
   DEF OverlayNext, ReaderThread, WriterThread

-----------------------------------------------------------------------------
(* What follows for the elements without a codec. *)

\* The lock of each surface is the number of its holders.
LEMMA LocksAreCounted == ASSUME PInv PROVE LocksCount
<1> SUFFICES ASSUME at # "crashed", NEW s \in Surfaces PROVE locked[s] = Holders(s)
  BY DEF LocksCount
<1>1. PTypes /\ Kept /\ Places /\ s # 0
  BY DEF PInv, Surfaces
<1>2. Cardinality({t \in Tasks : tasks[t] = s}) = One(s \in InTasks)
  <2>1. DOMAIN tasks = Tasks /\ Within(tasks) = InTasks /\ Apart(tasks)
    BY <1>1, TasksAre DEF Kept
  <2>2. Cardinality({t \in DOMAIN tasks : tasks[t] = s}) = One(s \in Within(tasks))
    BY <1>1, <2>1, TimesIn
  <2> QED BY <2>1, <2>2
<1>3. Cardinality({i \in DOMAIN pad : pad[i] = s}) = One(s \in Within(pad))
  BY <1>1, TimesIn DEF Kept
<1>4. (pick = s /\ at \in {"sync", "push", "put"} \cup
                         (IF Writes THEN {"submit", "write", "clear", "return"} ELSE {})) <=> s \in Hand
  <2>1. at \in IF Writes THEN WriterPlaces ELSE ReaderPlaces
    BY <1>1 DEF PTypes
  <2> QED BY <1>1, <2>1 DEF Hand, PickPlaces, WriterPlaces, ReaderPlaces
<1>5. locked[s] = One(s \in InTasks) + One(s \in Within(pad) \cup held \cup Hand)
  BY <1>1 DEF Kept
<1>6. Within(pad) \cap held = {} /\ Within(pad) \cap Hand = {} /\ held \cap Hand = {}
  BY <1>1 DEF Kept
<1>7. Holders(s) = One(s \in InTasks) + One(s \in Within(pad)) + One(s \in held) + One(s \in Hand)
  BY <1>2, <1>3, <1>4 DEF Holders, One
<1>8. One(s \in Within(pad) \cup held \cup Hand) = One(s \in Within(pad)) + One(s \in held) + One(s \in Hand)
  BY <1>6 DEF One
<1> QED BY <1>5, <1>7, <1>8 DEF One

\* Nobody else has the surface of a task still to run.
LEMMA TasksStayAlone == ASSUME PInv PROVE TasksAreAlone
<1>1. PTypes /\ Kept /\ Places
  BY DEF PInv
<1>2. /\ DOMAIN tasks = Tasks /\ Tasks = {1, 2} /\ Within(tasks) = InTasks /\ Within(work) \subseteq Tasks
      /\ DOMAIN work = 1 .. Len(work) /\ Len(work) \in Nat
      /\ work = << >> => InTasks = {}
  BY <1>1, TasksAre
<1>3. \A t \in Tasks : Busy(t) => tasks[t] \in InTasks /\ tasks[t] # 0
  BY DEF Busy, None, InTasks
<1>4. \A t, u \in Tasks : Busy(t) /\ tasks[t] = tasks[u] => t = u
  BY <1>1, <1>2, <1>3 DEF Kept, Apart
<1>5. ASSUME ~Writes, NEW t \in Tasks, Busy(t)
      PROVE  tasks[t] \notin held \cup Range(pad) \cup (IF at \in {"push", "put"} THEN {pick} ELSE {})
  <2>1. tasks[t] \notin held /\ tasks[t] \notin Within(pad)
    BY <1>1, <1>3, <1>5 DEF Kept
  <2>2. tasks[t] \notin Range(pad)
    BY <1>3, <1>5, <2>1 DEF Range, Within
  <2>3. at \notin {"push", "put"}
    BY <1>1, <1>2, <1>3, <1>5 DEF Places
  <2> QED BY <2>1, <2>2, <2>3
<1>6. AllBusy => faults > 0
  <2> SUFFICES ASSUME AllBusy, faults = 0 PROVE FALSE
    BY <1>1, OverlayBounds DEF PTypes
  <2>1. Len(work) <= 1 /\ 1 \in Within(work) /\ 2 \in Within(work)
    BY <1>1, <1>2 DEF AllBusy, Kept, Places
  <2>2. DOMAIN work \subseteq {1}
    BY <1>2, <2>1
  <2> QED BY <2>1, <2>2 DEF Within
<1> QED BY <1>4, <1>5, <1>6 DEF TasksAreAlone

\* The first numbers, and the next one.
LEMMA NextOne ==
  ASSUME NEW q \in Seq(Nat), NEW r \in Seq(Nat), \A i \in DOMAIN q : q[i] = i, Len(r) <= 1,
         r # << >> => r[1] = Len(q) + 1
  PROVE  LET all == q \o r IN all = [i \in 1 .. Len(all) |-> i]
<1> DEFINE all == q \o r
           n == Len(q)
           m == Len(r)
<1>1. n \in Nat /\ DOMAIN q = 1 .. n /\ m \in Nat /\ m <= 1 /\ (m = 1 => r[1] = n + 1)
  <2>1. n \in Nat /\ DOMAIN q = 1 .. n
    BY SeqIs
  <2>2. m \in Nat
    BY SeqIs
  <2>3. r = << >> => m = 0
    BY EmptyIs
  <2>4. m <= 1 /\ (r # << >> => r[1] = n + 1)
    OBVIOUS
  <2> QED BY <2>1, <2>2, <2>3, <2>4
<1>2. /\ all \in Seq(Nat) /\ Len(all) = n + m
      /\ \A i \in 1 .. n + m : all[i] = IF i <= n THEN q[i] ELSE r[i - n]
  BY ConcatProperties
<1>3. DOMAIN all = 1 .. Len(all) /\ all = [i \in DOMAIN all |-> all[i]]
  BY <1>2, LenProperties, SeqDef
<1>4. \A i \in 1 .. n : q[i] = i
  BY <1>1
<1> HIDE DEF all, n, m
<1>5. ASSUME NEW i \in 1 .. Len(all) PROVE all[i] = i
  <2>1. i \in 1 .. n + m
    BY <1>2, <1>5
  <2>2. CASE i <= n
    <3>1. i \in 1 .. n
      BY <1>1, <2>1, <2>2
    <3> QED BY <1>2, <1>4, <2>1, <2>2, <3>1
  <2>3. CASE ~(i <= n)
    <3>1. i = n + 1 /\ m = 1 /\ i - n = 1
      BY <1>1, <2>1, <2>3
    <3>2. all[i] = r[i - n]
      BY <1>2, <2>1, <2>3
    <3>3. r[i - n] = r[1]
      BY <3>1
    <3> QED BY <1>1, <3>1, <3>2, <3>3
  <2> QED BY <2>2, <2>3
<1>6. all = [i \in 1 .. Len(all) |-> i]
  BY <1>3, <1>5
<1> QED BY <1>6 DEF all

\* Without a fault the writer writes the frames it took, once and in order.
LEMMA FramesAreWritten == ASSUME PInv PROVE WriterKeepsOrder
<1> SUFFICES ASSUME Writes, ele.stream, faults = 0 PROVE WriterKeepsOrder
  BY DEF WriterKeepsOrder
<1>1. PTypes /\ Kept /\ Places /\ InStream
  BY DEF PInv
<1>2. out \in Seq(Nat) /\ bs \in Seq(Nat) /\ \A i \in DOMAIN out : out[i] = i
  <2>1. ASSUME NEW q \in Seq(1 .. MaxFrames) PROVE q \in Seq(Nat)
    <3>1. q \in [1 .. Len(q) -> 1 .. MaxFrames] /\ Len(q) \in Nat
      BY LenProperties, SeqDef
    <3>2. q \in [1 .. Len(q) -> Nat]
      BY <3>1
    <3> QED BY <3>1, <3>2, SeqDef
  <2> QED BY <1>1, <2>1 DEF PTypes, InStream
<1>3. /\ DOMAIN work = 1 .. Len(work) /\ Len(work) \in Nat
      /\ \A i \in DOMAIN work : content[tasks[work[i]]] \in Nat
  BY <1>1, TasksAre DEF PTypes
<1>4. Pending \in Seq(Nat) /\ Len(Pending) = Len(work) /\ \A i \in DOMAIN work : Pending[i] = content[tasks[work[i]]]
  <2>1. Pending \in [1 .. Len(work) -> Nat]
    BY <1>3 DEF Pending
  <2>2. Pending \in Seq(Nat)
    BY <1>3, <2>1, SeqDef
  <2>3. Len(Pending) = Len(work)
    BY <1>3, <2>1, <2>2, LenProperties
  <2> QED BY <2>2, <2>3 DEF Pending
<1>5. Len(bs) + Len(work) <= 1 /\ Len(bs) \in Nat /\ Len(out) \in Nat
  BY <1>1, CountsAre DEF InStream
<1> DEFINE head == IF at = "clear" THEN out ELSE out \o bs
           all == head \o Pending
<1>6. all = [i \in 1 .. Len(all) |-> i]
  <2>1. CASE at = "clear" \/ Len(bs) = 0
    <3>1. head = out
      <4>1. CASE Len(bs) = 0
        <5>1. bs = << >>
          BY <1>2, <4>1, EmptySeq
        <5>2. out \o bs = out
          BY <1>2, <5>1, ConcatEmptySeq
        <5> QED BY <5>2
      <4> QED BY <2>1, <4>1
    <3>2. at = "clear" => work = << >>
      BY <1>1 DEF InStream
    <3>3. Pending # << >> => Pending[1] = Len(out) + 1
      <4>1. Pending # << >> => Len(work) # 0 /\ work # << >> /\ 1 \in DOMAIN work
        BY <1>3, <1>4, EmptySeq
      <4>2. at # "clear" /\ work # << >> => content[tasks[work[1]]] = Len(out) + 1
        BY <1>1 DEF InStream
      <4> QED BY <1>4, <3>2, <4>1, <4>2
    <3>4. Len(Pending) <= 1
      BY <1>3, <1>4, <1>5
    <3>5. out \o Pending = [i \in 1 .. Len(out \o Pending) |-> i]
      BY <1>2, <1>4, <3>3, <3>4, NextOne
    <3> QED BY <3>1, <3>5
  <2>2. CASE at # "clear" /\ Len(bs) # 0
    <3>1. Len(work) = 0 /\ Len(bs) <= 1 /\ bs # << >>
      BY <1>3, <1>5, <2>2, EmptyIs
    <3>2. Pending = << >>
      BY <1>4, <3>1, EmptySeq
    <3>3. all = out \o bs
      <4>1. out \o bs \in Seq(Nat)
        BY <1>2, ConcatProperties
      <4> QED BY <2>2, <3>2, <4>1, ConcatEmptySeq
    <3>4. bs[1] = Len(out) + 1
      BY <1>1, <2>2, <3>1 DEF InStream
    <3>5. out \o bs = [i \in 1 .. Len(out \o bs) |-> i]
      BY <1>2, <3>1, <3>4, NextOne
    <3> HIDE DEF all
    <3> QED BY <3>3, <3>5
  <2> QED BY <2>1, <2>2
<1>7. running => Len(bs) <= 1
  BY <1>3, <1>5
<1>8. closed => out = [i \in 1 .. sent |-> i]
  <2>1. closed => sent = Len(out)
    BY <1>1 DEF InStream
  <2>2. DOMAIN out = 1 .. Len(out) /\ out = [i \in DOMAIN out |-> out[i]]
    BY <1>2, LenProperties, SeqDef
  <2>3. out = [i \in 1 .. Len(out) |-> i]
    BY <1>2, <2>2
  <2> QED BY <2>1, <2>3
<1> QED BY <1>6, <1>7, <1>8 DEF WriterKeepsOrder

\* What UploadToSurface takes of a picture of h rows is there.
LEMMA RowsAreThere ==
  ASSUME NEW w \in Nat, NEW h \in Nat
  PROVE  w * (h + h \div 2) <= (w * h * 3) \div 2
<1>1. PICK k \in Nat : h = 2 * k \/ h = 2 * k + 1
  <2>1. h \div 2 \in Nat /\ (h = 2 * (h \div 2) \/ h = 2 * (h \div 2) + 1)
    OBVIOUS
  <2> QED BY <2>1
<1> DEFINE p == w * k
<1>2. p \in Nat
  OBVIOUS
<1>3. CASE h = 2 * k
  <2>1. h \div 2 = k /\ h + h \div 2 = 3 * k
    BY <1>3
  <2>2. w * (3 * k) = 3 * p /\ w * (2 * k) * 3 = 6 * p
    OBVIOUS
  <2>3. (6 * p) \div 2 = 3 * p
    <3> HIDE DEF p
    <3> QED BY <1>2
  <2> QED BY <1>2, <1>3, <2>1, <2>2, <2>3
<1>4. CASE h = 2 * k + 1
  <2>1. h \div 2 = k /\ h + h \div 2 = 3 * k + 1
    BY <1>4
  <2>2. w * (3 * k + 1) = 3 * p + w /\ w * (2 * k + 1) * 3 = 6 * p + 3 * w
    OBVIOUS
  <2>3. (6 * p + 3 * w) \div 2 >= 3 * p + w
    <3> HIDE DEF p
    <3> QED BY <1>2
  <2> QED BY <1>2, <1>4, <2>1, <2>2, <2>3
<1> QED BY <1>1, <1>3, <1>4

\* The text lasts, and an upload copies no more than was converted.
LEMMA InputsLast == ASSUME PInv PROVE InputLasts
<1>1. at = "crashed" => ele.kind = "string" /\ ele.black
  BY DEF PInv, TextLasts
<1>2. ele \in Overlays
  BY DEF PInv, PTypes
<1> DEFINE w == FrameOf.w
           h == FrameOf.h
<1>3. CASE ele.kind = "picture"
  <2>1. w \in Nat /\ h \in Nat
    BY <1>2, <1>3, OverlayShapes DEF FrameOf
  <2>2. Uploaded = w * (h + h \div 2) /\ Converted = (w * h * 3) \div 2
    BY <1>3 DEF Uploaded, Converted
  <2> HIDE DEF w, h
  <2> QED BY <1>1, <1>3, <2>1, <2>2, RowsAreThere DEF InputLasts
<1>4. CASE ele.kind = "string" /\ h % 16 = 0
  <2>1. w \in Nat /\ h \in Nat
    <3>1. ele.plsize \in Nat /\ RenderString(ele).w \in Nat
      BY <1>2, <1>4, OverlayShapes
    <3>2. RenderString(ele).h = ele.plsize + ele.plsize \div 4
      BY DEF RenderString
    <3>3. FrameOf = RenderString(ele)
      BY <1>4 DEF FrameOf
    <3>4. ele.plsize + ele.plsize \div 4 \in Nat
      BY <3>1
    <3> QED BY <3>1, <3>2, <3>3, <3>4
  <2>2. /\ Uploaded = w * (h + RoundUp(h, 16) \div 2) + (RoundUp(h, 16) - h) * w
        /\ Converted = (w * h * 3) \div 2
    BY <1>4 DEF Uploaded, Converted
  <2> HIDE DEF w, h
  <2>3. RoundUp(h, 16) = h
    BY <1>4, <2>1 DEF RoundUp
  <2>4. (h - h) * w = 0 /\ w * (h + h \div 2) \in Nat
    <3>1. h - h = 0 /\ h \div 2 \in Nat
      BY <2>1
    <3> QED BY <2>1, <3>1
  <2>5. Uploaded = w * (h + h \div 2)
    BY <2>2, <2>3, <2>4
  <2>6. w * (h + h \div 2) <= (w * h * 3) \div 2
    BY <2>1, RowsAreThere
  <2> QED BY <1>1, <2>2, <2>5, <2>6 DEF InputLasts
<1> QED BY <1>1, <1>3, <1>4 DEF InputLasts

\* The safety property of the elements without a codec follows from PInv ...
LEMMA OverlaysAreKept == ASSUME PInv PROVE OverlaysKeepSurfaces
<1>1. FramesKeepOrder
  BY DEF PInv, FramesInOrder, FramesKeepOrder, EOS
<1> QED BY <1>1, LocksAreCounted, TasksStayAlone, FramesAreWritten, InputsLast DEF OverlaysKeepSurfaces

\* ... and so do the types.
LEMMA PluginsAreTyped == ASSUME PInv PROVE PluginTypeOK
<1>1. PTypes /\ Kept
  BY DEF PInv
<1>2. /\ {running, eos, text, closed} \subseteq BOOLEAN /\ ele \in Overlays
      /\ at \in WriterPlaces \/ at \in ReaderPlaces
      /\ rest \in Nat /\ written \in Nat /\ held \subseteq Surfaces /\ peer \in {"running", "left"}
      /\ sent \in 0 .. MaxFrames /\ faults \in 0 .. MaxFaults
      /\ result \in {"none", "waiting", "done", "failed"} /\ Len(pad) <= PadSize
  BY <1>1 DEF PTypes
<1>3. \A s \in Surfaces : content[s] \in Nat /\ locked[s] \in 0 .. 4
  BY <1>1 DEF PTypes
<1>4. 0 .. MaxSurfaces = {0} \cup Surfaces
  BY OverlayBounds DEF Surfaces
<1>5. tasks \in [Tasks -> {None} \cup Surfaces] /\ pick \in {None} \cup Surfaces
  BY <1>1, <1>4 DEF PTypes, None
<1>6. Range(work) \subseteq Tasks
  BY <1>1, SeqIs DEF PTypes, Range
<1>7. Range(pad) \subseteq {EOS} \cup Surfaces
  BY <1>1, <1>4, SeqIs DEF PTypes, Range, EOS
<1>8. Range(bs \o out) \subseteq 1 .. MaxFrames
  <2> DEFINE S == 1 .. MaxFrames
  <2>1. bs \in Seq(S) /\ out \in Seq(S)
    BY <1>1 DEF PTypes
  <2> HIDE DEF S
  <2>2. bs \o out \in Seq(S)
    BY <2>1, ConcatProperties
  <2>3. Range(bs \o out) \subseteq S
    BY <2>2, SeqIs DEF Range
  <2> QED BY <2>3 DEF S
<1> QED BY <1>2, <1>3, <1>5, <1>6, <1>7, <1>8 DEF PluginTypeOK, WriterPlaces, ReaderPlaces

-----------------------------------------------------------------------------
(* The threads: the invariant. *)

Decoder == <<"decoder", 0>>
Encoder == <<"encoder", 0>>

\* The calls under way, the one on top last.
Depth == Len(stack)
Who(d) == CallOf(stack[d]).on
What(d) == CallOf(stack[d]).op
Pc(d) == stack[d].pc

RunLength == 2 * NSinks + 8
StopLength == NSinks + 5
Past(f) == f.fn = "run" /\ f.at > RunLength
Frames == [fn : {"run", "stop"}, at : Nat \ {0}, pc : PCs]
Ops == {"join", "stop", "wait", "close", "sinksRun?", "sinksStopped"}
Cuts == [op : Ops, on : AllThreads, pc : PCs]

\* Run at the bottom and a Stop for each signal above it, each in a call that it
\* makes, at a place of that call. Signals come only in Launcher::Run.
Shape ==
  /\ stack \in Seq(Frames) /\ Depth >= 1
  /\ cut \in Seq(Cuts) /\ Depth <= Len(cut) + 1 /\ Len(cut) <= MaxSignals
  /\ \A d \in 1 .. Depth :
       /\ stack[d].fn = IF d = 1 THEN "run" ELSE "stop"
       /\ stack[d].fn = "stop" => stack[d].at <= StopLength
       /\ Past(stack[d]) => Depth = 1 /\ Pc(d) = "call" /\ stack[d].at = RunLength + 1
       /\ ~Past(stack[d]) =>
            /\ Pc(d) \in {"count", "waited"} \cup Waiting => What(d) \in {"wait", "close"}
            /\ Pc(d) = "closed" => What(d) = "close"
            /\ Pc(d) \in Joining => What(d) \in {"join", "stop", "wait", "close"}
  /\ Depth > 1 => stack[1].at <= NSinks + 3

\* The calls below the top one are where a signal found them.
Interrupted ==
  \A d \in 1 .. Depth - 1 : [op |-> What(d), on |-> Who(d), pc |-> Pc(d)] \in Signals

\* Types.
Ranges ==
  /\ pthread \in [AllThreads -> {"run", "returned", "exited"}] /\ told \subseteq AllThreads
  /\ joined \in [AllThreads -> {"no", "joining", "yes"}]
  /\ created \in [Elements -> BOOLEAN]
  /\ xc \in [XCThreads -> [event : BOOLEAN, waits : Nat, valid : BOOLEAN,
              locked : BOOLEAN, exists : BOOLEAN, known : BOOLEAN]]
  /\ pipeline \subseteq Sinks /\ sinksRun \in BOOLEAN /\ harm \subseteq Harms

\* The calls that are at one of pcs with thread t.
Users(t, pcs) == {d \in 1 .. Depth : Pc(d) \in pcs /\ Who(d) = t}

\* m_WaitCount and m_Mutex, by the calls; a call that joins is alone.
Waits ==
  \A t \in XCThreads :
    /\ xc[t].waits = Cardinality(Users(t, Waiting))
    /\ xc[t].locked <=> Users(t, Joining) # {}
    /\ xc[t].locked => Users(t, Waiting) = {}
    /\ \A d, e \in Users(t, Joining) : d = e

\* What the flags of a thread say about its pthread.
Joins ==
  /\ \A t \in AllThreads :
       /\ joined[t] = "joining" <=> Users(t, {"joining"}) # {}
       /\ \A d, e \in Users(t, {"joining"}) : d = e
       /\ joined[t] = "yes" => pthread[t] = "exited"
  /\ \A t \in XCThreads :
       /\ xc[t].event => pthread[t] = "exited"
       /\ ~xc[t].valid => joined[t] = "yes"
       /\ joined[t] = "yes" => ~xc[t].valid \/ xc[t].locked
       /\ Users(t, {"joined"}) # {} => joined[t] = "yes"
  /\ \A t \in Elements :
       Users(t, {"joined"}) # {} \/ ~created[t] => joined[t] # "no"

\* An XC::Thread goes only after its pthread was joined.
Objects ==
  /\ \A t \in XCThreads : /\ xc[t].exists = xc[t].known
                          /\ ~xc[t].exists => joined[t] = "yes"
  /\ xc[Reader].exists
  /\ ~xc[Log].exists => stack[1].at > NSinks + 3

\* A call that has left Wait left a joined thread, or an outer call that is still
\* to join it.
Leaving ==
  \A t \in XCThreads :
    /\ Users(t, {"last?"}) # {} => xc[t].event \/ Spurious
    /\ \A d \in Users(t, {"waited", "closed"}) :
         joined[t] = "yes" \/ ((xc[t].event \/ Spurious) /\ \E e \in Users(t, Waiting) : e < d)

\* What main has passed in Launcher::Run is joined, and a sink that was joined
\* but not deleted is passed, or some call is still with it.
Passed ==
  /\ stack[1].at > 1 => joined[Decoder] = "yes"
  /\ stack[1].at > 2 => joined[Encoder] = "yes"
  /\ \A i \in Sinks : stack[1].at > 2 + i => joined[Sink(i)] = "yes"
  /\ stack[1].at > NSinks + 3 => joined[Log] = "yes"
  /\ stack[1].at > RunLength => joined[Reader] = "yes"
  /\ \A i \in Sinks : joined[Sink(i)] = "yes" /\ xc[Sink(i)].exists =>
       stack[1].at > 2 + i \/ Users(Sink(i), Joining \cup {"waited", "closed"}) # {}

\* Whether a signal came where it should not.
FlagsCut == \E c \in Signals : CutFlag(c)
SinksCut == \E c \in Signals : CutSinks(c)
ReaderCut == \E c \in Signals : CutReader(c)

\* If no signal cut the test of a flag from what follows, the flags are up to date.
FlagsHold == ~FlagsCut /\ harm = {} =>
  /\ \A t \in Elements : joined[t] = "yes" /\ created[t] => Top.pc = "joined" /\ On = t
  /\ Top.pc = "join" /\ On \in Elements => created[On]
  /\ \A t \in XCThreads : Users(t, {"join"} \cup Waiting) # {} => joined[t] = "no"
  /\ Top.pc = "count" /\ Op = "close" => xc[On].valid

\* SinkWrap::Stop begins behind this call of the frame on top ...
BeforeSinks == IF Top.fn = "run" THEN NSinks + 6 ELSE 4
\* ... and the frame on top is in it.
InSinks == Top.at > BeforeSinks /\ Top.at <= BeforeSinks + NSinks + 1
\* If no signal cut SinkWrap::Stop, it is under way in the frame on top only.
Regions == ~SinksCut /\ harm = {} =>
  /\ InSinks => sinksRun /\ \A i \in Sinks : BeforeSinks + i >= Top.at => i \in pipeline
  /\ ~InSinks => ~sinksRun \/ pipeline = Sinks
  /\ Top.pc = "count" => xc[On].exists

\* What happened is what signals explain.
Harmed ==
  /\ "joined twice" \in harm => FlagsCut
  /\ harm \cap {"used", "deleted in use"} # {} => SinksCut \/ ReaderCut

\* All of it.
TInv == /\ Shape /\ Interrupted /\ Ranges /\ Waits /\ Joins /\ Objects /\ Leaving /\ Passed
        /\ FlagsHold /\ Regions /\ Harmed

-----------------------------------------------------------------------------
(* The calls of the main thread. *)

\* The threads have names of their own.
LEMMA NamesAre ==
  /\ Elements = {Decoder, Encoder} /\ Decoder # Encoder
  /\ Reader # Log /\ Reader \in XCThreads /\ Log \in XCThreads
  /\ Elements \cap XCThreads = {} /\ AllThreads = XCThreads \cup Elements
  /\ \A i \in Sinks : Sink(i) \in XCThreads /\ Sink(i) # Reader /\ Sink(i) # Log
  /\ \A i, j \in Sinks : Sink(i) = Sink(j) => i = j
  /\ \A t \in XCThreads : t = Reader \/ t = Log \/ \E i \in Sinks : t = Sink(i)
<1>1. /\ \A i : Sink(i)[1] = "sink" /\ Sink(i)[2] = i
      /\ Reader[1] = "reader" /\ Log[1] = "log" /\ Decoder[1] = "decoder" /\ Encoder[1] = "encoder"
  BY DEF Sink, Reader, Log, Decoder, Encoder
<1>2. Elements = {Decoder, Encoder}
  BY DEF Elements, Decoder, Encoder
<1>3. XCThreads = {Reader, Log} \cup {Sink(i) : i \in Sinks} /\ AllThreads = XCThreads \cup Elements
  BY DEF XCThreads, AllThreads
<1> QED BY <1>1, <1>2, <1>3

\* What MsdkXcoder::Stop and SinkWrap::Stop call.
LEMMA StopsAre ==
  /\ StopElements(<<"decoder", "encoder">>) = <<Call("stop", Decoder), Call("stop", Encoder)>>
  /\ StopElements(<<"encoder", "decoder">>) = <<Call("stop", Encoder), Call("stop", Decoder)>>
<1>1. DOMAIN <<"decoder", "encoder">> = 1 .. 2 /\ DOMAIN <<"encoder", "decoder">> = 1 .. 2
  OBVIOUS
<1>2. \A f : f = [i \in 1 .. 2 |-> f[i]] => f = <<f[1], f[2]>>
  OBVIOUS
<1> QED BY <1>1, <1>2 DEF StopElements, Decoder, Encoder

\* SinkWrap::Stop: whether it has been done, a Close for each sink, and that it is done.
LEMMA StopSinksIs ==
  /\ StopSinks \in Seq([op : Ops, on : AllThreads]) /\ Len(StopSinks) = NSinks + 2
  /\ StopSinks[1] = Call("sinksRun?", Reader) /\ StopSinks[NSinks + 2] = Call("sinksStopped", Reader)
  /\ \A i \in Sinks : StopSinks[1 + i] = Call("close", Sink(i))
<1> DEFINE S == [op : Ops, on : AllThreads]
           a == <<Call("sinksRun?", Reader)>>
           b == [i \in Sinks |-> Call("close", Sink(i))]
           c == <<Call("sinksStopped", Reader)>>
<1>1. Call("sinksRun?", Reader) \in S /\ Call("sinksStopped", Reader) \in S /\
      \A i \in Sinks : Call("close", Sink(i)) \in S
  <2>1. AllThreads = XCThreads \cup Elements /\ Elements = {Decoder, Encoder}
    BY NamesAre
  <2>2. Reader \in AllThreads /\ \A i \in Sinks : Sink(i) \in AllThreads
    BY <2>1, NamesAre
  <2>3. Decoder \in AllThreads /\ Encoder \in AllThreads
    BY <2>1
  <2> QED BY <2>2, <2>3 DEF Call, Ops
<1>2. NSinks \in Nat \ {0}
  BY ThreadsAssumption
<1> HIDE DEF S
<1>3. a \in Seq(S) /\ Len(a) = 1 /\ a[1] = Call("sinksRun?", Reader)
  BY <1>1
<1>4. c \in Seq(S) /\ Len(c) = 1 /\ c[1] = Call("sinksStopped", Reader)
  BY <1>1
<1>5. b \in Seq(S) /\ Len(b) = NSinks /\ \A i \in Sinks : b[i] = Call("close", Sink(i))
  <2>1. b \in [1 .. NSinks -> S]
    BY <1>1 DEF Sinks
  <2>2. b \in Seq(S)
    BY <2>1, <1>2
  <2> QED BY <2>1, <2>2, <1>2, LenProperties
<1>6. StopSinks = (a \o b) \o c
  BY DEF StopSinks
<1> HIDE DEF a, b, c
<1>7. /\ a \o b \in Seq(S) /\ Len(a \o b) = 1 + NSinks
      /\ (a \o b)[1] = Call("sinksRun?", Reader)
      /\ \A i \in Sinks : (a \o b)[1 + i] = Call("close", Sink(i))
  <2>1. /\ a \o b \in Seq(S) /\ Len(a \o b) = 1 + NSinks
        /\ \A i \in 1 .. 1 + NSinks : (a \o b)[i] = IF i <= 1 THEN a[i] ELSE b[i - 1]
    <3>1. /\ a \o b \in Seq(S) /\ Len(a \o b) = Len(a) + Len(b)
          /\ \A i \in 1 .. Len(a) + Len(b) :
               (a \o b)[i] = IF i <= Len(a) THEN a[i] ELSE b[i - Len(a)]
      BY <1>2, <1>3, <1>5, ConcatProperties
    <3> QED BY <1>2, <1>3, <1>5, <3>1
  <2> QED BY <1>2, <1>3, <1>5, <2>1 DEF Sinks
<1> DEFINE ab == a \o b
<1> HIDE DEF ab
<1>8. /\ ab \o c \in Seq(S) /\ Len(ab \o c) = NSinks + 2
      /\ \A i \in 1 .. NSinks + 2 : (ab \o c)[i] = IF i <= 1 + NSinks THEN ab[i] ELSE c[i - (1 + NSinks)]
  <2>1. ab \in Seq(S) /\ Len(ab) = 1 + NSinks
    BY <1>7 DEF ab
  <2>2. /\ ab \o c \in Seq(S) /\ Len(ab \o c) = (1 + NSinks) + 1
        /\ \A i \in 1 .. (1 + NSinks) + 1 : (ab \o c)[i] = IF i <= 1 + NSinks THEN ab[i] ELSE c[i - (1 + NSinks)]
    <3>1. /\ ab \o c \in Seq(S) /\ Len(ab \o c) = Len(ab) + Len(c)
          /\ \A i \in 1 .. Len(ab) + Len(c) :
               (ab \o c)[i] = IF i <= Len(ab) THEN ab[i] ELSE c[i - Len(ab)]
      BY <1>2, <2>1, <1>4, ConcatProperties
    <3> QED BY <1>2, <2>1, <1>4, <3>1
  <2> QED BY <1>2, <2>2
<1>9. /\ ab[1] = Call("sinksRun?", Reader) /\ \A i \in Sinks : ab[1 + i] = Call("close", Sink(i))
      /\ StopSinks = ab \o c
  BY <1>6, <1>7 DEF ab
<1>10. /\ StopSinks \in Seq(S) /\ Len(StopSinks) = NSinks + 2
       /\ StopSinks[1] = Call("sinksRun?", Reader)
       /\ StopSinks[NSinks + 2] = Call("sinksStopped", Reader)
       /\ \A i \in Sinks : StopSinks[1 + i] = Call("close", Sink(i))
  BY <1>2, <1>4, <1>8, <1>9 DEF Sinks
<1> QED BY <1>10 DEF S

\* Launcher::Stop, call by call.
LEMMA StopIs ==
  LET c == Calls["stop"]
  IN  /\ Len(c) = StopLength
      /\ c[1] = Call("close", Reader) /\ c[2] = Call("stop", Decoder) /\ c[3] = Call("stop", Encoder)
      /\ c[4] = Call("sinksRun?", Reader) /\ \A i \in Sinks : c[4 + i] = Call("close", Sink(i))
      /\ c[StopLength] = Call("sinksStopped", Reader)
<1> DEFINE S == [op : Ops, on : AllThreads]
           a == <<Call("close", Reader)>>
           b == <<Call("stop", Decoder), Call("stop", Encoder)>>
           s == StopSinks
<1>1. Call("close", Reader) \in S /\ Call("stop", Decoder) \in S /\ Call("stop", Encoder) \in S
  <2>1. AllThreads = XCThreads \cup Elements /\ Elements = {Decoder, Encoder}
    BY NamesAre
  <2>2. Reader \in AllThreads /\ \A i \in Sinks : Sink(i) \in AllThreads
    BY <2>1, NamesAre
  <2>3. Decoder \in AllThreads /\ Encoder \in AllThreads
    BY <2>1
  <2> QED BY <2>2, <2>3 DEF Call, Ops
<1>2. NSinks \in Nat \ {0}
  BY ThreadsAssumption
<1>3. Calls["stop"] = (a \o b) \o s
  BY StopsAre DEF Calls, LauncherStop
<1>4. /\ s \in Seq(S) /\ Len(s) = NSinks + 2
      /\ s[1] = Call("sinksRun?", Reader) /\ s[NSinks + 2] = Call("sinksStopped", Reader)
      /\ \A i \in Sinks : s[1 + i] = Call("close", Sink(i))
  BY StopSinksIs
<1> HIDE DEF S, s
<1>5. a \in Seq(S) /\ Len(a) = 1 /\ a[1] = Call("close", Reader)
  BY <1>1
<1>6. b \in Seq(S) /\ Len(b) = 2 /\ b[1] = Call("stop", Decoder) /\ b[2] = Call("stop", Encoder)
  BY <1>1
<1> DEFINE ab == a \o b
<1> HIDE DEF a, b
<1>7. /\ ab \in Seq(S) /\ Len(ab) = 3
      /\ ab[1] = Call("close", Reader) /\ ab[2] = Call("stop", Decoder) /\ ab[3] = Call("stop", Encoder)
  <2>1. /\ a \o b \in Seq(S) /\ Len(a \o b) = 3
        /\ \A i \in 1 .. 3 : (a \o b)[i] = IF i <= 1 THEN a[i] ELSE b[i - 1]
    <3>1. /\ a \o b \in Seq(S) /\ Len(a \o b) = Len(a) + Len(b)
          /\ \A i \in 1 .. Len(a) + Len(b) :
               (a \o b)[i] = IF i <= Len(a) THEN a[i] ELSE b[i - Len(a)]
      BY <1>5, <1>6, ConcatProperties
    <3> QED BY <1>5, <1>6, <3>1
  <2> QED BY <1>5, <1>6, <2>1
<1> HIDE DEF ab
<1>8. /\ Len(ab \o s) = NSinks + 5
      /\ \A i \in 1 .. NSinks + 5 : (ab \o s)[i] = IF i <= 3 THEN ab[i] ELSE s[i - 3]
  <2>1. /\ Len(ab \o s) = 3 + (NSinks + 2)
        /\ \A i \in 1 .. 3 + (NSinks + 2) : (ab \o s)[i] = IF i <= 3 THEN ab[i] ELSE s[i - 3]
    <3>1. /\ ab \o s \in Seq(S) /\ Len(ab \o s) = Len(ab) + Len(s)
          /\ \A i \in 1 .. Len(ab) + Len(s) :
               (ab \o s)[i] = IF i <= Len(ab) THEN ab[i] ELSE s[i - Len(ab)]
      BY <1>2, <1>4, <1>7, ConcatProperties
    <3> QED BY <1>2, <1>4, <1>7, <3>1
  <2> QED BY <1>2, <2>1
<1>9. Calls["stop"] = ab \o s
  BY <1>3 DEF ab
<1> QED BY <1>2, <1>4, <1>7, <1>8, <1>9 DEF Sinks, StopLength

\* Launcher::Run from Join on, call by call.
LEMMA LauncherRunIs ==
  LET c == LauncherRun
  IN  /\ c \in Seq([op : Ops, on : AllThreads]) /\ Len(c) = NSinks + 3
      /\ c[1] = Call("join", Decoder) /\ c[2] = Call("join", Encoder)
      /\ \A i \in Sinks : c[2 + i] = Call("wait", Sink(i))
      /\ c[NSinks + 3] = Call("close", Log)
<1> DEFINE S == [op : Ops, on : AllThreads]
           a == <<Call("join", Decoder), Call("join", Encoder)>>
           b == [i \in Sinks |-> Call("wait", Sink(i))]
           c == <<Call("close", Log)>>
<1>1. /\ Call("join", Decoder) \in S /\ Call("join", Encoder) \in S /\ Call("close", Log) \in S
      /\ \A i \in Sinks : Call("wait", Sink(i)) \in S
  <2>1. AllThreads = XCThreads \cup Elements /\ Elements = {Decoder, Encoder}
    BY NamesAre
  <2>2. Log \in AllThreads /\ \A i \in Sinks : Sink(i) \in AllThreads
    BY <2>1, NamesAre
  <2>3. Decoder \in AllThreads /\ Encoder \in AllThreads
    BY <2>1
  <2> QED BY <2>2, <2>3 DEF Call, Ops
<1>2. NSinks \in Nat \ {0}
  BY ThreadsAssumption
<1>3. LauncherRun = (a \o b) \o c
  BY DEF LauncherRun, Decoder, Encoder
<1> HIDE DEF S
<1>4. a \in Seq(S) /\ Len(a) = 2 /\ a[1] = Call("join", Decoder) /\ a[2] = Call("join", Encoder)
  BY <1>1
<1>5. c \in Seq(S) /\ Len(c) = 1 /\ c[1] = Call("close", Log)
  BY <1>1
<1>6. b \in Seq(S) /\ Len(b) = NSinks /\ \A i \in Sinks : b[i] = Call("wait", Sink(i))
  <2>1. b \in [1 .. NSinks -> S]
    BY <1>1 DEF Sinks
  <2>2. b \in Seq(S)
    BY <2>1, <1>2
  <2> QED BY <2>1, <2>2, <1>2, LenProperties
<1> HIDE DEF a, b, c
<1>7. /\ a \o b \in Seq(S) /\ Len(a \o b) = NSinks + 2
      /\ (a \o b)[1] = Call("join", Decoder) /\ (a \o b)[2] = Call("join", Encoder)
      /\ \A i \in Sinks : (a \o b)[2 + i] = Call("wait", Sink(i))
  <2>1. /\ a \o b \in Seq(S) /\ Len(a \o b) = Len(a) + Len(b)
        /\ \A i \in 1 .. Len(a) + Len(b) : (a \o b)[i] = IF i <= Len(a) THEN a[i] ELSE b[i - Len(a)]
    BY <1>4, <1>6, ConcatProperties
  <2> QED BY <1>2, <1>4, <1>6, <2>1 DEF Sinks
<1> DEFINE ab == a \o b
<1>8. /\ ab \in Seq(S) /\ Len(ab) = NSinks + 2
      /\ ab[1] = Call("join", Decoder) /\ ab[2] = Call("join", Encoder)
      /\ \A i \in Sinks : ab[2 + i] = Call("wait", Sink(i))
      /\ LauncherRun = ab \o c
  BY <1>3, <1>7
<1> HIDE DEF ab
<1>9. /\ ab \o c \in Seq(S) /\ Len(ab \o c) = NSinks + 3
      /\ \A i \in 1 .. NSinks + 3 : (ab \o c)[i] = IF i <= NSinks + 2 THEN ab[i] ELSE c[i - (NSinks + 2)]
  <2>1. /\ ab \o c \in Seq(S) /\ Len(ab \o c) = Len(ab) + Len(c)
        /\ \A i \in 1 .. Len(ab) + Len(c) : (ab \o c)[i] = IF i <= Len(ab) THEN ab[i] ELSE c[i - Len(ab)]
    BY <1>5, <1>8, ConcatProperties
  <2> QED BY <1>2, <1>5, <1>8, <2>1
<1>10. /\ LauncherRun \in Seq(S) /\ Len(LauncherRun) = NSinks + 3
       /\ LauncherRun[1] = Call("join", Decoder) /\ LauncherRun[2] = Call("join", Encoder)
       /\ \A i \in Sinks : LauncherRun[2 + i] = Call("wait", Sink(i))
       /\ LauncherRun[NSinks + 3] = Call("close", Log)
  BY <1>2, <1>5, <1>8, <1>9 DEF Sinks
<1> QED BY <1>10 DEF S

\* What deleting the Launcher calls.
LEMMA LauncherDeleteIs ==
  LET c == LauncherDelete
  IN  /\ c \in Seq([op : Ops, on : AllThreads]) /\ Len(c) = NSinks + 5
      /\ c[1] = Call("stop", Encoder) /\ c[2] = Call("stop", Decoder)
      /\ c[3] = Call("sinksRun?", Reader) /\ \A i \in Sinks : c[3 + i] = Call("close", Sink(i))
      /\ c[NSinks + 4] = Call("sinksStopped", Reader) /\ c[NSinks + 5] = Call("close", Reader)
<1> DEFINE S == [op : Ops, on : AllThreads]
           a == <<Call("stop", Encoder), Call("stop", Decoder)>>
           s == StopSinks
           c == <<Call("close", Reader)>>
<1>1. Call("stop", Decoder) \in S /\ Call("stop", Encoder) \in S /\ Call("close", Reader) \in S
  <2>1. AllThreads = XCThreads \cup Elements /\ Elements = {Decoder, Encoder}
    BY NamesAre
  <2>2. Reader \in AllThreads
    BY <2>1, NamesAre
  <2>3. Decoder \in AllThreads /\ Encoder \in AllThreads
    BY <2>1
  <2> QED BY <2>2, <2>3 DEF Call, Ops
<1>2. NSinks \in Nat \ {0}
  BY ThreadsAssumption
<1>3. LauncherDelete = (a \o s) \o c
  BY StopsAre DEF LauncherDelete
<1>4. /\ s \in Seq(S) /\ Len(s) = NSinks + 2
      /\ s[1] = Call("sinksRun?", Reader) /\ s[NSinks + 2] = Call("sinksStopped", Reader)
      /\ \A i \in Sinks : s[1 + i] = Call("close", Sink(i))
  BY StopSinksIs
<1> HIDE DEF S, s
<1>5. a \in Seq(S) /\ Len(a) = 2 /\ a[1] = Call("stop", Encoder) /\ a[2] = Call("stop", Decoder)
  BY <1>1
<1>6. c \in Seq(S) /\ Len(c) = 1 /\ c[1] = Call("close", Reader)
  BY <1>1
<1> HIDE DEF a, c
<1>7. /\ a \o s \in Seq(S) /\ Len(a \o s) = NSinks + 4
      /\ \A i \in 1 .. NSinks + 4 : (a \o s)[i] = IF i <= 2 THEN a[i] ELSE s[i - 2]
  <2>1. /\ a \o s \in Seq(S) /\ Len(a \o s) = Len(a) + Len(s)
        /\ \A i \in 1 .. Len(a) + Len(s) : (a \o s)[i] = IF i <= Len(a) THEN a[i] ELSE s[i - Len(a)]
    BY <1>4, <1>5, ConcatProperties
  <2> QED BY <1>2, <1>4, <1>5, <2>1
<1> DEFINE as == a \o s
<1>8. /\ as \in Seq(S) /\ Len(as) = NSinks + 4
      /\ as[1] = Call("stop", Encoder) /\ as[2] = Call("stop", Decoder)
      /\ as[3] = Call("sinksRun?", Reader) /\ \A i \in Sinks : as[3 + i] = Call("close", Sink(i))
      /\ as[NSinks + 4] = Call("sinksStopped", Reader)
      /\ LauncherDelete = as \o c
  BY <1>2, <1>3, <1>4, <1>5, <1>7 DEF Sinks
<1> HIDE DEF as
<1>9. /\ as \o c \in Seq(S) /\ Len(as \o c) = NSinks + 5
      /\ \A i \in 1 .. NSinks + 5 : (as \o c)[i] = IF i <= NSinks + 4 THEN as[i] ELSE c[i - (NSinks + 4)]
  <2>1. /\ as \o c \in Seq(S) /\ Len(as \o c) = Len(as) + Len(c)
        /\ \A i \in 1 .. Len(as) + Len(c) : (as \o c)[i] = IF i <= Len(as) THEN as[i] ELSE c[i - Len(as)]
    BY <1>6, <1>8, ConcatProperties
  <2>2. Len(as) + Len(c) = NSinks + 5
    BY <1>2, <1>6, <1>8
  <2>3. Len(as) = NSinks + 4
    BY <1>8
  <2> QED BY <2>1, <2>2, <2>3
<1>10. /\ LauncherDelete \in Seq(S) /\ Len(LauncherDelete) = NSinks + 5
       /\ LauncherDelete[1] = Call("stop", Encoder) /\ LauncherDelete[2] = Call("stop", Decoder)
       /\ LauncherDelete[3] = Call("sinksRun?", Reader)
       /\ \A i \in Sinks : LauncherDelete[3 + i] = Call("close", Sink(i))
       /\ LauncherDelete[NSinks + 4] = Call("sinksStopped", Reader)
       /\ LauncherDelete[NSinks + 5] = Call("close", Reader)
  <2>1. \A i \in 1 .. NSinks + 4 : (as \o c)[i] = as[i]
    <3>1. \A i \in 1 .. NSinks + 4 : i \in 1 .. NSinks + 5 /\ i <= NSinks + 4
      BY <1>2
    <3> QED BY <1>9, <3>1
  <2>2. (as \o c)[NSinks + 5] = c[1]
    <3> DEFINE m == NSinks + 5
    <3>1. m \in 1 .. NSinks + 5 /\ ~(m <= NSinks + 4) /\ m - (NSinks + 4) = 1
      BY <1>2
    <3>2. (as \o c)[m] = IF m <= NSinks + 4 THEN as[m] ELSE c[m - (NSinks + 4)]
      BY <1>9, <3>1
    <3> QED BY <3>1, <3>2
  <2>3. /\ 1 \in 1 .. NSinks + 4 /\ 2 \in 1 .. NSinks + 4 /\ 3 \in 1 .. NSinks + 4
        /\ NSinks + 4 \in 1 .. NSinks + 4 /\ \A i \in Sinks : 3 + i \in 1 .. NSinks + 4
    BY <1>2 DEF Sinks
  <2> QED BY <1>6, <1>8, <1>9, <2>1, <2>2, <2>3
<1> QED BY <1>10 DEF S

\* The main thread's run, call by call.
LEMMA RunIs ==
  LET c == Calls["run"]
  IN  /\ Len(c) = RunLength
      /\ c[1] = Call("join", Decoder) /\ c[2] = Call("join", Encoder)
      /\ \A i \in Sinks : c[2 + i] = Call("wait", Sink(i))
      /\ c[NSinks + 3] = Call("close", Log)
      /\ c[NSinks + 4] = Call("stop", Encoder) /\ c[NSinks + 5] = Call("stop", Decoder)
      /\ c[NSinks + 6] = Call("sinksRun?", Reader)
      /\ \A i \in Sinks : c[NSinks + 6 + i] = Call("close", Sink(i))
      /\ c[2 * NSinks + 7] = Call("sinksStopped", Reader) /\ c[RunLength] = Call("close", Reader)
<1> DEFINE S == [op : Ops, on : AllThreads]
           a == LauncherRun
           b == LauncherDelete
<1>1. /\ a \in Seq(S) /\ Len(a) = NSinks + 3
      /\ a[1] = Call("join", Decoder) /\ a[2] = Call("join", Encoder)
      /\ \A i \in Sinks : a[2 + i] = Call("wait", Sink(i))
      /\ a[NSinks + 3] = Call("close", Log)
  BY LauncherRunIs
<1>2. /\ b \in Seq(S) /\ Len(b) = NSinks + 5
      /\ b[1] = Call("stop", Encoder) /\ b[2] = Call("stop", Decoder)
      /\ b[3] = Call("sinksRun?", Reader) /\ \A i \in Sinks : b[3 + i] = Call("close", Sink(i))
      /\ b[NSinks + 4] = Call("sinksStopped", Reader) /\ b[NSinks + 5] = Call("close", Reader)
  BY LauncherDeleteIs
<1>3. Calls["run"] = a \o b
  BY DEF Calls
<1>4. NSinks \in Nat \ {0}
  BY ThreadsAssumption
<1> HIDE DEF S, a, b
<1>5. /\ Len(a \o b) = 2 * NSinks + 8
      /\ \A i \in 1 .. 2 * NSinks + 8 :
           (a \o b)[i] = IF i <= NSinks + 3 THEN a[i] ELSE b[i - (NSinks + 3)]
  <2>1. /\ Len(a \o b) = Len(a) + Len(b)
        /\ \A i \in 1 .. Len(a) + Len(b) : (a \o b)[i] = IF i <= Len(a) THEN a[i] ELSE b[i - Len(a)]
    BY <1>1, <1>2, ConcatProperties
  <2>2. Len(a) + Len(b) = 2 * NSinks + 8
    <3>1. (NSinks + 3) + (NSinks + 5) = 2 * NSinks + 8
      BY <1>4
    <3> QED BY <1>1, <1>2, <3>1
  <2> QED BY <1>1, <2>1, <2>2
<1> DEFINE c == a \o b
<1>6. /\ c[1] = Call("join", Decoder) /\ c[2] = Call("join", Encoder)
      /\ \A i \in Sinks : c[2 + i] = Call("wait", Sink(i))
      /\ c[NSinks + 3] = Call("close", Log)
  BY <1>1, <1>4, <1>5 DEF Sinks
<1>7. /\ c[NSinks + 4] = Call("stop", Encoder) /\ c[NSinks + 5] = Call("stop", Decoder)
      /\ c[NSinks + 6] = Call("sinksRun?", Reader)
  BY <1>2, <1>4, <1>5
<1>8. \A i \in Sinks : c[NSinks + 6 + i] = Call("close", Sink(i))
  <2> SUFFICES ASSUME NEW i \in Sinks PROVE c[NSinks + 6 + i] = Call("close", Sink(i))
    OBVIOUS
  <2>1. /\ NSinks + 6 + i \in 1 .. 2 * NSinks + 8 /\ ~(NSinks + 6 + i <= NSinks + 3)
        /\ (NSinks + 6 + i) - (NSinks + 3) = 3 + i
    BY <1>4 DEF Sinks
  <2> QED BY <1>2, <1>5, <2>1
<1>9. c[2 * NSinks + 7] = Call("sinksStopped", Reader) /\ c[RunLength] = Call("close", Reader)
  <2>1. /\ (2 * NSinks + 7) - (NSinks + 3) = NSinks + 4 /\ (2 * NSinks + 8) - (NSinks + 3) = NSinks + 5
        /\ 2 * NSinks + 7 \in 1 .. 2 * NSinks + 8 /\ ~(2 * NSinks + 7 <= NSinks + 3)
        /\ 2 * NSinks + 8 \in 1 .. 2 * NSinks + 8 /\ ~(2 * NSinks + 8 <= NSinks + 3)
    BY <1>4
  <2> QED BY <1>2, <1>5, <2>1 DEF RunLength
<1> QED BY <1>3, <1>5, <1>6, <1>7, <1>8, <1>9 DEF RunLength

\* The calls of a frame, by where it is.
LEMMA FrameIs ==
  ASSUME NEW f \in Frames, ~Past(f), f.fn = "stop" => f.at <= StopLength
  PROVE  \/ /\ f.fn = "run"
            /\ \/ f.at = 1 /\ CallOf(f) = Call("join", Decoder)
               \/ f.at = 2 /\ CallOf(f) = Call("join", Encoder)
               \/ \E i \in Sinks : f.at = 2 + i /\ CallOf(f) = Call("wait", Sink(i))
               \/ f.at = NSinks + 3 /\ CallOf(f) = Call("close", Log)
               \/ f.at = NSinks + 4 /\ CallOf(f) = Call("stop", Encoder)
               \/ f.at = NSinks + 5 /\ CallOf(f) = Call("stop", Decoder)
               \/ f.at = NSinks + 6 /\ CallOf(f) = Call("sinksRun?", Reader)
               \/ \E i \in Sinks : f.at = NSinks + 6 + i /\ CallOf(f) = Call("close", Sink(i))
               \/ f.at = 2 * NSinks + 7 /\ CallOf(f) = Call("sinksStopped", Reader)
               \/ f.at = RunLength /\ CallOf(f) = Call("close", Reader)
         \/ /\ f.fn = "stop"
            /\ \/ f.at = 1 /\ CallOf(f) = Call("close", Reader)
               \/ f.at = 2 /\ CallOf(f) = Call("stop", Decoder)
               \/ f.at = 3 /\ CallOf(f) = Call("stop", Encoder)
               \/ f.at = 4 /\ CallOf(f) = Call("sinksRun?", Reader)
               \/ \E i \in Sinks : f.at = 4 + i /\ CallOf(f) = Call("close", Sink(i))
               \/ f.at = StopLength /\ CallOf(f) = Call("sinksStopped", Reader)
<1>1. NSinks \in Nat \ {0}
  BY ThreadsAssumption
<1>2. f.fn \in {"run", "stop"} /\ f.at \in Nat \ {0} /\ CallOf(f) = Calls[f.fn][f.at]
  BY DEF Frames, CallOf
<1> DEFINE k == f.at
<1>3. CASE f.fn = "run"
  <2>1. k <= 2 * NSinks + 8
    BY <1>1, <1>2, <1>3 DEF Past, RunLength
  <2>2. CASE k <= NSinks + 6
    <3>1. \/ k \in {1, 2, NSinks + 3, NSinks + 4, NSinks + 5, NSinks + 6} 
          \/ \E i \in Sinks : k = 2 + i
      <4>1. k >= 3 /\ k <= NSinks + 2 => k - 2 \in Sinks /\ k = 2 + (k - 2)
        BY <1>1, <1>2 DEF Sinks
      <4> QED BY <1>1, <1>2, <2>2, <4>1
    <3> QED BY <1>2, <1>3, <3>1, RunIs
  <2>3. CASE k > NSinks + 6
    <3>1. \/ k \in {2 * NSinks + 7, 2 * NSinks + 8}
          \/ \E i \in Sinks : k = NSinks + 6 + i
      <4>1. k <= 2 * NSinks + 6 => k - (NSinks + 6) \in Sinks /\ k = NSinks + 6 + (k - (NSinks + 6))
        BY <1>1, <1>2, <2>3 DEF Sinks
      <4> QED BY <1>1, <1>2, <2>1, <2>3, <4>1
    <3> QED BY <1>2, <1>3, <3>1, RunIs DEF RunLength
  <2> QED BY <1>1, <1>2, <2>2, <2>3
<1>4. CASE f.fn = "stop"
  <2>1. \/ k \in {1, 2, 3, 4, NSinks + 5}
        \/ \E i \in Sinks : k = 4 + i
    <3>1. k >= 5 /\ k <= NSinks + 4 => k - 4 \in Sinks /\ k = 4 + (k - 4)
      BY <1>1, <1>2 DEF Sinks
    <3> QED BY <1>1, <1>2, <1>4, <3>1 DEF StopLength
  <2> QED BY <1>2, <1>4, <2>1, StopIs DEF StopLength
<1> QED BY <1>2, <1>3, <1>4


\* What the place of a frame says of its operation and of the thread it is about.
LEMMA FrameSays ==
  ASSUME NEW f \in Frames, ~Past(f), f.fn = "stop" => f.at <= StopLength,
         NEW op, NEW on, op = CallOf(f).op, on = CallOf(f).on
  PROVE  /\ op \in Ops /\ on \in AllThreads
         /\ op \in {"join", "stop"} => on \in Elements
         /\ op \in {"wait", "close"} => on \in XCThreads
         /\ op \in {"sinksRun?", "sinksStopped"} => on = Reader
         /\ op = "join" => f.fn = "run" /\ f.at <= 2 /\ on = IF f.at = 1 THEN Decoder ELSE Encoder
         /\ op = "wait" => f.fn = "run" /\ \E i \in Sinks : f.at = 2 + i /\ on = Sink(i)
         /\ op = "close" =>
              \/ on = Log /\ f.fn = "run" /\ f.at = NSinks + 3
              \/ on = Reader /\ f.at = IF f.fn = "run" THEN RunLength ELSE 1
              \/ \E i \in Sinks : on = Sink(i) /\ f.at = i + IF f.fn = "run" THEN NSinks + 6 ELSE 4
         /\ op = "sinksRun?" <=> f.at = IF f.fn = "run" THEN NSinks + 6 ELSE 4
         /\ op = "sinksStopped" <=> f.at = IF f.fn = "run" THEN 2 * NSinks + 7 ELSE StopLength
         /\ f.fn = "run" /\ f.at <= NSinks + 3 =>
              /\ op \in {"join", "wait", "close"} /\ (op = "join" <=> f.at <= 2)
              /\ op = "close" <=> f.at = NSinks + 3
<1>1. NSinks \in Nat \ {0} /\ RunLength = 2 * NSinks + 8 /\ StopLength = NSinks + 5
  BY ThreadsAssumption DEF RunLength, StopLength
<1>2. \A o, t : Call(o, t).op = o /\ Call(o, t).on = t
  BY DEF Call
<1>3. f.fn \in {"run", "stop"} /\ f.at \in Nat \ {0}
  BY DEF Frames
<1>4. \A i \in Sinks : i \in Nat /\ 1 <= i /\ i <= NSinks
  BY <1>1 DEF Sinks
<1>5. /\ Elements = {Decoder, Encoder} /\ AllThreads = XCThreads \cup Elements
      /\ Reader \in XCThreads /\ Log \in XCThreads /\ \A i \in Sinks : Sink(i) \in XCThreads
  BY NamesAre
<1>6. CASE f.fn = "run" /\ f.at <= NSinks + 3
  <2>1. \/ f.at = 1 /\ op = "join" /\ on = Decoder
        \/ f.at = 2 /\ op = "join" /\ on = Encoder
        \/ \E i \in Sinks : f.at = 2 + i /\ op = "wait" /\ on = Sink(i)
        \/ f.at = NSinks + 3 /\ op = "close" /\ on = Log
    BY <1>1, <1>2, <1>3, <1>4, <1>6, FrameIs
  <2> QED BY <1>1, <1>3, <1>4, <1>5, <1>6, <2>1 DEF Ops
<1>7. CASE f.fn = "run" /\ f.at > NSinks + 3
  <2>1. \/ f.at = NSinks + 4 /\ op = "stop" /\ on = Encoder
        \/ f.at = NSinks + 5 /\ op = "stop" /\ on = Decoder
        \/ f.at = NSinks + 6 /\ op = "sinksRun?" /\ on = Reader
        \/ \E i \in Sinks : f.at = NSinks + 6 + i /\ op = "close" /\ on = Sink(i)
        \/ f.at = 2 * NSinks + 7 /\ op = "sinksStopped" /\ on = Reader
        \/ f.at = RunLength /\ op = "close" /\ on = Reader
    BY <1>1, <1>2, <1>3, <1>4, <1>7, FrameIs
  <2>2. CASE \E i \in Sinks : f.at = NSinks + 6 + i /\ op = "close" /\ on = Sink(i)
    <3>1. PICK i \in Sinks : f.at = NSinks + 6 + i /\ op = "close" /\ on = Sink(i)
      BY <2>2
    <3>2. f.at = i + (NSinks + 6) /\ f.at # NSinks + 6 /\ f.at # 2 * NSinks + 7 /\ ~(f.at <= NSinks + 3)
      BY <1>1, <1>4, <3>1
    <3> QED BY <1>5, <1>7, <3>1, <3>2 DEF Ops
  <2>3. CASE f.at \in {NSinks + 4, NSinks + 5, NSinks + 6}
    <3>1. f.at # 2 * NSinks + 7 /\ f.at # RunLength /\ \A i \in Sinks : f.at # NSinks + 6 + i
      BY <1>1, <1>4, <2>3
    <3>2. \/ f.at = NSinks + 4 /\ op = "stop" /\ on = Encoder
          \/ f.at = NSinks + 5 /\ op = "stop" /\ on = Decoder
          \/ f.at = NSinks + 6 /\ op = "sinksRun?" /\ on = Reader
      BY <2>1, <3>1
    <3> QED BY <1>1, <1>3, <1>5, <1>7, <3>1, <3>2 DEF Ops
  <2>4. CASE f.at \in {2 * NSinks + 7, RunLength}
    <3>1. f.at # NSinks + 4 /\ f.at # NSinks + 5 /\ f.at # NSinks + 6 /\ \A i \in Sinks : f.at # NSinks + 6 + i
      BY <1>1, <1>4, <2>4
    <3>2. \/ f.at = 2 * NSinks + 7 /\ op = "sinksStopped" /\ on = Reader
          \/ f.at = RunLength /\ op = "close" /\ on = Reader
      BY <2>1, <3>1
    <3> QED BY <1>1, <1>5, <1>7, <3>1, <3>2 DEF Ops
  <2> QED BY <2>1, <2>2, <2>3, <2>4
<1>8. CASE f.fn = "stop"
  <2>1. \/ f.at = 1 /\ op = "close" /\ on = Reader
        \/ f.at = 2 /\ op = "stop" /\ on = Decoder
        \/ f.at = 3 /\ op = "stop" /\ on = Encoder
        \/ f.at = 4 /\ op = "sinksRun?" /\ on = Reader
        \/ \E i \in Sinks : f.at = 4 + i /\ op = "close" /\ on = Sink(i)
        \/ f.at = StopLength /\ op = "sinksStopped" /\ on = Reader
    BY <1>1, <1>2, <1>3, <1>4, <1>8, FrameIs
  <2>2. CASE \E i \in Sinks : f.at = 4 + i /\ op = "close" /\ on = Sink(i)
    <3>1. PICK i \in Sinks : f.at = 4 + i /\ op = "close" /\ on = Sink(i)
      BY <2>2
    <3>2. f.at = i + 4 /\ f.at # 4 /\ f.at # StopLength
      BY <1>1, <1>4, <3>1
    <3> QED BY <1>5, <1>8, <3>1, <3>2 DEF Ops
  <2>3. CASE f.at \in {1, 2, 3, 4}
    <3>1. f.at # StopLength /\ \A i \in Sinks : f.at # 4 + i
      BY <1>1, <1>4, <2>3
    <3>2. \/ f.at = 1 /\ op = "close" /\ on = Reader
          \/ f.at = 2 /\ op = "stop" /\ on = Decoder
          \/ f.at = 3 /\ op = "stop" /\ on = Encoder
          \/ f.at = 4 /\ op = "sinksRun?" /\ on = Reader
      BY <2>1, <3>1
    <3> QED BY <1>5, <1>8, <3>1, <3>2 DEF Ops
  <2>4. CASE f.at = StopLength
    <3>1. f.at \notin {1, 2, 3, 4} /\ \A i \in Sinks : f.at # 4 + i
      BY <1>1, <1>4, <2>4
    <3>2. op = "sinksStopped" /\ on = Reader
      BY <2>1, <3>1
    <3> QED BY <1>5, <1>8, <2>4, <3>1, <3>2 DEF Ops
  <2> QED BY <2>1, <2>2, <2>3, <2>4
<1>9. f.at <= NSinks + 3 \/ f.at > NSinks + 3
  BY <1>1, <1>3
<1> QED BY <1>3, <1>6, <1>7, <1>8, <1>9

-----------------------------------------------------------------------------
(* The stack of the main thread. *)

\* The frames of a stack, and the one on top.
LEMMA StackIs ==
  ASSUME Shape
  PROVE  /\ Depth \in Nat \ {0} /\ DOMAIN stack = 1 .. Depth /\ Depth \in 1 .. Depth
         /\ \A d \in 1 .. Depth : stack[d] \in Frames
         /\ \A d \in 1 .. Depth : /\ stack[d].fn \in {"run", "stop"} /\ stack[d].at \in Nat \ {0}
                                  /\ Pc(d) \in PCs
                                  /\ stack[d].fn = "run" <=> d = 1
         /\ Top = stack[Depth] /\ Top.pc = Pc(Depth)
         /\ Op = What(Depth) /\ On = Who(Depth)
         /\ Finished <=> Past(stack[1])
         /\ Finished => Depth = 1 /\ Pc(1) = "call"
         /\ ~Finished => \A d \in 1 .. Depth : ~Past(stack[d])
         /\ NSinks \in Nat \ {0} /\ RunLength = 2 * NSinks + 8 /\ StopLength = NSinks + 5
<1>1. /\ Depth \in Nat \ {0} /\ DOMAIN stack = 1 .. Depth /\ Depth \in 1 .. Depth
      /\ \A d \in 1 .. Depth : stack[d] \in Frames
  <2>1. stack \in Seq(Frames) /\ Depth >= 1
    BY DEF Shape
  <2> QED BY <2>1, LenProperties, ElementOfSeq DEF Depth
<1>2. \A d \in 1 .. Depth : /\ stack[d].fn \in {"run", "stop"} /\ stack[d].at \in Nat \ {0}
                            /\ Pc(d) \in PCs
  BY <1>1 DEF Frames, Pc
<1>3. \A d \in 1 .. Depth : stack[d].fn = "run" <=> d = 1
  BY DEF Shape
<1>4. Top = stack[Depth] /\ Top.pc = Pc(Depth) /\ Op = What(Depth) /\ On = Who(Depth)
  BY DEF Top, Last, Depth, Pc, Op, On, What, Who
<1>5. Finished <=> Past(stack[1])
  BY <1>1, <1>3, RunIs DEF Finished, Past
<1>6. \A d \in 1 .. Depth : Past(stack[d]) => d = 1
  BY <1>3 DEF Past
<1>7. Past(stack[1]) => Depth = 1 /\ Pc(1) = "call"
  BY <1>1 DEF Shape
<1>8. NSinks \in Nat \ {0} /\ RunLength = 2 * NSinks + 8 /\ StopLength = NSinks + 5
  BY ThreadsAssumption DEF RunLength, StopLength
<1> QED BY <1>1, <1>2, <1>3, <1>4, <1>5, <1>6, <1>7, <1>8

\* What its frame says of the thread the top call is about.
LEMMA TopSays ==
  ASSUME Shape, ~Finished
  PROVE  /\ Op \in Ops /\ On \in AllThreads /\ Top \in Frames
         /\ Op \in {"join", "stop"} => On \in Elements
         /\ Op \in {"wait", "close"} => On \in XCThreads
         /\ Op \in {"sinksRun?", "sinksStopped"} => On = Reader
         /\ Op = "join" => Top.fn = "run" /\ Top.at <= 2 /\ On = IF Top.at = 1 THEN Decoder ELSE Encoder
         /\ Op = "wait" => Top.fn = "run" /\ \E i \in Sinks : Top.at = 2 + i /\ On = Sink(i)
         /\ Op = "close" =>
              \/ On = Log /\ Top.fn = "run" /\ Top.at = NSinks + 3
              \/ On = Reader /\ Top.at = IF Top.fn = "run" THEN RunLength ELSE 1
              \/ \E i \in Sinks : On = Sink(i) /\ Top.at = i + IF Top.fn = "run" THEN NSinks + 6 ELSE 4
         /\ Op = "sinksRun?" <=> Top.at = IF Top.fn = "run" THEN NSinks + 6 ELSE 4
         /\ Op = "sinksStopped" <=> Top.at = IF Top.fn = "run" THEN 2 * NSinks + 7 ELSE StopLength
         /\ Top.fn = "run" /\ Top.at <= NSinks + 3 =>
              /\ Op \in {"join", "wait", "close"} /\ (Op = "join" <=> Top.at <= 2)
              /\ Op = "close" <=> Top.at = NSinks + 3
         /\ Top.fn = "run" <=> Depth = 1
         /\ Top.fn = "run" => Top.at <= RunLength
         /\ Top.fn = "stop" => Top.at <= StopLength
         /\ Top.pc \in {"count", "waited"} \cup Waiting => Op \in {"wait", "close"}
         /\ Top.pc = "closed" => Op = "close"
         /\ Top.pc \in Joining => Op \in {"join", "stop", "wait", "close"}
<1>1. /\ Top \in Frames /\ ~Past(Top) /\ Top = stack[Depth] /\ Depth \in 1 .. Depth
      /\ Top.pc = Pc(Depth) /\ Op = What(Depth) /\ On = Who(Depth)
      /\ Top.fn = "run" <=> Depth = 1
      /\ Top.fn \in {"run", "stop"} /\ Top.at \in Nat \ {0}
  BY StackIs
<1>2. /\ Top.fn = "stop" => Top.at <= StopLength
      /\ Top.pc \in {"count", "waited"} \cup Waiting => Op \in {"wait", "close"}
      /\ Top.pc = "closed" => Op = "close"
      /\ Top.pc \in Joining => Op \in {"join", "stop", "wait", "close"}
  BY <1>1 DEF Shape
<1>3. Top.fn = "run" => Top.at <= RunLength
  BY <1>1, StackIs DEF Past
<1>4. Op = CallOf(Top).op /\ On = CallOf(Top).on
  BY DEF Op, On
<1> QED BY <1>1, <1>2, <1>3, <1>4, FrameSays

\* The top call goes on.
LEMMA GoIs ==
  ASSUME Shape, NEW p \in PCs, Go(p)
  PROVE  /\ Depth' = Depth /\ stack' \in Seq(Frames)
         /\ \A d \in 1 .. Depth :
              /\ stack'[d].fn = stack[d].fn /\ stack'[d].at = stack[d].at
              /\ Who(d)' = Who(d) /\ What(d)' = What(d)
              /\ Pc(d)' = IF d = Depth THEN p ELSE Pc(d)
<1>1. stack \in Seq(Frames) /\ Depth \in Nat \ {0} /\ DOMAIN stack = 1 .. Depth
  BY StackIs DEF Shape
<1>2. stack' = [stack EXCEPT ![Depth] = [stack[Depth] EXCEPT !.pc = p]]
  BY <1>1 DEF Go, Depth
<1> DEFINE f == [stack[Depth] EXCEPT !.pc = p]
<1>3. f \in Frames /\ f.fn = stack[Depth].fn /\ f.at = stack[Depth].at /\ f.pc = p
  <2>1. stack[Depth] \in Frames
    BY StackIs
  <2> QED BY <2>1 DEF Frames
<1> HIDE DEF f
<1>4. stack' = [stack EXCEPT ![Depth] = f]
  BY <1>2 DEF f
<1>5. /\ stack' \in Seq(Frames) /\ Len(stack') = Len(stack)
      /\ \A d \in 1 .. Depth : stack'[d] = IF d = Depth THEN f ELSE stack[d]
  BY <1>1, <1>3, <1>4, ExceptSeq DEF Depth
<1>6. \A d \in 1 .. Depth :
        /\ stack'[d].fn = stack[d].fn /\ stack'[d].at = stack[d].at
        /\ stack'[d].pc = IF d = Depth THEN p ELSE stack[d].pc
  BY <1>3, <1>5
<1>7. \A d \in 1 .. Depth : CallOf(stack'[d]) = CallOf(stack[d])
  BY <1>6 DEF CallOf
<1> QED BY <1>5, <1>6, <1>7 DEF Depth, Who, What, Pc

\* The top frame moves on.
LEMMA ReplaceIs ==
  ASSUME Shape, NEW f \in Frames, f.fn = stack[Depth].fn, stack' = [stack EXCEPT ![Depth] = f]
  PROVE  /\ Depth' = Depth /\ stack' \in Seq(Frames) /\ stack'[Depth] = f
         /\ \A d \in 1 .. Depth - 1 : /\ stack'[d] = stack[d] /\ Pc(d)' = Pc(d)
                                      /\ Who(d)' = Who(d) /\ What(d)' = What(d)
<1>1. stack \in Seq(Frames) /\ Depth \in Nat \ {0} /\ DOMAIN stack = 1 .. Depth
  BY StackIs DEF Shape
<1>2. /\ stack' \in Seq(Frames) /\ Len(stack') = Len(stack)
      /\ \A d \in 1 .. Depth : stack'[d] = IF d = Depth THEN f ELSE stack[d]
  BY <1>1, ExceptSeq DEF Depth
<1>3. Depth' = Depth /\ stack'[Depth] = f
  BY <1>1, <1>2 DEF Depth
<1>4. \A d \in 1 .. Depth - 1 : stack'[d] = stack[d]
  BY <1>1, <1>2
<1> QED BY <1>2, <1>3, <1>4 DEF Who, What, Pc

\* The top frame goes on to a later call.
LEMMA AdvanceIs ==
  ASSUME Shape, NEW by \in Nat,
         \/ stack' = [stack EXCEPT ![Depth].at = @ + by, ![Depth].pc = "call"]
         \/ Pc(Depth) = "call" /\ stack' = [stack EXCEPT ![Depth].at = @ + by]
  PROVE  /\ Depth' = Depth /\ stack' \in Seq(Frames)
         /\ \A d \in 1 .. Depth - 1 : /\ stack'[d] = stack[d] /\ Pc(d)' = Pc(d)
                                      /\ Who(d)' = Who(d) /\ What(d)' = What(d)
         /\ stack'[Depth].fn = stack[Depth].fn /\ stack'[Depth].at = stack[Depth].at + by
         /\ Pc(Depth)' = "call"
<1>1. stack \in Seq(Frames) /\ Depth \in Nat \ {0} /\ DOMAIN stack = 1 .. Depth
  BY StackIs DEF Shape
<1>2. stack[Depth] \in Frames
  BY StackIs
<1> DEFINE f == [fn |-> stack[Depth].fn, at |-> stack[Depth].at + by, pc |-> "call"]
<1>3. stack' = [stack EXCEPT ![Depth] = f]
  <2>1. CASE stack' = [stack EXCEPT ![Depth].at = @ + by, ![Depth].pc = "call"]
    <3>1. stack' = [stack EXCEPT ![Depth] = [stack[Depth] EXCEPT !.at = stack[Depth].at + by, !.pc = "call"]]
      BY <1>1, <2>1
    <3>2. [stack[Depth] EXCEPT !.at = stack[Depth].at + by, !.pc = "call"] = f
      <4> DEFINE g == [stack[Depth] EXCEPT !.at = stack[Depth].at + by]
      <4>1. g = [fn |-> stack[Depth].fn, at |-> stack[Depth].at + by, pc |-> stack[Depth].pc]
        BY <1>2 DEF Frames
      <4>2. [stack[Depth] EXCEPT !.at = stack[Depth].at + by, !.pc = "call"] = [g EXCEPT !.pc = "call"]
        OBVIOUS
      <4> HIDE DEF g
      <4>3. [g EXCEPT !.pc = "call"] = f
        BY <4>1
      <4> QED BY <4>2, <4>3
    <3> QED BY <3>1, <3>2
  <2>2. CASE Pc(Depth) = "call" /\ stack' = [stack EXCEPT ![Depth].at = @ + by]
    <3>1. stack' = [stack EXCEPT ![Depth] = [stack[Depth] EXCEPT !.at = stack[Depth].at + by]]
      BY <1>1, <2>2
    <3>2. [stack[Depth] EXCEPT !.at = stack[Depth].at + by] = f
      BY <1>2, <2>2 DEF Frames, Pc
    <3> QED BY <3>1, <3>2
  <2> QED BY <2>1, <2>2
<1>4. f \in Frames /\ f.fn = stack[Depth].fn /\ f.at = stack[Depth].at + by /\ f.pc = "call"
  <2>1. "call" \in PCs /\ stack[Depth].at + by \in Nat \ {0}
    BY <1>2 DEF Frames, PCs
  <2> QED BY <1>2, <2>1 DEF Frames
<1> HIDE DEF f
<1>5. stack'[Depth] = f /\ Depth' = Depth
  BY <1>3, <1>4, ReplaceIs
<1> QED BY <1>3, <1>4, <1>5, ReplaceIs DEF Pc

\* A handler returns.
LEMMA PopIs ==
  ASSUME Shape, Depth # 1, stack' = Front(stack)
  PROVE  /\ Depth' = Depth - 1 /\ Depth' \in Nat \ {0} /\ stack' \in Seq(Frames)
         /\ \A d \in 1 .. Depth - 1 : /\ stack'[d] = stack[d] /\ Pc(d)' = Pc(d)
                                      /\ Who(d)' = Who(d) /\ What(d)' = What(d)
<1>1. stack \in Seq(Frames) /\ Depth \in Nat \ {0} /\ \A d \in 1 .. Depth : stack[d] \in Frames
  BY StackIs DEF Shape
<1>2. stack' = SubSeq(stack, 1, Depth - 1)
  BY DEF Front, Depth
<1>3. /\ stack' \in Seq(Frames) /\ Len(stack') = Depth - 1
      /\ \A d \in 1 .. Depth - 1 : stack'[d] = stack[d]
  <2> DEFINE m == Depth - 1
  <2>1. m \in Nat \ {0} /\ 1 <= m /\ (m - 1) + 1 = m /\ \A d \in 1 .. m : stack[d] \in Frames /\ (1 + d) - 1 = d
    BY <1>1
  <2>2. stack' = SubSeq(stack, 1, m)
    BY <1>2
  <2> HIDE DEF m
  <2>3. /\ stack' \in Seq(Frames) /\ Len(stack') = (m - 1) + 1
        /\ \A d \in 1 .. (m - 1) + 1 : stack'[d] = stack[(1 + d) - 1]
    BY <2>1, <2>2, SubSeqProperties
  <2> QED BY <2>1, <2>3 DEF m
<1>4. Depth' = Depth - 1 /\ Depth' \in Nat \ {0}
  BY <1>1, <1>3 DEF Depth
<1> QED BY <1>3, <1>4 DEF Who, What, Pc

\* A signal comes.
LEMMA PushIs ==
  ASSUME Shape, stack' = Append(stack, Frame("stop"))
  PROVE  /\ Depth' = Depth + 1 /\ stack' \in Seq(Frames)
         /\ \A d \in 1 .. Depth : /\ stack'[d] = stack[d] /\ Pc(d)' = Pc(d)
                                  /\ Who(d)' = Who(d) /\ What(d)' = What(d)
         /\ stack'[Depth + 1].fn = "stop" /\ stack'[Depth + 1].at = 1 /\ stack'[Depth + 1].pc = "call"
<1>1. stack \in Seq(Frames) /\ Depth \in Nat \ {0}
  BY StackIs DEF Shape
<1> DEFINE f == Frame("stop")
<1>2. f \in Frames /\ f.fn = "stop" /\ f.at = 1 /\ f.pc = "call"
  BY DEF Frame, Frames, PCs
<1>3. stack' = Append(stack, f)
  OBVIOUS
<1> HIDE DEF f
<1>4. /\ stack' \in Seq(Frames) /\ Len(stack') = Len(stack) + 1
      /\ \A d \in 1 .. Len(stack) : stack'[d] = stack[d]
      /\ stack'[Len(stack) + 1] = f
  BY <1>1, <1>2, <1>3, AppendProperties
<1> QED BY <1>2, <1>4 DEF Depth, Who, What, Pc

\* The top call returns: a handler that is at its end goes, another call begins.
LEMMA ReturnIs ==
  ASSUME Shape, ~Finished, Return
  PROVE  \/ /\ Depth # 1 /\ Op = "sinksStopped" /\ stack' = Front(stack)
         \/ /\ Depth = 1 \/ Op # "sinksStopped"
            /\ stack' = [stack EXCEPT ![Depth].at = @ + 1, ![Depth].pc = "call"]
<1>1. Len(Calls["stop"]) = StopLength
  BY StopIs
<1>2. CASE Top.fn = "stop" /\ Top.at = StopLength
  BY <1>1, <1>2, TopSays DEF Return
<1>3. CASE ~(Top.fn = "stop" /\ Top.at = StopLength)
  <2>1. Depth = 1 \/ Op # "sinksStopped"
    BY <1>3, TopSays DEF Frames
  <2> QED BY <1>1, <1>3, <2>1 DEF Return, Depth
<1> QED BY <1>2, <1>3

\* Who is where after the top call goes on ...
LEMMA UsersGo ==
  ASSUME Shape, NEW p \in PCs, Go(p)
  PROVE  \A t, pcs :
           Users(t, pcs)' = IF t = On THEN IF p \in pcs THEN Users(t, pcs) \cup {Depth}
                                           ELSE Users(t, pcs) \ {Depth}
                            ELSE Users(t, pcs)
<1>1. Depth \in 1 .. Depth /\ On = Who(Depth)
  BY StackIs
<1>2. /\ Depth' = Depth
      /\ \A d \in 1 .. Depth : Who(d)' = Who(d) /\ Pc(d)' = IF d = Depth THEN p ELSE Pc(d)
  BY GoIs
<1> TAKE t, pcs
<1>3. Users(t, pcs)' = {d \in 1 .. Depth : (IF d = Depth THEN p ELSE Pc(d)) \in pcs /\ Who(d) = t}
  BY <1>2 DEF Users
<1> QED BY <1>1, <1>3 DEF Users

\* ... and that nobody is on top who is somewhere else.
LEMMA TopUses ==
  ASSUME Shape
  PROVE  \A t, pcs : Depth \in Users(t, pcs) <=> t = On /\ Top.pc \in pcs
BY StackIs DEF Users

\* The top call returns, or the calls after it are passed over.
LEMMA LeaveIs ==
  ASSUME Shape, ~Finished, NEW by \in Nat, cut' = cut,
         \/ Depth # 1 /\ stack' = Front(stack)
         \/ /\ \/ stack' = [stack EXCEPT ![Depth].at = @ + by, ![Depth].pc = "call"]
               \/ Pc(Depth) = "call" /\ stack' = [stack EXCEPT ![Depth].at = @ + by]
            /\ stack[Depth].at + by <= IF Depth = 1 THEN RunLength + 1 ELSE StopLength
  PROVE  /\ Shape' /\ (Interrupted => Interrupted')
         /\ \A t, pcs : "call" \notin pcs => Users(t, pcs)' = Users(t, pcs) \ {Depth}
         /\ stack'[1].at = IF Depth = 1 THEN stack[1].at + by ELSE stack[1].at
<1>1. /\ Depth \in Nat \ {0} /\ 1 \in 1 .. Depth /\ Depth \in 1 .. Depth
      /\ \A d \in 1 .. Depth : ~Past(stack[d]) /\ stack[d].fn \in {"run", "stop"} /\ stack[d].at \in Nat \ {0}
      /\ \A d \in 1 .. Depth : stack[d].fn = "run" <=> d = 1
      /\ RunLength = 2 * NSinks + 8 /\ StopLength = NSinks + 5 /\ NSinks \in Nat \ {0}
  BY StackIs
<1>2. /\ cut \in Seq(Cuts) /\ Depth <= Len(cut) + 1 /\ Len(cut) <= MaxSignals /\ Len(cut) \in Nat
      /\ Depth > 1 => stack[1].at <= NSinks + 3
  BY LenProperties DEF Shape
<1>3. Signals' = Signals
  BY DEF Signals
<1>0. \A d \in 1 .. Depth :
        /\ stack[d].fn = IF d = 1 THEN "run" ELSE "stop"
        /\ stack[d].fn = "stop" => stack[d].at <= StopLength
        /\ ~Past(stack[d])
        /\ Pc(d) \in {"count", "waited"} \cup Waiting => What(d) \in {"wait", "close"}
        /\ Pc(d) = "closed" => What(d) = "close"
        /\ Pc(d) \in Joining => What(d) \in {"join", "stop", "wait", "close"}
  BY <1>1 DEF Shape
<1>4. CASE Depth # 1 /\ stack' = Front(stack)
  <2> DEFINE m == Depth - 1
  <2>1. /\ Depth' = m /\ m \in Nat \ {0} /\ stack' \in Seq(Frames)
        /\ \A d \in 1 .. m : /\ stack'[d] = stack[d] /\ Pc(d)' = Pc(d)
                             /\ Who(d)' = Who(d) /\ What(d)' = What(d)
    BY <1>4, PopIs
  <2>2. m < Depth /\ 1 .. m \subseteq 1 .. Depth /\ 1 .. m = (1 .. Depth) \ {Depth} /\ 1 \in 1 .. m
    BY <1>1, <1>4
  <2> HIDE DEF m
  <2>3. stack'[1] = stack[1]
    BY <2>1, <2>2
  <2>4. Interrupted => Interrupted'
    <3>1. 1 .. m - 1 \subseteq 1 .. Depth - 1 /\ 1 .. m - 1 \subseteq 1 .. m
      BY <1>1, <2>1, <2>2
    <3> QED BY <1>3, <2>1, <3>1 DEF Interrupted
  <2>5. \A t, pcs : Users(t, pcs)' = Users(t, pcs) \ {Depth}
    BY <2>1, <2>2 DEF Users
  <2>6. Shape'
    <3>1. /\ Depth' >= 1 /\ Depth' <= Len(cut') + 1 /\ Len(cut') <= MaxSignals
          /\ Depth' > 1 => stack'[1].at <= NSinks + 3
      BY <1>1, <1>2, <1>4, <2>1, <2>2, <2>3
    <3>2. \A d \in 1 .. m :
            /\ stack'[d].fn = IF d = 1 THEN "run" ELSE "stop"
            /\ stack'[d].fn = "stop" => stack'[d].at <= StopLength
            /\ ~Past(stack'[d])
            /\ Pc(d)' \in {"count", "waited"} \cup Waiting => What(d)' \in {"wait", "close"}
            /\ Pc(d)' = "closed" => What(d)' = "close"
            /\ Pc(d)' \in Joining => What(d)' \in {"join", "stop", "wait", "close"}
      BY <1>0, <2>1, <2>2
    <3> QED BY <1>2, <2>1, <3>1, <3>2 DEF Shape, Past, RunLength, StopLength
  <2> QED BY <1>4, <2>3, <2>4, <2>5, <2>6
<1>5. CASE ~(Depth # 1 /\ stack' = Front(stack))
  <2>1. stack[Depth].at + by <= IF Depth = 1 THEN RunLength + 1 ELSE StopLength
    BY <1>5
  <2>2. /\ Depth' = Depth /\ stack' \in Seq(Frames)
        /\ \A d \in 1 .. Depth - 1 : /\ stack'[d] = stack[d] /\ Pc(d)' = Pc(d)
                                     /\ Who(d)' = Who(d) /\ What(d)' = What(d)
        /\ stack'[Depth].fn = stack[Depth].fn /\ stack'[Depth].at = stack[Depth].at + by
        /\ Pc(Depth)' = "call"
    BY <1>5, AdvanceIs
  <2>3. 1 .. Depth - 1 = (1 .. Depth) \ {Depth}
    BY <1>1
  <2>4. stack'[1].at = IF Depth = 1 THEN stack[1].at + by ELSE stack[1].at
    BY <1>1, <2>2, <2>3
  <2>5. Interrupted => Interrupted'
    BY <1>3, <2>2 DEF Interrupted
  <2>6. \A t, pcs : "call" \notin pcs => Users(t, pcs)' = Users(t, pcs) \ {Depth}
    BY <1>1, <2>2, <2>3 DEF Users
  <2>7. Shape'
    <3>1. /\ Depth' >= 1 /\ Depth' <= Len(cut') + 1 /\ Len(cut') <= MaxSignals
          /\ Depth' > 1 => stack'[1].at <= NSinks + 3
      BY <1>1, <1>2, <2>2, <2>4
    <3>2. \A d \in 1 .. Depth - 1 :
            /\ stack'[d].fn = IF d = 1 THEN "run" ELSE "stop"
            /\ stack'[d].fn = "stop" => stack'[d].at <= StopLength
            /\ ~Past(stack'[d])
            /\ Pc(d)' \in {"count", "waited"} \cup Waiting => What(d)' \in {"wait", "close"}
            /\ Pc(d)' = "closed" => What(d)' = "close"
            /\ Pc(d)' \in Joining => What(d)' \in {"join", "stop", "wait", "close"}
      BY <1>0, <2>2, <2>3
    <3>3. /\ stack'[Depth].fn = IF Depth = 1 THEN "run" ELSE "stop"
          /\ stack'[Depth].fn = "stop" => stack'[Depth].at <= StopLength
          /\ Past(stack'[Depth]) => Depth = 1 /\ stack'[Depth].at = RunLength + 1
      <4>1. stack'[Depth].fn = IF Depth = 1 THEN "run" ELSE "stop"
        BY <1>1, <2>2
      <4>2. stack[Depth].at \in Nat
        BY <1>1
      <4>3. CASE Depth = 1
        <5> DEFINE k == stack[Depth].at + by
        <5>1. k \in Nat /\ k <= RunLength + 1 /\ RunLength \in Nat /\ stack'[Depth].at = k
          BY <1>1, <2>1, <2>2, <4>2, <4>3
        <5> HIDE DEF k
        <5>2. k > RunLength => k = RunLength + 1
          BY <5>1
        <5> QED BY <1>1, <4>1, <4>3, <5>1, <5>2 DEF Past
      <4>4. CASE Depth # 1
        BY <1>1, <2>1, <2>2, <4>1, <4>2, <4>4 DEF Past
      <4> QED BY <4>3, <4>4
    <3>4. "call" \notin {"count", "waited", "closed"} \cup Waiting \cup Joining
      BY DEF Waiting, Joining
    <3>5. \A d \in 1 .. Depth : d \in 1 .. Depth - 1 \/ d = Depth
      BY <2>3
    <3> DEFINE Fine(d) ==
          /\ stack[d].fn = IF d = 1 THEN "run" ELSE "stop"
          /\ stack[d].fn = "stop" => stack[d].at <= StopLength
          /\ Past(stack[d]) => Depth = 1 /\ Pc(d) = "call" /\ stack[d].at = RunLength + 1
          /\ ~Past(stack[d]) =>
               /\ Pc(d) \in {"count", "waited"} \cup Waiting => What(d) \in {"wait", "close"}
               /\ Pc(d) = "closed" => What(d) = "close"
               /\ Pc(d) \in Joining => What(d) \in {"join", "stop", "wait", "close"}
    <3>6. \A d \in 1 .. Depth : Fine(d)'
      <4> TAKE d \in 1 .. Depth
      <4>1. CASE d \in 1 .. Depth - 1
        BY <3>2, <4>1 DEF Past, RunLength, StopLength
      <4>2. CASE d = Depth
        BY <2>2, <3>3, <3>4, <4>2 DEF Past, RunLength, StopLength
      <4> QED BY <3>5, <4>1, <4>2
    <3> QED BY <1>2, <2>2, <3>1, <3>6 DEF Shape
  <2> QED BY <2>4, <2>5, <2>6, <2>7
<1> QED BY <1>4, <1>5

\* What the top call does next fits its operation.
LEMMA StayIs ==
  ASSUME Shape, ~Finished, NEW p \in PCs, Go(p), cut' = cut,
         p \in {"count", "waited"} \cup Waiting => Op \in {"wait", "close"},
         p = "closed" => Op = "close",
         p \in Joining => Op \in {"join", "stop", "wait", "close"}
  PROVE  /\ Shape' /\ (Interrupted => Interrupted')
         /\ stack'[1].at = stack[1].at
         /\ stack'[Depth].fn = stack[Depth].fn /\ stack'[Depth].at = stack[Depth].at
<1>1. /\ Depth \in Nat \ {0} /\ 1 \in 1 .. Depth /\ Depth \in 1 .. Depth
      /\ \A d \in 1 .. Depth : ~Past(stack[d])
      /\ Op = What(Depth)
  BY StackIs
<1>2. /\ Depth' = Depth /\ stack' \in Seq(Frames)
      /\ \A d \in 1 .. Depth :
           /\ stack'[d].fn = stack[d].fn /\ stack'[d].at = stack[d].at
           /\ Who(d)' = Who(d) /\ What(d)' = What(d)
           /\ Pc(d)' = IF d = Depth THEN p ELSE Pc(d)
  BY GoIs
<1>3. Signals' = Signals
  BY DEF Signals
<1>4. Interrupted => Interrupted'
  <2>1. \A d \in 1 .. Depth - 1 : d \in 1 .. Depth /\ d # Depth
    BY <1>1
  <2> QED BY <1>2, <1>3, <2>1 DEF Interrupted
<1>5. \A d \in 1 .. Depth : ~Past(stack'[d])
  BY <1>1, <1>2 DEF Past, RunLength
<1>6. \A d \in 1 .. Depth :
        /\ Pc(d)' \in {"count", "waited"} \cup Waiting => What(d)' \in {"wait", "close"}
        /\ Pc(d)' = "closed" => What(d)' = "close"
        /\ Pc(d)' \in Joining => What(d)' \in {"join", "stop", "wait", "close"}
  <2> TAKE d \in 1 .. Depth
  <2>1. CASE d = Depth
    BY <1>1, <1>2, <2>1
  <2>2. CASE d # Depth
    BY <1>1, <1>2, <2>2 DEF Shape
  <2> QED BY <2>1, <2>2
<1>7. \A d \in 1 .. Depth : /\ stack'[d].fn = IF d = 1 THEN "run" ELSE "stop"
                            /\ stack'[d].fn = "stop" => stack'[d].at <= StopLength
  BY <1>2 DEF Shape
<1>8. /\ Depth' >= 1 /\ Depth' <= Len(cut') + 1 /\ Len(cut') <= MaxSignals /\ cut' \in Seq(Cuts)
      /\ Depth' > 1 => stack'[1].at <= NSinks + 3
  BY <1>1, <1>2 DEF Shape
<1>9. Shape'
  BY <1>2, <1>5, <1>6, <1>7, <1>8 DEF Shape, Past, RunLength, StopLength
<1> QED BY <1>1, <1>2, <1>4, <1>9

\* A signal leaves the calls below as they are, and they are among the interrupted.
LEMMA SignalIs ==
  ASSUME Shape, Interrupted, CtrlHandlerRoutine
  PROVE  /\ Shape' /\ Interrupted' /\ stack'[1].at = stack[1].at /\ stack[1].at <= NSinks + 3
         /\ \A t, pcs : "call" \notin pcs => Users(t, pcs)' = Users(t, pcs)
         /\ Signals' = Signals \cup {[op |-> Op, on |-> On, pc |-> Top.pc]}
         /\ Depth' = Depth + 1 /\ stack'[Depth'].fn = "stop" /\ stack'[Depth'].at = 1
         /\ ~Finished
<1> DEFINE c == [op |-> Op, on |-> On, pc |-> Top.pc]
<1>1. /\ ~Finished /\ stack[1].at <= NSinks + 3 /\ Len(cut) < MaxSignals
      /\ cut' = Append(cut, c) /\ stack' = Append(stack, Frame("stop"))
  BY LauncherRunIs DEF CtrlHandlerRoutine
<1>2. /\ Depth \in Nat \ {0} /\ 1 \in 1 .. Depth /\ Depth \in 1 .. Depth
      /\ \A d \in 1 .. Depth : ~Past(stack[d])
      /\ Op = What(Depth) /\ On = Who(Depth) /\ Top.pc = Pc(Depth) /\ Pc(Depth) \in PCs
      /\ RunLength = 2 * NSinks + 8 /\ StopLength = NSinks + 5 /\ NSinks \in Nat \ {0}
  BY <1>1, StackIs
<1>3. c \in Cuts
  BY <1>1, <1>2, TopSays DEF Cuts
<1>4. /\ Depth' = Depth + 1 /\ stack' \in Seq(Frames)
      /\ \A d \in 1 .. Depth : /\ stack'[d] = stack[d] /\ Pc(d)' = Pc(d)
                               /\ Who(d)' = Who(d) /\ What(d)' = What(d)
      /\ stack'[Depth + 1].fn = "stop" /\ stack'[Depth + 1].at = 1 /\ stack'[Depth + 1].pc = "call"
  BY <1>1, PushIs
<1>5. cut \in Seq(Cuts) /\ Len(cut) \in Nat /\ Depth <= Len(cut) + 1
  BY LenProperties DEF Shape
<1>6. c.op = Op /\ c.on = On /\ c.pc = Top.pc
  OBVIOUS
<1>7. cut' = Append(cut, c)
  BY <1>1
<1>8. /\ ~Finished /\ stack[1].at <= NSinks + 3 /\ Len(cut) < MaxSignals
  BY <1>1
<1> HIDE DEF c
<1>9. /\ cut' \in Seq(Cuts) /\ Len(cut') = Len(cut) + 1 /\ DOMAIN cut = 1 .. Len(cut)
      /\ DOMAIN cut' = 1 .. Len(cut) + 1 /\ cut'[Len(cut) + 1] = c
      /\ \A i \in 1 .. Len(cut) : cut'[i] = cut[i]
  <2>1. /\ cut' \in Seq(Cuts) /\ Len(cut') = Len(cut) + 1 /\ cut'[Len(cut) + 1] = c
        /\ \A i \in 1 .. Len(cut) : cut'[i] = cut[i]
    BY <1>3, <1>5, <1>7, AppendProperties
  <2> QED BY <1>5, <2>1, LenProperties
<1>10. Signals' = Signals \cup {c}
  <2>1. 1 .. Len(cut) + 1 = (1 .. Len(cut)) \cup {Len(cut) + 1}
    BY <1>5
  <2> QED BY <1>9, <2>1 DEF Signals
<1>11. 1 .. Depth + 1 = (1 .. Depth) \cup {Depth + 1} /\ (Depth + 1) - 1 = Depth /\ Depth + 1 \notin 1 .. Depth
       /\ 1 .. Depth = (1 .. Depth - 1) \cup {Depth}
  BY <1>2
<1>12. Interrupted'
  <2>1. \A d \in 1 .. Depth - 1 : [op |-> What(d)', on |-> Who(d)', pc |-> Pc(d)'] \in Signals'
    BY <1>4, <1>10, <1>11 DEF Interrupted
  <2>2. [op |-> What(Depth), on |-> Who(Depth), pc |-> Pc(Depth)] \in Signals'
    BY <1>2, <1>10 DEF c
  <2>3. \A d \in 1 .. Depth : [op |-> What(d)', on |-> Who(d)', pc |-> Pc(d)'] \in Signals'
    <3> TAKE d \in 1 .. Depth
    <3>1. CASE d = Depth
      BY <1>4, <2>2, <3>1
    <3>2. CASE d \in 1 .. Depth - 1
      BY <2>1, <3>2
    <3> QED BY <1>11, <3>1, <3>2
  <2> QED BY <1>4, <1>11, <2>3 DEF Interrupted
<1>13. \A t, pcs : "call" \notin pcs => Users(t, pcs)' = Users(t, pcs)
  <2> TAKE t, pcs
  <2>1. Users(t, pcs)' = {d \in 1 .. Depth + 1 : stack'[d].pc \in pcs /\ CallOf(stack'[d]).on = t}
    BY <1>4 DEF Users, Pc, Who
  <2>2. Users(t, pcs) = {d \in 1 .. Depth : stack[d].pc \in pcs /\ CallOf(stack[d]).on = t}
    BY DEF Users, Pc, Who
  <2> QED BY <1>4, <1>11, <2>1, <2>2
<1>14. Shape'
  <2>1. \A d \in 1 .. Depth :
        /\ stack[d].fn = IF d = 1 THEN "run" ELSE "stop"
        /\ stack[d].fn = "stop" => stack[d].at <= StopLength
        /\ ~Past(stack[d])
        /\ Pc(d) \in {"count", "waited"} \cup Waiting => What(d) \in {"wait", "close"}
        /\ Pc(d) = "closed" => What(d) = "close"
        /\ Pc(d) \in Joining => What(d) \in {"join", "stop", "wait", "close"}
    BY <1>2 DEF Shape
  <2> DEFINE Fine(d) ==
        /\ stack[d].fn = IF d = 1 THEN "run" ELSE "stop"
        /\ stack[d].fn = "stop" => stack[d].at <= StopLength
        /\ Past(stack[d]) => Depth = 1 /\ Pc(d) = "call" /\ stack[d].at = RunLength + 1
        /\ ~Past(stack[d]) =>
             /\ Pc(d) \in {"count", "waited"} \cup Waiting => What(d) \in {"wait", "close"}
             /\ Pc(d) = "closed" => What(d) = "close"
             /\ Pc(d) \in Joining => What(d) \in {"join", "stop", "wait", "close"}
  <2>2. \A d \in 1 .. Depth + 1 : Fine(d)'
    <3> TAKE d \in 1 .. Depth + 1
    <3>1. CASE d \in 1 .. Depth
      BY <1>4, <2>1, <3>1 DEF Past, RunLength, StopLength
    <3>2. CASE d = Depth + 1
      <4>1. d # 1 /\ StopLength >= 1
        BY <1>2, <3>2
      <4>2. Pc(d)' = "call" /\ stack'[d].fn = "stop" /\ stack'[d].at = 1
        BY <1>4, <3>2 DEF Pc
      <4>3. "call" \notin {"count", "waited", "closed"} \cup Waiting \cup Joining
        BY DEF Waiting, Joining
      <4> QED BY <4>1, <4>2, <4>3 DEF Past, StopLength
    <3> QED BY <1>11, <3>1, <3>2
  <2>3. /\ Depth' >= 1 /\ Depth' <= Len(cut') + 1 /\ Len(cut') <= MaxSignals
        /\ Depth' > 1 => stack'[1].at <= NSinks + 3
    <3>1. stack'[1] = stack[1]
      BY <1>2, <1>4
    <3>2. MaxSignals \in Nat
      BY ThreadsAssumption
    <3>3. Depth + 1 >= 1 /\ Depth + 1 <= (Len(cut) + 1) + 1 /\ Len(cut) + 1 <= MaxSignals
      BY <1>2, <1>5, <1>8, <3>2
    <3> QED BY <1>4, <1>8, <1>9, <3>1, <3>3
  <2> QED BY <1>4, <1>9, <2>2, <2>3 DEF Shape
<1>15. stack'[1].at = stack[1].at
  BY <1>2, <1>4
<1> QED BY <1>4, <1>8, <1>10, <1>12, <1>13, <1>14, <1>15 DEF c

-----------------------------------------------------------------------------
(* What a step of the main thread does to its stack, for the rest of the    *)
(* invariant to use.                                                        *)

\* The top call goes on, and is the same call in the same frame.
LEMMA GoesOn ==
  ASSUME Shape, ~Finished, NEW p \in PCs, Go(p), cut' = cut,
         p \in {"count", "waited"} \cup Waiting => Op \in {"wait", "close"},
         p = "closed" => Op = "close",
         p \in Joining => Op \in {"join", "stop", "wait", "close"}
  PROVE  /\ Shape' /\ (Interrupted => Interrupted') /\ stack'[1].at = stack[1].at
         /\ Depth' = Depth /\ Op' = Op /\ On' = On /\ (Top.pc)' = p
         /\ (Top.fn)' = Top.fn /\ (Top.at)' = Top.at
         /\ BeforeSinks' = BeforeSinks /\ InSinks' = InSinks
         /\ Signals' = Signals
<1>1. /\ Shape' /\ (Interrupted => Interrupted') /\ stack'[1].at = stack[1].at
      /\ stack'[Depth].fn = stack[Depth].fn /\ stack'[Depth].at = stack[Depth].at
  BY StayIs
<1>2. /\ Depth \in 1 .. Depth /\ Top = stack[Depth] /\ Op = What(Depth) /\ On = Who(Depth)
  BY StackIs
<1>3. /\ Depth' = Depth
      /\ Who(Depth)' = Who(Depth) /\ What(Depth)' = What(Depth) /\ Pc(Depth)' = p
  BY <1>2, GoIs
<1>4. Top' = stack'[Depth] /\ Op' = CallOf(Top').op /\ On' = CallOf(Top').on
  BY <1>3 DEF Top, Last, Depth, Op, On
<1>5. Op' = Op /\ On' = On /\ (Top.pc)' = p
  BY <1>2, <1>3, <1>4 DEF Who, What, Pc
<1>6. (Top.fn)' = Top.fn /\ (Top.at)' = Top.at
  BY <1>1, <1>2, <1>4
<1>7. BeforeSinks' = BeforeSinks
  BY <1>6 DEF BeforeSinks
<1>8. InSinks' = InSinks
  BY <1>6, <1>7 DEF InSinks
<1>9. Signals' = Signals
  BY DEF Signals
<1> QED BY <1>1, <1>3, <1>5, <1>6, <1>7, <1>8, <1>9

\* The top call is over: the next call of its frame begins, or the call below,
\* which a signal interrupted, goes on.
LEMMA LeavesOff ==
  ASSUME Shape, Interrupted, ~Finished, NEW by \in Nat, cut' = cut,
         \/ Depth # 1 /\ stack' = Front(stack)
         \/ /\ \/ stack' = [stack EXCEPT ![Depth].at = @ + by, ![Depth].pc = "call"]
               \/ Pc(Depth) = "call" /\ stack' = [stack EXCEPT ![Depth].at = @ + by]
            /\ stack[Depth].at + by <= IF Depth = 1 THEN RunLength + 1 ELSE StopLength
  PROVE  /\ \/ /\ (Top.pc)' = "call" /\ (Top.fn)' = Top.fn /\ (Top.at)' = Top.at + by
               /\ ~(Depth # 1 /\ stack' = Front(stack))
            \/ /\ Depth # 1 /\ stack' = Front(stack) /\ stack[1].at <= NSinks + 3
               /\ [op |-> Op', on |-> On', pc |-> (Top.pc)'] \in Signals
               /\ Top' \in Frames /\ ~Past(Top') /\ ((Top.fn)' = "stop" => (Top.at)' <= StopLength)
               /\ (Top.fn)' = "run" => (Top.at)' = stack[1].at
         /\ Signals' = Signals
<1>1. /\ Depth \in Nat \ {0} /\ Depth \in 1 .. Depth /\ Top = stack[Depth]
      /\ \A d \in 1 .. Depth : /\ ~Past(stack[d]) /\ stack[d] \in Frames
                               /\ stack[d].fn = "run" <=> d = 1
  BY StackIs
<1>2. Signals' = Signals
  BY DEF Signals
<1>3. CASE Depth # 1 /\ stack' = Front(stack)
  <2> DEFINE m == Depth - 1
  <2>1. Depth' = m /\ m \in 1 .. Depth - 1 /\ m \in 1 .. Depth /\ stack'[m] = stack[m]
    <3>1. Depth' = Depth - 1 /\ \A d \in 1 .. Depth - 1 : stack'[d] = stack[d]
      BY <1>3, PopIs
    <3>2. m \in 1 .. Depth - 1 /\ m \in 1 .. Depth
      BY <1>1, <1>3
    <3> QED BY <3>1, <3>2
  <2> HIDE DEF m
  <2>2. Top' = stack[m] /\ Op' = What(m) /\ On' = Who(m) /\ (Top.pc)' = Pc(m)
    <3>1. Top' = stack'[Depth'] /\ Op' = CallOf(Top').op /\ On' = CallOf(Top').on
      BY DEF Top, Last, Depth, Op, On
    <3> QED BY <2>1, <3>1 DEF What, Who, Pc
  <2>3. [op |-> What(m), on |-> Who(m), pc |-> Pc(m)] \in Signals
    BY <2>1 DEF Interrupted
  <2>4. (Top.fn)' = "run" => (Top.at)' = stack[1].at
    BY <1>1, <2>1, <2>2
  <2>5. (Top.fn)' = "stop" => (Top.at)' <= StopLength
    BY <2>1, <2>2 DEF Shape
  <2>6. stack[1].at <= NSinks + 3
    BY <1>1, <1>3 DEF Shape
  <2> QED BY <1>1, <1>2, <1>3, <2>1, <2>2, <2>3, <2>4, <2>5, <2>6
<1>4. CASE ~(Depth # 1 /\ stack' = Front(stack))
  <2>1. /\ Depth' = Depth
        /\ stack'[Depth].fn = stack[Depth].fn /\ stack'[Depth].at = stack[Depth].at + by
        /\ Pc(Depth)' = "call"
    BY <1>4, AdvanceIs
  <2>2. Top' = stack'[Depth]
    BY <2>1 DEF Top, Last, Depth
  <2>3. (Top.pc)' = "call"
    BY <2>1, <2>2 DEF Pc
  <2> QED BY <1>1, <1>2, <1>4, <2>1, <2>2, <2>3
<1> QED BY <1>3, <1>4

-----------------------------------------------------------------------------
(* What leaves a part of the invariant alone. *)

\* Waits depends on counts and locks, and on who waits and joins.
LEMMA WaitsStay ==
  ASSUME Waits,
         \A t \in XCThreads : /\ xc'[t].waits = xc[t].waits /\ xc'[t].locked = xc[t].locked
                              /\ Users(t, Waiting)' = Users(t, Waiting)
                              /\ Users(t, Joining)' = Users(t, Joining)
  PROVE  Waits'
<1>1. \A t \in XCThreads : xc[t].locked <=> Users(t, Joining) # {}
  BY DEF Waits
<1>2. \A t \in XCThreads : xc'[t].locked <=> Users(t, Joining)' # {}
  BY <1>1
<1>3. \A t \in XCThreads : xc'[t].waits = Cardinality(Users(t, Waiting))'
  BY DEF Waits
<1>4. \A t \in XCThreads : xc'[t].locked => Users(t, Waiting)' = {}
  BY DEF Waits
<1>5. \A t \in XCThreads : \A d, e \in Users(t, Joining)' : d = e
  BY DEF Waits
<1> QED BY <1>2, <1>3, <1>4, <1>5 DEF Waits, Waiting, Joining, XCThreads, Reader, Log, Sink, Sinks

\* Joins survives what makes threads end, flags fall and locks close.
LEMMA JoinsStay ==
  ASSUME Joins, joined' = joined,
         \A t \in AllThreads : /\ pthread[t] = "exited" => pthread'[t] = "exited"
                               /\ Users(t, {"joining"})' = Users(t, {"joining"})
                               /\ \/ Users(t, {"joined"})' \subseteq Users(t, {"joined"})
                                  \/ t \in Elements /\ joined[t] # "no",
         \A t \in Elements : created'[t] \/ ~created[t] \/ joined[t] # "no",
         \A t \in XCThreads : /\ xc'[t].event => xc[t].event \/ pthread'[t] = "exited"
                              /\ \/ xc'[t].valid = xc[t].valid /\ (xc[t].locked => xc'[t].locked)
                                 \/ ~xc'[t].valid /\ joined[t] = "yes"
  PROVE  Joins'
<1>1. Elements \subseteq AllThreads /\ XCThreads \subseteq AllThreads /\ Elements \cap XCThreads = {}
  BY NamesAre
<1>2. \A t \in AllThreads :
        /\ joined'[t] = "joining" <=> Users(t, {"joining"})' # {}
        /\ \A d, e \in Users(t, {"joining"})' : d = e
        /\ joined'[t] = "yes" => pthread'[t] = "exited"
  <2>1. \A t \in AllThreads :
          /\ joined[t] = "joining" <=> Users(t, {"joining"}) # {}
          /\ \A d, e \in Users(t, {"joining"}) : d = e
          /\ joined[t] = "yes" => pthread[t] = "exited"
    BY DEF Joins
  <2> QED BY <2>1
<1>3. \A t \in XCThreads :
        /\ xc'[t].event => pthread'[t] = "exited"
        /\ ~xc'[t].valid => joined'[t] = "yes"
        /\ joined'[t] = "yes" => ~xc'[t].valid \/ xc'[t].locked
        /\ Users(t, {"joined"})' # {} => joined'[t] = "yes"
  <2>1. \A t \in XCThreads :
          /\ xc[t].event => pthread[t] = "exited"
          /\ ~xc[t].valid => joined[t] = "yes"
          /\ joined[t] = "yes" => ~xc[t].valid \/ xc[t].locked
          /\ Users(t, {"joined"}) # {} => joined[t] = "yes"
    BY DEF Joins
  <2> QED BY <1>1, <2>1
<1>4. \A t \in Elements : Users(t, {"joined"})' # {} \/ ~created'[t] => joined'[t] # "no"
  <2>1. \A t \in Elements : Users(t, {"joined"}) # {} \/ ~created[t] => joined[t] # "no"
    BY DEF Joins
  <2> QED BY <1>1, <2>1
<1> QED BY <1>2, <1>3, <1>4 DEF Joins, AllThreads, Elements, XCThreads, Reader, Log, Sink, Sinks

\* Objects survives what deletes none.
LEMMA ObjectsStay ==
  ASSUME Objects, \A t \in XCThreads : /\ xc'[t].exists = xc[t].exists /\ xc'[t].known = xc[t].known
                                       /\ joined[t] = "yes" => joined'[t] = "yes",
         stack[1].at \in Nat, stack'[1].at \in Nat, stack'[1].at >= stack[1].at
  PROVE  Objects'
<1>1. Reader \in XCThreads /\ Log \in XCThreads /\ NSinks \in Nat
  BY NamesAre, ThreadsAssumption
<1>2. \A t \in XCThreads : xc'[t].exists = xc'[t].known /\ (~xc'[t].exists => joined'[t] = "yes")
  BY DEF Objects
<1>3. xc'[Reader].exists
  BY <1>1 DEF Objects
<1>4. ~xc'[Log].exists => stack'[1].at > NSinks + 3
  <2>1. ~xc[Log].exists => stack[1].at > NSinks + 3
    BY DEF Objects
  <2> QED BY <1>1, <2>1
<1> QED BY <1>2, <1>3, <1>4 DEF Objects, XCThreads, Reader, Log, Sink, Sinks

\* Leaving survives as long as nobody leaves, and those who wait go on waiting.
LEMMA LeavingStay ==
  ASSUME Leaving,
         \A t \in XCThreads :
           /\ xc[t].event => xc'[t].event
           /\ joined[t] = "yes" => joined'[t] = "yes"
           /\ Users(t, {"last?"})' \subseteq Users(t, {"last?"})
           /\ Users(t, {"waited", "closed"})' \subseteq Users(t, {"waited", "closed"})
           /\ Users(t, Waiting) \subseteq Users(t, Waiting)'
  PROVE  Leaving'
<1>1. \A t \in XCThreads : Users(t, {"last?"})' # {} => xc'[t].event \/ Spurious
  BY DEF Leaving
<1>2. \A t \in XCThreads : \A d \in Users(t, {"waited", "closed"})' :
        joined'[t] = "yes" \/ ((xc'[t].event \/ Spurious) /\ \E e \in Users(t, Waiting)' : e < d)
  <2>1. \A t \in XCThreads : \A d \in Users(t, {"waited", "closed"}) :
          joined[t] = "yes" \/ ((xc[t].event \/ Spurious) /\ \E e \in Users(t, Waiting) : e < d)
    BY DEF Leaving
  <2> QED BY <2>1
<1> QED BY <1>1, <1>2 DEF Leaving, XCThreads, Reader, Log, Sink, Sinks, Waiting

\* A reason for harm remains one.
LEMMA HarmedStay ==
  ASSUME Harmed, Signals \subseteq Signals', harm' \subseteq harm
  PROVE  Harmed'
<1>1. (FlagsCut => FlagsCut') /\ (SinksCut => SinksCut') /\ (ReaderCut => ReaderCut')
  BY DEF FlagsCut, SinksCut, ReaderCut
<1> QED BY <1>1 DEF Harmed

\* A call that goes on passes nothing; a sink's thread may be joined by it.
LEMMA PassedStay ==
  ASSUME Passed, stack'[1].at = stack[1].at,
         \A t \in AllThreads : joined[t] = "yes" => joined'[t] = "yes",
         \A i \in Sinks :
           LET t == Sink(i) pcs == Joining \cup {"waited", "closed"}
           IN  joined'[t] = "yes" /\ xc'[t].exists =>
                 \/ Users(t, pcs)' # {}
                 \/ joined[t] = "yes" /\ xc[t].exists /\ Users(t, pcs) \subseteq Users(t, pcs)'
  PROVE  Passed'
<1>1. /\ Decoder \in AllThreads /\ Encoder \in AllThreads /\ Log \in AllThreads /\ Reader \in AllThreads
      /\ \A i \in Sinks : Sink(i) \in AllThreads
  BY NamesAre
<1>2. /\ stack[1].at > 1 => joined[Decoder] = "yes"
      /\ stack[1].at > 2 => joined[Encoder] = "yes"
      /\ \A i \in Sinks : stack[1].at > 2 + i => joined[Sink(i)] = "yes"
      /\ stack[1].at > NSinks + 3 => joined[Log] = "yes"
      /\ stack[1].at > RunLength => joined[Reader] = "yes"
  BY DEF Passed
<1>3. /\ stack'[1].at > 1 => joined'[Decoder] = "yes"
      /\ stack'[1].at > 2 => joined'[Encoder] = "yes"
      /\ \A i \in Sinks : stack'[1].at > 2 + i => joined'[Sink(i)] = "yes"
      /\ stack'[1].at > NSinks + 3 => joined'[Log] = "yes"
      /\ stack'[1].at > RunLength => joined'[Reader] = "yes"
  BY <1>1, <1>2
<1>4. \A i \in Sinks : joined'[Sink(i)] = "yes" /\ xc'[Sink(i)].exists =>
        stack'[1].at > 2 + i \/ Users(Sink(i), Joining \cup {"waited", "closed"})' # {}
  <2>1. \A i \in Sinks : joined[Sink(i)] = "yes" /\ xc[Sink(i)].exists =>
          stack[1].at > 2 + i \/ Users(Sink(i), Joining \cup {"waited", "closed"}) # {}
    BY DEF Passed
  <2> QED BY <2>1
<1> QED BY <1>3, <1>4 DEF Passed, Sinks, Sink, Decoder, Encoder, Reader, Log, Joining, RunLength

\* A call that is over, of join, wait or close in Launcher::Run, has joined its thread.
LEMMA PassedLeave ==
  ASSUME Shape, ~Finished, Passed, joined' = joined, NEW by \in Nat,
         stack'[1].at = IF Depth = 1 THEN stack[1].at + by ELSE stack[1].at,
         by = 1 \/ (Op = "sinksRun?" /\ by = NSinks + 2),
         Depth = 1 /\ Op \in {"join", "wait", "close"} => joined[On] = "yes",
         \A i \in Sinks :
           LET t == Sink(i) pcs == Joining \cup {"waited", "closed"}
           IN  xc'[t].exists =>
                 xc[t].exists /\ (Users(t, pcs) \subseteq Users(t, pcs)' \/ (On = t /\ Op = "wait"))
  PROVE  Passed'
<1> DEFINE k == stack[1].at
<1>1. /\ NSinks \in Nat \ {0} /\ RunLength = 2 * NSinks + 8
      /\ k \in Nat \ {0} /\ (Top.fn = "run" <=> Depth = 1) /\ (Depth = 1 => Top.at = k)
  BY StackIs, TopSays
<1>2. /\ k > 1 => joined[Decoder] = "yes"
      /\ k > 2 => joined[Encoder] = "yes"
      /\ \A i \in Sinks : k > 2 + i => joined[Sink(i)] = "yes"
      /\ k > NSinks + 3 => joined[Log] = "yes"
      /\ k > RunLength => joined[Reader] = "yes"
      /\ \A i \in Sinks : joined[Sink(i)] = "yes" /\ xc[Sink(i)].exists =>
           k > 2 + i \/ Users(Sink(i), Joining \cup {"waited", "closed"}) # {}
  BY DEF Passed
<1>3. \A i \in Sinks : i \in Nat /\ 1 <= i /\ i <= NSinks
  BY <1>1 DEF Sinks
<1>4. /\ stack'[1].at > 1 => joined[Decoder] = "yes"
      /\ stack'[1].at > 2 => joined[Encoder] = "yes"
      /\ \A i \in Sinks : stack'[1].at > 2 + i => joined[Sink(i)] = "yes"
      /\ stack'[1].at > NSinks + 3 => joined[Log] = "yes"
      /\ stack'[1].at > RunLength => joined[Reader] = "yes"
  <2>1. CASE Depth # 1
    BY <1>2, <2>1
  <2>2. CASE Depth = 1 /\ by = 1
    <3>1. stack'[1].at = k + 1 /\ Top \in Frames /\ ~Past(Top) /\ Top.fn = "run" /\ Top.at = k
          /\ Op = CallOf(Top).op /\ On = CallOf(Top).on
      <4>1. Top = stack[Depth] /\ Depth \in 1 .. Depth
        BY StackIs
      <4> QED BY <1>1, <2>2, <4>1, StackIs DEF Op, On
    <3>2. \A o, t : Call(o, t).op = o /\ Call(o, t).on = t
      BY DEF Call
    <3>3. \/ k = 1 /\ Op = "join" /\ On = Decoder
          \/ k = 2 /\ Op = "join" /\ On = Encoder
          \/ \E i \in Sinks : k = 2 + i /\ Op = "wait" /\ On = Sink(i)
          \/ k = NSinks + 3 /\ Op = "close" /\ On = Log
          \/ k >= NSinks + 4 /\ k < RunLength
          \/ k = RunLength /\ Op = "close" /\ On = Reader
      BY <1>1, <1>3, <3>1, <3>2, FrameIs
    <3>4. CASE k = 1 /\ Op = "join" /\ On = Decoder
      BY <1>1, <1>2, <1>3, <2>2, <3>1, <3>4
    <3>5. CASE k = 2 /\ Op = "join" /\ On = Encoder
      BY <1>1, <1>2, <1>3, <2>2, <3>1, <3>5
    <3>6. CASE \E i \in Sinks : k = 2 + i /\ Op = "wait" /\ On = Sink(i)
      <4>1. PICK i \in Sinks : k = 2 + i /\ Op = "wait" /\ On = Sink(i)
        BY <3>6
      <4>2. joined[Sink(i)] = "yes"
        BY <2>2, <4>1
      <4>3. \A j \in Sinks : k + 1 > 2 + j => k > 2 + j \/ j = i
        BY <1>3, <4>1
      <4>4. k > 1 /\ k > 2 /\ ~(k + 1 > NSinks + 3) /\ ~(k + 1 > RunLength)
        BY <1>1, <1>3, <4>1
      <4> QED BY <1>2, <3>1, <4>2, <4>3, <4>4
    <3>7. CASE k = NSinks + 3 /\ Op = "close" /\ On = Log
      <4>1. joined[Log] = "yes"
        BY <2>2, <3>7
      <4>2. \A j \in Sinks : k > 2 + j
        BY <1>1, <1>3, <3>7
      <4>3. k > 1 /\ k > 2 /\ ~(k + 1 > RunLength)
        BY <1>1, <3>7
      <4> QED BY <1>2, <3>1, <4>1, <4>2, <4>3
    <3>8. CASE k >= NSinks + 4 /\ k < RunLength
      <4>1. k > 1 /\ k > 2 /\ k > NSinks + 3 /\ ~(k + 1 > RunLength) /\ \A j \in Sinks : k > 2 + j
        BY <1>1, <1>3, <3>8
      <4> QED BY <1>2, <3>1, <4>1
    <3>9. CASE k = RunLength /\ Op = "close" /\ On = Reader
      <4>1. joined[Reader] = "yes"
        BY <2>2, <3>9
      <4>2. k > 1 /\ k > 2 /\ k > NSinks + 3 /\ \A j \in Sinks : k > 2 + j
        BY <1>1, <1>3, <3>9
      <4> QED BY <1>2, <3>1, <4>1, <4>2
    <3> QED BY <3>3, <3>4, <3>5, <3>6, <3>7, <3>8, <3>9
  <2>3. CASE Depth = 1 /\ Op = "sinksRun?" /\ by = NSinks + 2
    <3>1. k = NSinks + 6
      BY <1>1, <2>3, TopSays
    <3>2. /\ k > 1 /\ k > 2 /\ k > NSinks + 3 /\ ~(k + by > RunLength) /\ \A j \in Sinks : k > 2 + j
          /\ stack'[1].at = k + by
      BY <1>1, <1>3, <2>3, <3>1
    <3> QED BY <1>2, <3>2
  <2> QED BY <2>1, <2>2, <2>3
<1>5. stack'[1].at >= k /\ k \in Nat
  BY <1>1
<1>6. \A i \in Sinks : joined[Sink(i)] = "yes" /\ xc'[Sink(i)].exists =>
        stack'[1].at > 2 + i \/ Users(Sink(i), Joining \cup {"waited", "closed"})' # {}
  <2> TAKE i \in Sinks
  <2> DEFINE t == Sink(i)  pcs == Joining \cup {"waited", "closed"}
  <2> SUFFICES ASSUME joined[t] = "yes", xc'[t].exists
               PROVE  stack'[1].at > 2 + i \/ Users(t, pcs)' # {}
    OBVIOUS
  <2>1. xc[t].exists /\ (Users(t, pcs) \subseteq Users(t, pcs)' \/ (On = t /\ Op = "wait"))
    OBVIOUS
  <2>2. k > 2 + i \/ Users(t, pcs) # {}
    BY <1>2, <2>1
  <2>3. CASE On = t /\ Op = "wait"
    <3>1. Top.fn = "run" /\ \E j \in Sinks : Top.at = 2 + j /\ On = Sink(j)
      BY <2>3, TopSays
    <3>2. Top.at = 2 + i /\ Depth = 1 /\ by = 1
      BY <1>1, <2>3, <3>1, NamesAre
    <3> QED BY <1>1, <1>3, <3>2
  <2>4. CASE k > 2 + i
    BY <1>3, <1>5, <2>4
  <2>5. CASE Users(t, pcs) # {} /\ Users(t, pcs) \subseteq Users(t, pcs)'
    BY <2>5
  <2> QED BY <2>1, <2>2, <2>3, <2>4, <2>5
<1>7. \A i \in Sinks : joined'[Sink(i)] = "yes" /\ xc'[Sink(i)].exists =>
        stack'[1].at > 2 + i \/ Users(Sink(i), Joining \cup {"waited", "closed"})' # {}
  BY <1>6
<1>8. /\ stack'[1].at > 1 => joined'[Decoder] = "yes"
      /\ stack'[1].at > 2 => joined'[Encoder] = "yes"
      /\ \A i \in Sinks : stack'[1].at > 2 + i => joined'[Sink(i)] = "yes"
      /\ stack'[1].at > NSinks + 3 => joined'[Log] = "yes"
      /\ stack'[1].at > RunLength => joined'[Reader] = "yes"
  BY <1>4
<1> QED BY <1>7, <1>8 DEF Passed, Sinks, Sink, Decoder, Encoder, Reader, Log, Joining, RunLength

\* Where a frame is in SinkWrap::Stop, by its call.
LEMMA PlaceIs ==
  ASSUME NEW f \in Frames, ~Past(f), f.fn = "stop" => f.at <= StopLength,
         NEW op, NEW on, op = CallOf(f).op, on = CallOf(f).on,
         NEW b, b = IF f.fn = "run" THEN NSinks + 6 ELSE 4
  PROVE  \/ op \in {"join", "stop", "wait"} /\ f.at < b
         \/ op = "close" /\ on \in {Reader, Log} /\ (f.at < b \/ f.at > b + NSinks + 1)
         \/ op = "sinksRun?" /\ f.at = b
         \/ \E i \in Sinks : op = "close" /\ on = Sink(i) /\ f.at = b + i
         \/ op = "sinksStopped" /\ f.at = b + NSinks + 1
<1>1. NSinks \in Nat \ {0} /\ RunLength = 2 * NSinks + 8 /\ StopLength = NSinks + 5
  BY ThreadsAssumption DEF RunLength, StopLength
<1>2. \A o, t : Call(o, t).op = o /\ Call(o, t).on = t
  BY DEF Call
<1>3. f.fn \in {"run", "stop"} /\ f.at \in Nat \ {0}
  BY DEF Frames
<1>4. \A i \in Sinks : i \in Nat /\ 1 <= i /\ i <= NSinks
  BY <1>1 DEF Sinks
<1>5. CASE f.fn = "run"
  <2>0. b = NSinks + 6
    BY <1>5
  <2>1. \/ f.at = 1 /\ op = "join"
        \/ f.at = 2 /\ op = "join"
        \/ \E i \in Sinks : f.at = 2 + i /\ op = "wait"
        \/ f.at = NSinks + 3 /\ op = "close" /\ on = Log
        \/ f.at = NSinks + 4 /\ op = "stop"
        \/ f.at = NSinks + 5 /\ op = "stop"
        \/ f.at = NSinks + 6 /\ op = "sinksRun?"
        \/ \E i \in Sinks : f.at = NSinks + 6 + i /\ op = "close" /\ on = Sink(i)
        \/ f.at = 2 * NSinks + 7 /\ op = "sinksStopped"
        \/ f.at = RunLength /\ op = "close" /\ on = Reader
    BY <1>2, <1>5, FrameIs
  <2>2. CASE \E i \in Sinks : f.at = 2 + i /\ op = "wait"
    BY <1>1, <1>4, <2>0, <2>2
  <2>3. CASE \E i \in Sinks : f.at = NSinks + 6 + i /\ op = "close" /\ on = Sink(i)
    BY <2>0, <2>3
  <2>4. CASE f.at = NSinks + 3 /\ op = "close" /\ on = Log
    BY <1>1, <2>0, <2>4
  <2>5. CASE f.at = RunLength /\ op = "close" /\ on = Reader
    BY <1>1, <2>0, <2>5
  <2>6. CASE f.at = 2 * NSinks + 7 /\ op = "sinksStopped"
    BY <1>1, <2>0, <2>6
  <2>7. CASE f.at = NSinks + 6 /\ op = "sinksRun?"
    BY <2>0, <2>7
  <2>8. CASE op \in {"join", "stop"} /\ f.at \in {1, 2, NSinks + 4, NSinks + 5}
    BY <1>1, <2>0, <2>8
  <2> QED BY <2>1, <2>2, <2>3, <2>4, <2>5, <2>6, <2>7, <2>8
<1>6. CASE f.fn = "stop"
  <2>0. b = 4
    BY <1>6
  <2>1. \/ f.at = 1 /\ op = "close" /\ on = Reader
        \/ f.at = 2 /\ op = "stop"
        \/ f.at = 3 /\ op = "stop"
        \/ f.at = 4 /\ op = "sinksRun?"
        \/ \E i \in Sinks : f.at = 4 + i /\ op = "close" /\ on = Sink(i)
        \/ f.at = StopLength /\ op = "sinksStopped"
    BY <1>2, <1>6, FrameIs
  <2>2. CASE \E i \in Sinks : f.at = 4 + i /\ op = "close" /\ on = Sink(i)
    BY <2>0, <2>2
  <2>3. CASE f.at = StopLength /\ op = "sinksStopped"
    BY <1>1, <2>0, <2>3
  <2> QED BY <2>0, <2>1, <2>2, <2>3
<1> QED BY <1>3, <1>5, <1>6

\* ... and for the top call.
LEMMA TopPlace ==
  ASSUME Shape, ~Finished
  PROVE  \/ Op \in {"join", "stop", "wait"} /\ Top.at < BeforeSinks
         \/ Op = "close" /\ On \in {Reader, Log} /\ (Top.at < BeforeSinks \/ Top.at > BeforeSinks + NSinks + 1)
         \/ Op = "sinksRun?" /\ Top.at = BeforeSinks
         \/ \E i \in Sinks : Op = "close" /\ On = Sink(i) /\ Top.at = BeforeSinks + i
         \/ Op = "sinksStopped" /\ Top.at = BeforeSinks + NSinks + 1
<1> DEFINE f == Top  d == IF f.fn = "run" THEN NSinks + 6 ELSE 4
<1>1. f \in Frames
  BY StackIs, TopSays
<1>2. ~Past(f) /\ (f.fn = "stop" => f.at <= StopLength)
  <2>1. Top = stack[Depth] /\ Depth \in 1 .. Depth /\ ~Past(stack[Depth])
    BY StackIs
  <2>2. Top.fn = "stop" => Top.at <= StopLength
    BY TopSays
  <2> QED BY <2>1, <2>2
<1>3. Op = CallOf(f).op /\ On = CallOf(f).on
  BY DEF Op, On
<1>4. BeforeSinks = d /\ Top.at = f.at
  BY DEF BeforeSinks
<1> HIDE DEF f
<1>5. \/ Op \in {"join", "stop", "wait"} /\ f.at < d
      \/ Op = "close" /\ On \in {Reader, Log} /\ (f.at < d \/ f.at > d + NSinks + 1)
      \/ Op = "sinksRun?" /\ f.at = d
      \/ \E i \in Sinks : Op = "close" /\ On = Sink(i) /\ f.at = d + i
      \/ Op = "sinksStopped" /\ f.at = d + NSinks + 1
  BY <1>1, <1>2, <1>3, PlaceIs
<1> HIDE DEF d
<1> QED BY <1>4, <1>5

\* FlagsHold survives when the top call goes on, if the place it comes to is right.
LEMMA FlagsStay ==
  ASSUME FlagsHold, harm' = harm, Signals' = Signals, On' = On, Op' = Op, NEW p, (Top.pc)' = p,
         \A t \in Elements : joined'[t] = "yes" /\ created'[t] =>
           \/ joined[t] = "yes" /\ created[t] /\ ~(Top.pc = "joined" /\ On = t)
           \/ p = "joined" /\ On = t,
         p = "join" /\ On \in Elements => created'[On],
         \A t \in XCThreads : Users(t, {"join"} \cup Waiting)' # {} =>
           joined'[t] = "no" \/ (joined'[t] = joined[t] /\ Users(t, {"join"} \cup Waiting) # {}),
         p = "count" /\ Op = "close" => xc'[On].valid
  PROVE  FlagsHold'
<1>1. FlagsCut' = FlagsCut
  BY DEF FlagsCut
<1>2. ASSUME ~FlagsCut', harm' = {}
      PROVE  /\ \A t \in Elements : joined'[t] = "yes" /\ created'[t] => (Top.pc)' = "joined" /\ On' = t
             /\ (Top.pc)' = "join" /\ On' \in Elements => created'[On']
             /\ \A t \in XCThreads : Users(t, {"join"} \cup Waiting)' # {} => joined'[t] = "no"
             /\ (Top.pc)' = "count" /\ Op' = "close" => xc'[On'].valid
  <2>1. /\ \A t \in Elements : joined[t] = "yes" /\ created[t] => Top.pc = "joined" /\ On = t
        /\ \A t \in XCThreads : Users(t, {"join"} \cup Waiting) # {} => joined[t] = "no"
    BY <1>1, <1>2 DEF FlagsHold
  <2> QED BY <2>1
<1> QED BY <1>2 DEF FlagsHold, Elements, XCThreads, Waiting, Reader, Log, Sink, Sinks

\* FlagsHold survives when the top call returns: the call below was interrupted at a
\* place that no flag is about.
LEMMA FlagsLeave ==
  ASSUME FlagsHold, harm' = harm, Signals' = Signals, joined' = joined,
         \/ (Top.pc)' = "call"
         \/ [op |-> Op', on |-> On', pc |-> (Top.pc)'] \in Signals,
         \A t \in Elements : created'[t] => created[t] /\ ~(Top.pc = "joined" /\ On = t),
         \A t \in XCThreads : Users(t, {"join"} \cup Waiting)' \subseteq Users(t, {"join"} \cup Waiting)
  PROVE  FlagsHold'
<1>1. FlagsCut' = FlagsCut
  BY DEF FlagsCut
<1>2. ASSUME ~FlagsCut', harm' = {}
      PROVE  /\ \A t \in Elements : joined'[t] = "yes" /\ created'[t] => (Top.pc)' = "joined" /\ On' = t
             /\ (Top.pc)' = "join" /\ On' \in Elements => created'[On']
             /\ \A t \in XCThreads : Users(t, {"join"} \cup Waiting)' # {} => joined'[t] = "no"
             /\ (Top.pc)' = "count" /\ Op' = "close" => xc'[On'].valid
  <2>1. /\ \A t \in Elements : joined[t] = "yes" /\ created[t] => Top.pc = "joined" /\ On = t
        /\ \A t \in XCThreads : Users(t, {"join"} \cup Waiting) # {} => joined[t] = "no"
    BY <1>1, <1>2 DEF FlagsHold
  <2>2. /\ ~((Top.pc)' = "join" /\ On' \in Elements)
        /\ ~((Top.pc)' = "count" /\ Op' = "close")
    <3>1. CASE (Top.pc)' = "call"
      BY <3>1
    <3>2. CASE [op |-> Op', on |-> On', pc |-> (Top.pc)'] \in Signals
      <4> DEFINE c == [op |-> Op', on |-> On', pc |-> (Top.pc)']
      <4>1. c.op = Op' /\ c.on = On' /\ c.pc = (Top.pc)'
        OBVIOUS
      <4>2. ~CutFlag(c)
        BY <1>1, <1>2, <3>2 DEF FlagsCut
      <4> HIDE DEF c
      <4> QED BY <4>1, <4>2 DEF CutFlag
    <3> QED BY <3>1, <3>2
  <2> QED BY <2>1, <2>2
<1> QED BY <1>2 DEF FlagsHold, Elements, XCThreads, Waiting, Reader, Log, Sink, Sinks

\* Regions survives when the top call goes on.
LEMMA RegionsStay ==
  ASSUME Regions, harm' = harm, Signals' = Signals, On' = On, NEW p, (Top.pc)' = p,
         (Top.at)' = Top.at, BeforeSinks' = BeforeSinks, InSinks' = InSinks,
         pipeline' = pipeline, sinksRun' = sinksRun,
         p = "count" => xc'[On].exists
  PROVE  Regions'
<1>1. SinksCut' = SinksCut
  BY DEF SinksCut
<1>2. ASSUME ~SinksCut', harm' = {}
      PROVE  /\ InSinks' => sinksRun' /\ \A i \in Sinks : BeforeSinks' + i >= (Top.at)' => i \in pipeline'
             /\ ~InSinks' => ~sinksRun' \/ pipeline' = Sinks
             /\ (Top.pc)' = "count" => xc'[On'].exists
  <2>1. /\ InSinks => sinksRun /\ \A i \in Sinks : BeforeSinks + i >= Top.at => i \in pipeline
        /\ ~InSinks => ~sinksRun \/ pipeline = Sinks
    BY <1>1, <1>2 DEF Regions
  <2> QED BY <2>1
<1> QED BY <1>2 DEF Regions, Sinks

\* Regions survives when the top call returns.
\* In particular SinkWrap::Stop is over, or not begun, below a signal that did not cut it.
LEMMA RegionsLeave ==
  ASSUME Shape, ~Finished, Regions, Objects, harm' = harm, Signals' = Signals, NEW by \in Nat,
         \/ /\ (Top.pc)' = "call" /\ (Top.fn)' = Top.fn /\ (Top.at)' = Top.at + by
            /\ \/ Op \in {"join", "stop", "wait"} /\ by = 1 /\ pipeline' = pipeline /\ sinksRun' = sinksRun
               \/ /\ Op = "close" /\ On \in {Reader, Log} /\ by = 1
                  /\ pipeline' = pipeline /\ sinksRun' = sinksRun
               \/ /\ \E i \in Sinks : Op = "close" /\ On = Sink(i) /\ pipeline' = pipeline \ {i}
                  /\ by = 1 /\ sinksRun' = sinksRun
               \/ Op = "sinksRun?" /\ sinksRun /\ by = 1 /\ pipeline' = pipeline /\ sinksRun' = sinksRun
               \/ Op = "sinksRun?" /\ ~sinksRun /\ by = NSinks + 2 /\ ~sinksRun'
               \/ Op = "sinksStopped" /\ by = 1 /\ ~sinksRun'
         \/ /\ stack[1].at <= NSinks + 3
            /\ [op |-> Op', on |-> On', pc |-> (Top.pc)'] \in Signals
            /\ Top' \in Frames /\ ~Past(Top') /\ ((Top.fn)' = "stop" => (Top.at)' <= StopLength)
            /\ (Top.fn)' = "run" => (Top.at)' = stack[1].at
            /\ (Top.pc)' = "count" => Op' \in {"wait", "close"}
            /\ ~sinksRun' /\ xc' = xc
  PROVE  Regions'
<1>1. SinksCut' = SinksCut
  BY DEF SinksCut
<1>2. NSinks \in Nat \ {0} /\ Top.at \in Nat \ {0} /\ BeforeSinks \in Nat
      /\ \A i \in Sinks : i \in Nat /\ 1 <= i /\ i <= NSinks
  BY StackIs, TopSays DEF Frames, BeforeSinks, Sinks
<1>4. \/ Op \in {"join", "stop", "wait"} /\ Top.at < BeforeSinks
      \/ Op = "close" /\ On \in {Reader, Log} /\ (Top.at < BeforeSinks \/ Top.at > BeforeSinks + NSinks + 1)
      \/ Op = "sinksRun?" /\ Top.at = BeforeSinks
      \/ \E i \in Sinks : Op = "close" /\ On = Sink(i) /\ Top.at = BeforeSinks + i
      \/ Op = "sinksStopped" /\ Top.at = BeforeSinks + NSinks + 1
  BY TopPlace
<1>3. ASSUME ~SinksCut', harm' = {}
      PROVE  /\ InSinks' => sinksRun' /\ \A i \in Sinks : BeforeSinks' + i >= (Top.at)' => i \in pipeline'
             /\ ~InSinks' => ~sinksRun' \/ pipeline' = Sinks
             /\ (Top.pc)' = "count" => xc'[On'].exists
  <2>1. /\ InSinks => sinksRun /\ \A i \in Sinks : BeforeSinks + i >= Top.at => i \in pipeline
        /\ ~InSinks => ~sinksRun \/ pipeline = Sinks
    BY <1>1, <1>3 DEF Regions
  <2>2. CASE /\ (Top.pc)' = "call" /\ (Top.fn)' = Top.fn /\ (Top.at)' = Top.at + by
             /\ \/ Op \in {"join", "stop", "wait"} /\ by = 1 /\ pipeline' = pipeline /\ sinksRun' = sinksRun
                \/ /\ Op = "close" /\ On \in {Reader, Log} /\ by = 1
                   /\ pipeline' = pipeline /\ sinksRun' = sinksRun
                \/ /\ \E i \in Sinks : Op = "close" /\ On = Sink(i) /\ pipeline' = pipeline \ {i}
                   /\ by = 1 /\ sinksRun' = sinksRun
                \/ Op = "sinksRun?" /\ sinksRun /\ by = 1 /\ pipeline' = pipeline /\ sinksRun' = sinksRun
                \/ Op = "sinksRun?" /\ ~sinksRun /\ by = NSinks + 2 /\ ~sinksRun'
                \/ Op = "sinksStopped" /\ by = 1 /\ ~sinksRun'
    <3> DEFINE b == BeforeSinks  k == Top.at
    <3>1. BeforeSinks' = b /\ (InSinks' <=> k + by > b /\ k + by <= b + NSinks + 1)
          /\ (InSinks <=> k > b /\ k <= b + NSinks + 1)
      BY <2>2 DEF BeforeSinks, InSinks
    <3>2. \/ Op \in {"join", "stop", "wait"} /\ k < b
          \/ Op = "close" /\ On \in {Reader, Log} /\ (k < b \/ k > b + NSinks + 1)
          \/ Op = "sinksRun?" /\ k = b
          \/ \E i \in Sinks : Op = "close" /\ On = Sink(i) /\ k = b + i
          \/ Op = "sinksStopped" /\ k = b + NSinks + 1
      BY <1>4 DEF b, k
    <3>3. k \in Nat /\ b \in Nat
      BY <1>2
    <3> HIDE DEF b, k
    <3>4. CASE /\ Op \in {"join", "stop", "wait"} \/ (Op = "close" /\ On \in {Reader, Log})
               /\ by = 1 /\ pipeline' = pipeline /\ sinksRun' = sinksRun
      <4>1. k < b \/ k > b + NSinks + 1
        BY <3>2, <3>4, NamesAre
      <4>2. ~InSinks /\ ~InSinks'
        BY <1>2, <3>1, <3>3, <3>4, <4>1
      <4> QED BY <2>1, <2>2, <3>4, <4>2
    <3>5. CASE /\ \E i \in Sinks : Op = "close" /\ On = Sink(i) /\ pipeline' = pipeline \ {i}
               /\ by = 1 /\ sinksRun' = sinksRun
      <4>1. PICK i \in Sinks : Op = "close" /\ On = Sink(i) /\ pipeline' = pipeline \ {i}
        BY <3>5
      <4>2. k = b + i
        BY <3>2, <4>1, NamesAre
      <4>3. InSinks /\ InSinks'
        BY <1>2, <3>1, <3>3, <3>5, <4>2
      <4>4. sinksRun /\ \A j \in Sinks : b + j >= k => j \in pipeline
        BY <2>1, <4>3 DEF b, k
      <4>5. \A j \in Sinks : b + j >= k + 1 => j # i /\ b + j >= k
        BY <1>2, <3>3, <4>2
      <4>6. (Top.at)' = k + 1
        BY <2>2, <3>5 DEF k
      <4> QED BY <2>2, <3>1, <3>5, <4>1, <4>3, <4>4, <4>5, <4>6
    <3>6. CASE Op = "sinksRun?" /\ sinksRun /\ by = 1 /\ pipeline' = pipeline /\ sinksRun' = sinksRun
      <4>1. k = b
        BY <3>2, <3>6
      <4>2. ~InSinks /\ InSinks'
        BY <1>2, <3>1, <3>3, <3>6, <4>1
      <4> QED BY <2>1, <2>2, <3>6, <4>2
    <3>7. CASE Op = "sinksRun?" /\ ~sinksRun /\ by = NSinks + 2 /\ ~sinksRun'
      <4>1. k = b
        BY <3>2, <3>7
      <4>2. ~InSinks'
        BY <1>2, <3>1, <3>3, <3>7, <4>1
      <4> QED BY <2>2, <3>7, <4>2
    <3>8. CASE Op = "sinksStopped" /\ by = 1 /\ ~sinksRun'
      <4>1. k = b + NSinks + 1
        BY <3>2, <3>8
      <4>2. ~InSinks'
        BY <1>2, <3>1, <3>3, <3>8, <4>1
      <4> QED BY <2>2, <3>8, <4>2
    <3>9. (Top.pc)' # "count"
      BY <2>2
    <3> QED BY <2>2, <3>4, <3>5, <3>6, <3>7, <3>8, <3>9
  <2>3. CASE /\ stack[1].at <= NSinks + 3
             /\ [op |-> Op', on |-> On', pc |-> (Top.pc)'] \in Signals
             /\ Top' \in Frames /\ ~Past(Top') /\ ((Top.fn)' = "stop" => (Top.at)' <= StopLength)
             /\ (Top.fn)' = "run" => (Top.at)' = stack[1].at
             /\ (Top.pc)' = "count" => Op' \in {"wait", "close"}
             /\ ~sinksRun' /\ xc' = xc
    <3> DEFINE c == [op |-> Op', on |-> On', pc |-> (Top.pc)']  f == Top'
               b == IF f.fn = "run" THEN NSinks + 6 ELSE 4
    <3>1. /\ stack[1].at <= NSinks + 3 /\ c \in Signals /\ ~sinksRun' /\ xc' = xc
          /\ f \in Frames /\ ~Past(f) /\ (f.fn = "stop" => f.at <= StopLength)
          /\ f.fn = "run" => f.at = stack[1].at
          /\ (Top.pc)' = "count" => Op' \in {"wait", "close"}
      BY <2>3
    <3>2. c.op = Op' /\ c.on = On' /\ c.pc = (Top.pc)'
      OBVIOUS
    <3>3. ~CutSinks(c)
      BY <1>1, <1>3, <3>1 DEF SinksCut
    <3>4. Op' = CallOf(f).op /\ On' = CallOf(f).on
      BY DEF Op, On
    <3>5. (InSinks' <=> f.at > b /\ f.at <= b + NSinks + 1)
      BY DEF InSinks, BeforeSinks
    <3> HIDE DEF c, f
    <3>6. \/ Op' \in {"join", "stop", "wait"} /\ f.at < b
          \/ Op' = "close" /\ On' \in {Reader, Log} /\ (f.at < b \/ f.at > b + NSinks + 1)
          \/ Op' = "sinksRun?" /\ f.at = b
          \/ \E i \in Sinks : Op' = "close" /\ On' = Sink(i) /\ f.at = b + i
          \/ Op' = "sinksStopped" /\ f.at = b + NSinks + 1
      BY <3>1, <3>4, PlaceIs
    <3>7. /\ Op' # "sinksStopped" /\ ~(Op' = "close" /\ \E i \in Sinks : On' = Sink(i))
          /\ ~(Op' = "wait" /\ (Top.pc)' # "call")
      BY <3>2, <3>3 DEF CutSinks
    <3>8. f.at \in Nat \ {0} /\ b \in Nat
      BY <1>2, <3>1 DEF Frames
    <3>9. ~InSinks'
      <4> HIDE DEF b
      <4> QED BY <1>2, <3>5, <3>6, <3>7, <3>8
    <3>10. (Top.pc)' = "count" => xc'[On'].exists
      <4> SUFFICES ASSUME (Top.pc)' = "count" PROVE xc[On'].exists
        BY <3>1
      <4>1. Op' = "close" /\ On' \in {Reader, Log}
        BY <3>1, <3>6, <3>7
      <4>2. xc[Reader].exists /\ (~xc[Log].exists => stack[1].at > NSinks + 3)
        BY DEF Objects
      <4>3. stack[1].at \in Nat
        BY StackIs
      <4> QED BY <1>2, <3>1, <4>1, <4>2, <4>3
    <3> QED BY <3>1, <3>9, <3>10
  <2> QED BY <2>2, <2>3
<1> QED BY <1>3 DEF Regions, Sinks

-----------------------------------------------------------------------------
(* Steps of the main thread that leave the threads' objects alone. *)

\* Who is where after the top call went on.
LEMMA UsersMove ==
  ASSUME Shape, NEW p \in PCs, Go(p)
  PROVE  \A t, pcs :
           /\ t # On \/ (Top.pc \in pcs <=> p \in pcs) => Users(t, pcs)' = Users(t, pcs)
           /\ t # On \/ p \notin pcs \/ Top.pc \in pcs => Users(t, pcs)' \subseteq Users(t, pcs)
           /\ t # On \/ Top.pc \notin pcs \/ p \in pcs => Users(t, pcs) \subseteq Users(t, pcs)'
           /\ t = On /\ p \in pcs => Users(t, pcs)' = Users(t, pcs) \cup {Depth}
           /\ t = On /\ p \notin pcs => Users(t, pcs)' = Users(t, pcs) \ {Depth}
<1> TAKE t, pcs
<1>1. Users(t, pcs)' = IF t = On THEN IF p \in pcs THEN Users(t, pcs) \cup {Depth}
                                      ELSE Users(t, pcs) \ {Depth}
                       ELSE Users(t, pcs)
  BY UsersGo
<1>2. Depth \in Users(t, pcs) <=> t = On /\ Top.pc \in pcs
  BY TopUses
<1> QED BY <1>1, <1>2

\* The places in a call, by the groups the invariant counts.
LEMMA PCsAre ==
  /\ Waiting = {"event", "blocked", "last?"} /\ Joining = {"join", "joining", "joined"}
  /\ PCs = {"call", "count", "waited", "closed", "event", "blocked", "last?", "join", "joining", "joined"}
BY DEF Waiting, Joining, PCs

\* The top call goes from one place to another, as far as nothing else changes.
LEMMA CallGoes ==
  ASSUME TInv, ~Finished, harm = {}, NEW p \in PCs, Go(p), told' \subseteq AllThreads,
         UNCHANGED <<pthread, joined, created, xc, pipeline, sinksRun, cut, harm>>,
         p \in {"count", "waited"} \cup Waiting => Op \in {"wait", "close"},
         p = "closed" => Op = "close",
         p \in Joining => Op \in {"join", "stop", "wait", "close"},
         Top.pc \in Waiting <=> p \in Waiting,
         On \in XCThreads => (Top.pc \in Joining <=> p \in Joining),
         Top.pc # "joining" /\ p # "joining" /\ Top.pc # "joined",
         p = "joined" => On \in Elements /\ joined[On] # "no",
         p = "last?" => xc[On].event \/ Spurious,
         On \in XCThreads /\ p \in {"waited", "closed"} =>
           Top.pc \in {"waited", "closed"} \/ joined[On] = "yes",
         Top.pc \in {"waited", "closed"} => p \in {"waited", "closed"},
         p = "join" => On \in Elements /\ created[On],
         p = "count" => xc[On].exists /\ (Op = "close" => xc[On].valid)
  PROVE  TInv'
<1>1. /\ Shape /\ Interrupted /\ Ranges /\ Waits /\ Joins /\ Objects /\ Leaving /\ Passed
      /\ FlagsHold /\ Regions /\ Harmed
  BY DEF TInv
<1>2. /\ Shape' /\ Interrupted' /\ stack'[1].at = stack[1].at
      /\ On' = On /\ Op' = Op /\ (Top.pc)' = p /\ (Top.at)' = Top.at
      /\ BeforeSinks' = BeforeSinks /\ InSinks' = InSinks /\ Signals' = Signals
  BY <1>1, GoesOn
<1>3. /\ \A t \in XCThreads : t # On \/ t = On
      /\ Elements \cap XCThreads = {} /\ XCThreads \subseteq AllThreads /\ Elements \subseteq AllThreads
      /\ \A i \in Sinks : Sink(i) \in XCThreads
  BY NamesAre
<1>4. \A t, pcs :
           /\ t # On \/ (Top.pc \in pcs <=> p \in pcs) => Users(t, pcs)' = Users(t, pcs)
           /\ t # On \/ p \notin pcs \/ Top.pc \in pcs => Users(t, pcs)' \subseteq Users(t, pcs)
           /\ t # On \/ Top.pc \notin pcs \/ p \in pcs => Users(t, pcs) \subseteq Users(t, pcs)'
  BY <1>1, UsersMove
<1>5. Ranges'
  BY <1>1 DEF Ranges, AllThreads, XCThreads, Elements, Reader, Log, Sink, Sinks, Harms
<1>6. Waits'
  <2>1. \A t \in XCThreads : /\ xc'[t].waits = xc[t].waits /\ xc'[t].locked = xc[t].locked
                             /\ Users(t, Waiting)' = Users(t, Waiting)
                             /\ Users(t, Joining)' = Users(t, Joining)
    BY <1>4
  <2> QED BY <1>1, <2>1, WaitsStay
<1>7. Joins'
  <2>1. \A t \in AllThreads : /\ pthread[t] = "exited" => pthread'[t] = "exited"
                              /\ Users(t, {"joining"})' = Users(t, {"joining"})
                              /\ \/ Users(t, {"joined"})' \subseteq Users(t, {"joined"})
                                 \/ t \in Elements /\ joined[t] # "no"
    <3>1. Top.pc \notin {"joining"} /\ p \notin {"joining"}
      OBVIOUS
    <3>2. p \notin {"joined"} \/ (On \in Elements /\ joined[On] # "no")
      OBVIOUS
    <3> QED BY <1>4, <3>1, <3>2
  <2>2. \A t \in Elements : created'[t] \/ ~created[t] \/ joined[t] # "no"
    OBVIOUS
  <2>3. \A t \in XCThreads : /\ xc'[t].event => xc[t].event \/ pthread'[t] = "exited"
                             /\ \/ xc'[t].valid = xc[t].valid /\ (xc[t].locked => xc'[t].locked)
                                \/ ~xc'[t].valid /\ joined[t] = "yes"
    OBVIOUS
  <2>4. joined' = joined
    OBVIOUS
  <2> QED BY <1>1, <2>1, <2>2, <2>3, <2>4, JoinsStay
<1>8. Objects'
  <2>1. stack[1].at \in Nat /\ stack'[1].at >= stack[1].at
    <3>1. stack[1].at \in Nat
      BY <1>1, StackIs
    <3> QED BY <1>2, <3>1
  <2>2. \A t \in XCThreads : /\ xc'[t].exists = xc[t].exists /\ xc'[t].known = xc[t].known
                             /\ joined[t] = "yes" => joined'[t] = "yes"
    OBVIOUS
  <2> QED BY <1>1, <1>2, <2>1, <2>2, ObjectsStay
<1>9. Leaving'
  <2>0. \A t \in XCThreads : Users(t, Waiting)' = Users(t, Waiting)
    BY <1>4
  <2>1. \A t \in XCThreads : Users(t, {"last?"})' # {} => xc'[t].event \/ Spurious
    <3>1. \A t \in XCThreads : Users(t, {"last?"}) # {} => xc[t].event \/ Spurious
      BY <1>1 DEF Leaving
    <3>2. p # "last?" => \A t : Users(t, {"last?"})' \subseteq Users(t, {"last?"})
      BY <1>4
    <3>3. \A t : t # On => Users(t, {"last?"})' \subseteq Users(t, {"last?"})
      BY <1>4
    <3> QED BY <3>1, <3>2, <3>3
  <2>2. \A t \in XCThreads : \A d \in Users(t, {"waited", "closed"})' :
          joined'[t] = "yes" \/ ((xc'[t].event \/ Spurious) /\ \E e \in Users(t, Waiting)' : e < d)
    <3>1. \A t \in XCThreads : \A d \in Users(t, {"waited", "closed"}) :
            joined[t] = "yes" \/ ((xc[t].event \/ Spurious) /\ \E e \in Users(t, Waiting) : e < d)
      BY <1>1 DEF Leaving
    <3>2. \A t \in XCThreads : \/ Users(t, {"waited", "closed"})' \subseteq Users(t, {"waited", "closed"})
                               \/ joined[t] = "yes"
      BY <1>4
    <3> QED BY <2>0, <3>1, <3>2
  <2> QED BY <2>1, <2>2 DEF Leaving, XCThreads, Reader, Log, Sink, Sinks, Waiting
<1>10. Passed'
  <2>1. \A i \in Sinks :
          LET t == Sink(i) pcs == Joining \cup {"waited", "closed"}
          IN  joined'[t] = "yes" /\ xc'[t].exists =>
                \/ Users(t, pcs)' # {}
                \/ joined[t] = "yes" /\ xc[t].exists /\ Users(t, pcs) \subseteq Users(t, pcs)'
    <3> DEFINE pcs == Joining \cup {"waited", "closed"}
    <3>1. On \in XCThreads => Top.pc \notin pcs \/ p \in pcs
      OBVIOUS
    <3> HIDE DEF pcs
    <3>2. \A t \in XCThreads : Users(t, pcs) \subseteq Users(t, pcs)'
      BY <1>4, <3>1
    <3> QED BY <1>3, <3>2 DEF pcs
  <2>2. \A t \in AllThreads : joined[t] = "yes" => joined'[t] = "yes"
    OBVIOUS
  <2> QED BY <1>1, <1>2, <2>1, <2>2, PassedStay
<1>11. FlagsHold'
  <2>1. \A t \in Elements : joined'[t] = "yes" /\ created'[t] =>
           \/ joined[t] = "yes" /\ created[t] /\ ~(Top.pc = "joined" /\ On = t)
           \/ p = "joined" /\ On = t
    OBVIOUS
  <2>2. p = "join" /\ On \in Elements => created'[On]
    OBVIOUS
  <2>3. \A t \in XCThreads : Users(t, {"join"} \cup Waiting)' # {} =>
           joined'[t] = "no" \/ (joined'[t] = joined[t] /\ Users(t, {"join"} \cup Waiting) # {})
    <3>1. On \in XCThreads => p \notin {"join"} \cup Waiting \/ Top.pc \in {"join"} \cup Waiting
      BY <1>3
    <3>2. \A t \in XCThreads : Users(t, {"join"} \cup Waiting)' \subseteq Users(t, {"join"} \cup Waiting)
      BY <1>4, <3>1
    <3> QED BY <3>2
  <2>4. p = "count" /\ Op = "close" => xc'[On].valid
    OBVIOUS
  <2>5. harm' = harm
    OBVIOUS
  <2> QED BY <1>1, <1>2, <2>1, <2>2, <2>3, <2>4, <2>5, FlagsStay
<1>12. Regions'
  BY <1>1, <1>2, RegionsStay
<1>13. Harmed'
  BY <1>1, <1>2, HarmedStay
<1> QED BY <1>2, <1>5, <1>6, <1>7, <1>8, <1>9, <1>10, <1>11, <1>12, <1>13 DEF TInv

\* The top call returns, for the rest of the invariant to use.
LEMMA Returns ==
  ASSUME Shape, Interrupted, ~Finished, Return, cut' = cut
  PROVE  /\ Shape' /\ Interrupted' /\ Signals' = Signals
         /\ \A t, pcs : "call" \notin pcs => Users(t, pcs)' = Users(t, pcs) \ {Depth}
         /\ stack'[1].at = IF Depth = 1 THEN stack[1].at + 1 ELSE stack[1].at
         /\ stack[1].at \in Nat /\ stack'[1].at \in Nat /\ stack'[1].at >= stack[1].at
         /\ \/ (Top.pc)' = "call" /\ (Top.fn)' = Top.fn /\ (Top.at)' = Top.at + 1
            \/ /\ Depth # 1 /\ Op = "sinksStopped" /\ stack[1].at <= NSinks + 3
               /\ [op |-> Op', on |-> On', pc |-> (Top.pc)'] \in Signals
               /\ Top' \in Frames /\ ~Past(Top') /\ ((Top.fn)' = "stop" => (Top.at)' <= StopLength)
               /\ (Top.fn)' = "run" => (Top.at)' = stack[1].at
<1>1. \/ /\ Depth # 1 /\ Op = "sinksStopped" /\ stack' = Front(stack)
      \/ /\ Depth = 1 \/ Op # "sinksStopped"
         /\ stack' = [stack EXCEPT ![Depth].at = @ + 1, ![Depth].pc = "call"]
  BY ReturnIs
<1>2. Top = stack[Depth] /\ stack[1].at \in Nat /\ Top.at \in Nat \ {0} /\ (Top.fn = "run" <=> Depth = 1)
      /\ Top.fn \in {"run", "stop"}
      /\ NSinks \in Nat \ {0} /\ RunLength = 2 * NSinks + 8 /\ StopLength = NSinks + 5
  BY StackIs, TopSays DEF Frames
<1>3. \/ Depth # 1 /\ stack' = Front(stack)
      \/ /\ stack' = [stack EXCEPT ![Depth].at = @ + 1, ![Depth].pc = "call"]
         /\ stack[Depth].at + 1 <= IF Depth = 1 THEN RunLength + 1 ELSE StopLength
  <2>1. CASE Depth # 1 /\ Op = "sinksStopped" /\ stack' = Front(stack)
    BY <2>1
  <2>2. CASE /\ Depth = 1 \/ Op # "sinksStopped"
             /\ stack' = [stack EXCEPT ![Depth].at = @ + 1, ![Depth].pc = "call"]
    <3>1. CASE Depth = 1
      <4>1. Top.at <= RunLength
        BY <1>2, <3>1, TopSays
      <4> QED BY <1>2, <2>2, <3>1, <4>1
    <3>2. CASE Depth # 1
      <4>1. Top.fn = "stop" /\ Top.at <= StopLength /\ Top.at # StopLength
        BY <1>2, <2>2, <3>2, TopSays
      <4> QED BY <1>2, <2>2, <3>2, <4>1
    <3> QED BY <3>1, <3>2
  <2> QED BY <1>1, <2>1, <2>2
<1>4. /\ Shape' /\ Interrupted'
      /\ \A t, pcs : "call" \notin pcs => Users(t, pcs)' = Users(t, pcs) \ {Depth}
      /\ stack'[1].at = IF Depth = 1 THEN stack[1].at + 1 ELSE stack[1].at
  BY <1>3, LeaveIs
<1>5. /\ \/ /\ (Top.pc)' = "call" /\ (Top.fn)' = Top.fn /\ (Top.at)' = Top.at + 1
            /\ ~(Depth # 1 /\ stack' = Front(stack))
         \/ /\ Depth # 1 /\ stack' = Front(stack) /\ stack[1].at <= NSinks + 3
            /\ [op |-> Op', on |-> On', pc |-> (Top.pc)'] \in Signals
            /\ Top' \in Frames /\ ~Past(Top') /\ ((Top.fn)' = "stop" => (Top.at)' <= StopLength)
            /\ (Top.fn)' = "run" => (Top.at)' = stack[1].at
      /\ Signals' = Signals
  BY <1>3, LeavesOff
<1>6. Depth # 1 /\ stack' = Front(stack) => Op = "sinksStopped"
  <2>1. SUFFICES ASSUME Depth # 1, stack' = Front(stack), Op # "sinksStopped" PROVE FALSE
    OBVIOUS
  <2>2. stack' = [stack EXCEPT ![Depth].at = @ + 1, ![Depth].pc = "call"]
    BY <1>1, <2>1
  <2>3. Depth' = Depth - 1 /\ Depth \in Nat
    BY <2>1, PopIs, StackIs
  <2>4. Depth' = Depth
    BY <2>2, AdvanceIs
  <2> QED BY <2>3, <2>4
<1>7. stack'[1].at \in Nat /\ stack'[1].at >= stack[1].at
  BY <1>2, <1>4
<1> QED BY <1>2, <1>4, <1>5, <1>6, <1>7

\* The top call of join, stop or wait is over.
LEMMA CallEnds ==
  ASSUME TInv, ~Finished, harm = {}, Return, told' \subseteq AllThreads,
         UNCHANGED <<pthread, joined, xc, pipeline, sinksRun, cut, harm>>,
         Op \in {"join", "stop", "wait"}, Top.pc \in {"call", "joined", "waited"},
         created' \in [Elements -> BOOLEAN],
         \A t \in Elements : created'[t] = created[t] \/ (~created'[t] /\ joined[t] # "no"),
         Top.pc = "joined" => On \in Elements /\ ~created'[On],
         Depth = 1 /\ Op \in {"join", "wait"} => joined[On] = "yes"
  PROVE  TInv'
<1>1. /\ Shape /\ Interrupted /\ Ranges /\ Waits /\ Joins /\ Objects /\ Leaving /\ Passed
      /\ FlagsHold /\ Regions /\ Harmed
  BY DEF TInv
<1>2. /\ Shape' /\ Interrupted' /\ Signals' = Signals
      /\ \A t, pcs : "call" \notin pcs => Users(t, pcs)' = Users(t, pcs) \ {Depth}
      /\ stack'[1].at = IF Depth = 1 THEN stack[1].at + 1 ELSE stack[1].at
      /\ stack[1].at \in Nat /\ stack'[1].at \in Nat /\ stack'[1].at >= stack[1].at
      /\ (Top.pc)' = "call" /\ (Top.fn)' = Top.fn /\ (Top.at)' = Top.at + 1
  BY <1>1, Returns
<1>3. /\ Elements \cap XCThreads = {} /\ XCThreads \subseteq AllThreads /\ Elements \subseteq AllThreads
      /\ \A i \in Sinks : Sink(i) \in XCThreads
      /\ Op \in {"join", "stop"} => On \in Elements
  BY <1>1, NamesAre, TopSays
<1>4. \A t, pcs : Depth \in Users(t, pcs) <=> t = On /\ Top.pc \in pcs
  BY <1>1, TopUses
<1>5. \A t, pcs : "call" \notin pcs => Users(t, pcs)' \subseteq Users(t, pcs)
  BY <1>2
<1>6. \A t, pcs : "call" \notin pcs /\ (t # On \/ Top.pc \notin pcs) => Users(t, pcs)' = Users(t, pcs)
  <2> TAKE t, pcs
  <2>1. "call" \notin pcs => Users(t, pcs)' = Users(t, pcs) \ {Depth}
    BY <1>2
  <2>2. Depth \in Users(t, pcs) <=> t = On /\ Top.pc \in pcs
    BY <1>4
  <2> QED BY <2>1, <2>2
<1>7. On \in XCThreads => Top.pc # "joined" /\ Op = "wait"
  BY <1>3
<1>8. Ranges'
  BY <1>1 DEF Ranges, AllThreads, XCThreads, Elements, Reader, Log, Sink, Sinks, Harms
<1>9. Waits'
  <2>1. "call" \notin Waiting /\ "call" \notin Joining /\ Top.pc \notin Waiting
        /\ (On \in XCThreads => Top.pc \notin Joining)
    BY <1>7, PCsAre
  <2>2. \A t \in XCThreads : /\ xc'[t].waits = xc[t].waits /\ xc'[t].locked = xc[t].locked
                             /\ Users(t, Waiting)' = Users(t, Waiting)
                             /\ Users(t, Joining)' = Users(t, Joining)
    BY <1>6, <2>1
  <2> QED BY <1>1, <2>2, WaitsStay
<1>10. Joins'
  <2>1. \A t \in AllThreads : /\ pthread[t] = "exited" => pthread'[t] = "exited"
                              /\ Users(t, {"joining"})' = Users(t, {"joining"})
                              /\ \/ Users(t, {"joined"})' \subseteq Users(t, {"joined"})
                                 \/ t \in Elements /\ joined[t] # "no"
    BY <1>5, <1>6
  <2>2. \A t \in Elements : created'[t] \/ ~created[t] \/ joined[t] # "no"
    OBVIOUS
  <2>3. \A t \in XCThreads : /\ xc'[t].event => xc[t].event \/ pthread'[t] = "exited"
                             /\ \/ xc'[t].valid = xc[t].valid /\ (xc[t].locked => xc'[t].locked)
                                \/ ~xc'[t].valid /\ joined[t] = "yes"
    OBVIOUS
  <2>4. joined' = joined
    OBVIOUS
  <2> QED BY <1>1, <2>1, <2>2, <2>3, <2>4, JoinsStay
<1>11. Objects'
  <2>1. \A t \in XCThreads : /\ xc'[t].exists = xc[t].exists /\ xc'[t].known = xc[t].known
                             /\ joined[t] = "yes" => joined'[t] = "yes"
    OBVIOUS
  <2> QED BY <1>1, <1>2, <2>1, ObjectsStay
<1>12. Leaving'
  <2>1. \A t \in XCThreads :
           /\ xc[t].event => xc'[t].event
           /\ joined[t] = "yes" => joined'[t] = "yes"
           /\ Users(t, {"last?"})' \subseteq Users(t, {"last?"})
           /\ Users(t, {"waited", "closed"})' \subseteq Users(t, {"waited", "closed"})
           /\ Users(t, Waiting) \subseteq Users(t, Waiting)'
    <3>1. "call" \notin Waiting /\ Top.pc \notin Waiting
      BY PCsAre
    <3> QED BY <1>5, <1>6, <3>1
  <2> QED BY <1>1, <2>1, LeavingStay
<1>13. Passed'
  <2>1. \A i \in Sinks :
          LET t == Sink(i) pcs == Joining \cup {"waited", "closed"}
          IN  xc'[t].exists =>
                xc[t].exists /\ (Users(t, pcs) \subseteq Users(t, pcs)' \/ (On = t /\ Op = "wait"))
    <3> DEFINE pcs == Joining \cup {"waited", "closed"}
    <3>1. "call" \notin pcs
      BY PCsAre
    <3> HIDE DEF pcs
    <3>2. \A t \in XCThreads : Users(t, pcs)' = Users(t, pcs) \/ t = On
      BY <1>6, <3>1
    <3> QED BY <1>3, <1>7, <3>2 DEF pcs
  <2>2. joined' = joined /\ (Depth = 1 /\ Op \in {"join", "wait", "close"} => joined[On] = "yes")
    OBVIOUS
  <2> QED BY <1>1, <1>2, <2>1, <2>2, PassedLeave
<1>14. FlagsHold'
  <2>1. \A t \in Elements : created'[t] => created[t] /\ ~(Top.pc = "joined" /\ On = t)
    OBVIOUS
  <2>2. \A t \in XCThreads : Users(t, {"join"} \cup Waiting)' \subseteq Users(t, {"join"} \cup Waiting)
    <3>1. "call" \notin {"join"} \cup Waiting
      BY PCsAre
    <3> QED BY <1>5, <3>1
  <2> QED BY <1>1, <1>2, <2>1, <2>2, FlagsLeave
<1>15. Regions'
  BY <1>1, <1>2, RegionsLeave
<1>16. Harmed'
  BY <1>1, <1>2, HarmedStay
<1> QED BY <1>2, <1>8, <1>9, <1>10, <1>11, <1>12, <1>13, <1>14, <1>15, <1>16 DEF TInv

\* The frame at the bottom.
LEMMA BottomIs == ASSUME Shape PROVE stack[1].at \in Nat /\ stack[1].at >= stack[1].at
<1>1. Depth \in Nat \ {0} /\ \A d \in 1 .. Depth : stack[d].at \in Nat \ {0}
  BY StackIs
<1>2. 1 \in 1 .. Depth
  BY <1>1
<1> QED BY <1>1, <1>2

\* Something undefined happens, in one of the places that signals do not bear.
LEMMA HarmStays ==
  ASSUME TInv, NEW what \in Harms, Harm(what),
         UNCHANGED <<pthread, told, joined, created, xc, sinksRun, cut>>,
         pipeline' \subseteq Sinks,
         what = "joined twice" => FlagsCut, what # "joined twice" => SinksCut \/ ReaderCut
  PROVE  TInv'
<1>1. harm' = {what} /\ stack' = stack
  BY DEF Harm
<1>2. /\ Shape' /\ Interrupted' /\ Ranges' /\ Waits' /\ Joins' /\ Objects' /\ Leaving' /\ Passed'
  <2>1. Shape'
    BY <1>1 DEF TInv, Shape, Depth, Who, What, Pc, Past, Frames, Cuts, PCs, Waiting, Joining, RunLength,
                StopLength
  <2>2. Interrupted'
    BY <1>1 DEF TInv, Interrupted, Signals, Depth, Who, What, Pc
  <2>3. Ranges'
    BY <1>1 DEF TInv, Ranges, Harms, AllThreads, Elements, XCThreads, Reader, Log, Sink, Sinks
  <2>4. \A t, pcs : Users(t, pcs)' = Users(t, pcs)
    BY <1>1 DEF Users, Depth, Who, Pc
  <2>0. Shape /\ Waits /\ Joins /\ Leaving /\ Objects /\ Passed
    BY DEF TInv
  <2>5. Waits'
    BY <2>0, <2>4, WaitsStay
  <2>6. Joins' /\ Leaving'
    BY <2>0, <2>4, JoinsStay, LeavingStay
  <2>7. Objects'
    <3>1. stack[1].at \in Nat
      BY <2>0, BottomIs
    <3>2. stack'[1].at \in Nat /\ stack'[1].at >= stack[1].at
      BY <1>1, <2>0, BottomIs
    <3> QED BY <2>0, <3>1, <3>2, ObjectsStay
  <2>8. Passed'
    <3>1. stack'[1].at = stack[1].at
      BY <1>1
    <3> QED BY <2>0, <2>4, <3>1, PassedStay
  <2> QED BY <2>1, <2>2, <2>3, <2>5, <2>6, <2>7, <2>8
<1>3. FlagsHold' /\ Regions'
  BY <1>1 DEF FlagsHold, Regions
<1>4. Harmed'
  <2>1. FlagsCut' = FlagsCut /\ SinksCut' = SinksCut /\ ReaderCut' = ReaderCut
    BY DEF FlagsCut, SinksCut, ReaderCut, Signals
  <2> QED BY <1>1, <2>1 DEF Harmed, Harms
<1> QED BY <1>2, <1>3, <1>4 DEF TInv

\* BaseElement::Join or Stop tests thread_created_.
LEMMA ElementBeginsKeeps == ASSUME TInv, ElementBegins PROVE TInv'
<1>1. /\ Shape /\ Ranges /\ Waits /\ Joins
  BY DEF TInv
<1>2. /\ ~Finished /\ harm = {} /\ Top.pc = "call" /\ Op \in {"join", "stop"}
      /\ UNCHANGED <<pthread, joined, created, xc, pipeline, sinksRun, cut, harm>>
      /\ told' = (IF Op = "stop" THEN told \cup {On} ELSE told)
  BY DEF ElementBegins, At
<1>3. On \in Elements /\ On \in AllThreads /\ On \notin XCThreads
  BY <1>1, <1>2, TopSays, NamesAre
<1>4. told' \subseteq AllThreads
  BY <1>1, <1>2, <1>3 DEF Ranges
<1>5. CASE created[On] /\ Go("join")
  BY <1>2, <1>3, <1>4, <1>5, PCsAre, CallGoes
<1>6. CASE ~created[On] /\ Return
  <2>1. Depth = 1 => joined[On] = "yes"
    <3>1. joined[On] \in {"no", "joining", "yes"}
      BY <1>1, <1>3 DEF Ranges
    <3>2. joined[On] # "no"
      BY <1>1, <1>3, <1>6 DEF Joins
    <3>3. Depth = 1 => Users(On, {"joining"}) = {}
      <4>1. Top.pc = Pc(Depth) /\ Depth = 1 => 1 .. Depth = {Depth}
        BY <1>1, StackIs
      <4> QED BY <1>1, <1>2, <4>1, StackIs DEF Users
    <3>4. joined[On] = "joining" => Users(On, {"joining"}) # {}
      BY <1>1, <1>3 DEF Joins
    <3> QED BY <3>1, <3>2, <3>3, <3>4
  <2>2. created' \in [Elements -> BOOLEAN]
    BY <1>1, <1>2 DEF Ranges
  <2> QED BY <1>2, <1>4, <1>6, <2>1, <2>2, CallEnds
<1> QED BY <1>5, <1>6 DEF ElementBegins

\* BaseElement::Join or Stop clears thread_created_.
LEMMA ElementEndsKeeps == ASSUME TInv, ElementEnds PROVE TInv'
<1>1. /\ Shape /\ Ranges /\ Waits /\ Joins
  BY DEF TInv
<1>2. /\ ~Finished /\ harm = {} /\ Top.pc = "joined" /\ On \in Elements
      /\ UNCHANGED <<pthread, told, joined, xc, pipeline, sinksRun, cut, harm>>
      /\ created' = [created EXCEPT ![On] = FALSE] /\ Return
  BY DEF ElementEnds, At
<1>3. Op \in {"join", "stop"} /\ On \notin XCThreads /\ On \in AllThreads
  <2>1. Elements \cap XCThreads = {} /\ Elements \subseteq AllThreads
    BY NamesAre
  <2>2. Op \in {"join", "stop", "wait", "close"} /\ (Op \in {"wait", "close"} => On \in XCThreads)
    BY <1>1, <1>2, TopSays, PCsAre
  <2> QED BY <1>2, <2>1, <2>2
<1>4. joined[On] # "no"
  <2>1. Depth \in Users(On, {"joined"})
    BY <1>1, <1>2, TopUses
  <2> QED BY <1>1, <1>2, <2>1 DEF Joins
<1>5. Depth = 1 => joined[On] = "yes"
  <2>1. joined[On] \in {"no", "joining", "yes"}
    BY <1>1, <1>3 DEF Ranges
  <2>2. Depth = 1 => Users(On, {"joining"}) = {}
    <3>1. Top.pc = Pc(Depth) /\ Depth = 1 => 1 .. Depth = {Depth}
      BY <1>1, StackIs
    <3> QED BY <1>1, <1>2, <3>1, StackIs DEF Users
  <2>3. joined[On] = "joining" => Users(On, {"joining"}) # {}
    BY <1>1, <1>3 DEF Joins
  <2> QED BY <1>4, <2>1, <2>2, <2>3
<1>6. created' \in [Elements -> BOOLEAN] /\ ~created'[On]
      /\ \A t \in Elements : created'[t] = created[t] \/ (~created'[t] /\ joined[t] # "no")
  BY <1>1, <1>2, <1>4 DEF Ranges
<1>7. told' \subseteq AllThreads
  BY <1>1, <1>2 DEF Ranges
<1> QED BY <1>2, <1>3, <1>5, <1>6, <1>7, CallEnds

\* SinkWrap::Wait tests for the thread.
LEMMA WaitBeginsKeeps == ASSUME TInv, WaitBegins PROVE TInv'
<1>1. Shape /\ Ranges /\ Objects
  BY DEF TInv
<1>2. /\ ~Finished /\ harm = {} /\ Top.pc = "call" /\ Op = "wait"
      /\ UNCHANGED <<pthread, told, joined, created, xc, pipeline, sinksRun, cut, harm>>
  BY DEF WaitBegins, At
<1>3. On \in XCThreads /\ On \notin Elements
  <2>1. On \in XCThreads
    BY <1>1, <1>2, TopSays
  <2> QED BY <2>1, NamesAre
<1>4. told' \subseteq AllThreads /\ created' \in [Elements -> BOOLEAN]
  BY <1>1, <1>2 DEF Ranges
<1>5. xc[On].exists = xc[On].known /\ (~xc[On].exists => joined[On] = "yes")
  BY <1>1, <1>3 DEF Objects
<1>6. CASE xc[On].known /\ Go("count")
  BY <1>2, <1>3, <1>4, <1>5, <1>6, PCsAre, CallGoes
<1>7. CASE ~xc[On].known /\ Return
  BY <1>2, <1>4, <1>5, <1>7, CallEnds
<1> QED BY <1>6, <1>7 DEF WaitBegins

\* Close begins, with the flag its caller clears first.
LEMMA CloseBeginsKeeps == ASSUME TInv, CloseBegins PROVE TInv'
<1>1. Shape /\ Ranges /\ Objects /\ Joins /\ Regions
  BY DEF TInv
<1>2. /\ ~Finished /\ harm = {} /\ Top.pc = "call" /\ Op = "close"
      /\ UNCHANGED <<pthread, joined, created, xc, pipeline, sinksRun, cut>>
  BY DEF CloseBegins, At
<1>3. On \in XCThreads /\ On \notin Elements /\ On \in AllThreads
  <2>1. On \in XCThreads
    BY <1>1, <1>2, TopSays
  <2> QED BY <2>1, NamesAre
<1>4. CASE PipelineIsGone /\ Harm("used") /\ UNCHANGED told
  <2>1. SinksCut
    <3>1. SUFFICES ASSUME ~SinksCut PROVE FALSE
      OBVIOUS
    <3>2. PICK i \in Sinks : i \notin pipeline /\ On = Sink(i)
      BY <1>4 DEF PipelineIsGone
    <3>3. Top.at = BeforeSinks + i
      BY <1>1, <1>2, <3>2, TopPlace, NamesAre
    <3>4. BeforeSinks \in Nat /\ i \in Nat /\ 1 <= i /\ i <= NSinks /\ NSinks \in Nat
      BY <3>2, ThreadsAssumption DEF BeforeSinks, Sinks
    <3>5. InSinks /\ BeforeSinks + i >= Top.at
      BY <3>3, <3>4 DEF InSinks
    <3> QED BY <1>1, <1>2, <3>1, <3>2, <3>5 DEF Regions
  <2>2. pipeline' \subseteq Sinks /\ "used" \in Harms
    BY <1>1, <1>2 DEF Ranges, Harms
  <2> QED BY <1>2, <1>4, <2>1, <2>2, HarmStays
<1>5. CASE /\ told' = told \cup {On} /\ UNCHANGED harm
           /\ Go(IF xc[On].known /\ xc[On].valid THEN "count" ELSE "closed")
  <2>1. told' \subseteq AllThreads
    BY <1>1, <1>3, <1>5 DEF Ranges
  <2>2. xc[On].exists = xc[On].known /\ (~xc[On].exists => joined[On] = "yes")
        /\ (~xc[On].valid => joined[On] = "yes")
    BY <1>1, <1>3 DEF Objects, Joins
  <2>3. CASE xc[On].known /\ xc[On].valid /\ Go("count")
    BY <1>2, <1>3, <1>5, <2>1, <2>2, <2>3, PCsAre, CallGoes
  <2>4. CASE ~(xc[On].known /\ xc[On].valid) /\ Go("closed")
    BY <1>2, <1>3, <1>5, <2>1, <2>2, <2>4, PCsAre, CallGoes
  <2> QED BY <1>5, <2>3, <2>4
<1> QED BY <1>4, <1>5 DEF CloseBegins

\* A call waits for the exit event.
LEMMA EventWaitKeeps == ASSUME TInv, EventWait \/ SpuriousWakeup PROVE TInv'
<1>1. Shape /\ Ranges
  BY DEF TInv
<1>2. /\ ~Finished /\ harm = {} /\ Top.pc \in {"event", "blocked"}
      /\ UNCHANGED <<pthread, told, joined, created, xc, pipeline, sinksRun, cut, harm>>
  BY DEF EventWait, SpuriousWakeup, At
<1>3. told' \subseteq AllThreads /\ Op \in {"wait", "close"} /\ On \in XCThreads /\ On \notin Elements
  <2>1. told' \subseteq AllThreads
    BY <1>1, <1>2 DEF Ranges
  <2>2. Op \in {"wait", "close"} /\ (Op \in {"wait", "close"} => On \in XCThreads)
    BY <1>1, <1>2, TopSays, PCsAre
  <2> QED BY <2>1, <2>2, NamesAre
<1>4. CASE Go("blocked")
  BY <1>2, <1>3, <1>4, PCsAre, CallGoes
<1>5. CASE Go("last?") /\ (xc[On].event \/ Spurious)
  BY <1>2, <1>3, <1>5, PCsAre, CallGoes
<1>6. Go("blocked") \/ (Go("last?") /\ (xc[On].event \/ Spurious))
  BY DEF EventWait, SpuriousWakeup
<1> QED BY <1>4, <1>5, <1>6

\* Wait returns.
LEMMA WaitEndsKeeps == ASSUME TInv, WaitEnds PROVE TInv'
<1>1. Shape /\ Ranges /\ Leaving
  BY DEF TInv
<1>2. /\ ~Finished /\ harm = {} /\ Top.pc = "waited"
      /\ UNCHANGED <<pthread, told, joined, created, xc, pipeline, sinksRun, cut, harm>>
  BY DEF WaitEnds, At
<1>3. told' \subseteq AllThreads /\ created' \in [Elements -> BOOLEAN]
      /\ Op \in {"wait", "close"} /\ On \in XCThreads /\ On \notin Elements
  <2>1. told' \subseteq AllThreads /\ created' \in [Elements -> BOOLEAN]
    BY <1>1, <1>2 DEF Ranges
  <2>2. Op \in {"wait", "close"} /\ (Op \in {"wait", "close"} => On \in XCThreads)
    BY <1>1, <1>2, TopSays
  <2> QED BY <2>1, <2>2, NamesAre
<1>4. CASE Op = "close" /\ Go("closed")
  BY <1>2, <1>3, <1>4, PCsAre, CallGoes
<1>5. CASE Op = "wait" /\ Return
  <2>1. Depth = 1 => joined[On] = "yes"
    <3>1. Depth \in Users(On, {"waited", "closed"})
      BY <1>1, <1>2, TopUses
    <3>2. joined[On] = "yes" \/ \E e \in Users(On, Waiting) : e < Depth
      BY <1>1, <1>3, <3>1 DEF Leaving
    <3>3. Depth = 1 => \A e \in Users(On, Waiting) : ~(e < Depth)
      BY DEF Users
    <3> QED BY <3>2, <3>3
  <2> QED BY <1>2, <1>3, <1>5, <2>1, CallEnds
<1> QED BY <1>3, <1>4, <1>5 DEF WaitEnds

-----------------------------------------------------------------------------
(* Steps that change what is known of a thread. *)

XcStates == [event : BOOLEAN, waits : Nat, valid : BOOLEAN,
             locked : BOOLEAN, exists : BOOLEAN, known : BOOLEAN]

\* One object changes.
LEMMA XcIs ==
  ASSUME Ranges, NEW t \in XCThreads, NEW r \in XcStates, xc' = [xc EXCEPT ![t] = r]
  PROVE  xc' \in [XCThreads -> XcStates] /\ xc'[t] = r /\ \A u \in XCThreads : u # t => xc'[u] = xc[u]
<1>1. xc \in [XCThreads -> XcStates]
  BY DEF Ranges, XcStates
<1> QED BY <1>1

\* The field event of an object is set.
LEMMA EventField ==
  ASSUME NEW x \in XcStates, NEW v \in BOOLEAN, NEW r, r = [x EXCEPT !.event = v]
  PROVE  /\ r \in XcStates /\ r.event = v
         /\ r.waits = x.waits /\ r.valid = x.valid /\ r.locked = x.locked
         /\ r.exists = x.exists /\ r.known = x.known
BY DEF XcStates

\* The field waits of an object is set.
LEMMA WaitsField ==
  ASSUME NEW x \in XcStates, NEW v \in Nat, NEW r, r = [x EXCEPT !.waits = v]
  PROVE  /\ r \in XcStates /\ r.waits = v
         /\ r.event = x.event /\ r.valid = x.valid /\ r.locked = x.locked
         /\ r.exists = x.exists /\ r.known = x.known
BY DEF XcStates

\* The field valid of an object is set.
LEMMA ValidField ==
  ASSUME NEW x \in XcStates, NEW v \in BOOLEAN, NEW r, r = [x EXCEPT !.valid = v]
  PROVE  /\ r \in XcStates /\ r.valid = v
         /\ r.event = x.event /\ r.waits = x.waits /\ r.locked = x.locked
         /\ r.exists = x.exists /\ r.known = x.known
BY DEF XcStates

\* The field locked of an object is set.
LEMMA LockedField ==
  ASSUME NEW x \in XcStates, NEW v \in BOOLEAN, NEW r, r = [x EXCEPT !.locked = v]
  PROVE  /\ r \in XcStates /\ r.locked = v
         /\ r.event = x.event /\ r.waits = x.waits /\ r.valid = x.valid
         /\ r.exists = x.exists /\ r.known = x.known
BY DEF XcStates

\* The field exists of an object is set.
LEMMA ExistsField ==
  ASSUME NEW x \in XcStates, NEW v \in BOOLEAN, NEW r, r = [x EXCEPT !.exists = v]
  PROVE  /\ r \in XcStates /\ r.exists = v
         /\ r.event = x.event /\ r.waits = x.waits /\ r.valid = x.valid
         /\ r.locked = x.locked /\ r.known = x.known
BY DEF XcStates

\* The field known of an object is set.
LEMMA KnownField ==
  ASSUME NEW x \in XcStates, NEW v \in BOOLEAN, NEW r, r = [x EXCEPT !.known = v]
  PROVE  /\ r \in XcStates /\ r.known = v
         /\ r.event = x.event /\ r.waits = x.waits /\ r.valid = x.valid
         /\ r.locked = x.locked /\ r.exists = x.exists
BY DEF XcStates

\* A wait is counted, up or down.
LEMMA WaitsSet ==
  ASSUME Ranges, NEW t \in XCThreads, NEW w \in Nat, xc' = [xc EXCEPT ![t].waits = w]
  PROVE  /\ xc' \in [XCThreads -> XcStates] /\ xc'[t].waits = w
         /\ \A u \in XCThreads : u # t => xc'[u] = xc[u]
         /\ xc'[t].event = xc[t].event /\ xc'[t].valid = xc[t].valid /\ xc'[t].locked = xc[t].locked
         /\ xc'[t].exists = xc[t].exists /\ xc'[t].known = xc[t].known
<1> DEFINE v == w  r == [xc[t] EXCEPT !.waits = v]
<1>1. xc[t] \in XcStates
  BY DEF Ranges, XcStates
<1>2. xc' = [xc EXCEPT ![t] = r] /\ v = w /\ v \in Nat
  BY DEF Ranges
<1>3. v \in Nat
  BY <1>2
<1> HIDE DEF v
<1>4. /\ r \in XcStates /\ r.waits = v
      /\ r.event = xc[t].event /\ r.valid = xc[t].valid /\ r.locked = xc[t].locked
      /\ r.exists = xc[t].exists /\ r.known = xc[t].known
  BY <1>1, <1>3, WaitsField
<1> HIDE DEF r
<1> QED BY <1>2, <1>4, XcIs

\* Its thread is over.
LEMMA EventSet ==
  ASSUME Ranges, NEW t \in XCThreads, xc' = [xc EXCEPT ![t].event = TRUE]
  PROVE  /\ xc' \in [XCThreads -> XcStates] /\ xc'[t].event = TRUE
         /\ \A u \in XCThreads : u # t => xc'[u] = xc[u]
         /\ xc'[t].waits = xc[t].waits /\ xc'[t].valid = xc[t].valid /\ xc'[t].locked = xc[t].locked
         /\ xc'[t].exists = xc[t].exists /\ xc'[t].known = xc[t].known
<1> DEFINE v == TRUE  r == [xc[t] EXCEPT !.event = v]
<1>1. xc[t] \in XcStates
  BY DEF Ranges, XcStates
<1>2. xc' = [xc EXCEPT ![t] = r] /\ v = TRUE /\ v \in BOOLEAN
  BY DEF Ranges
<1>3. v \in BOOLEAN
  BY <1>2
<1> HIDE DEF v
<1>4. /\ r \in XcStates /\ r.event = v
      /\ r.waits = xc[t].waits /\ r.valid = xc[t].valid /\ r.locked = xc[t].locked
      /\ r.exists = xc[t].exists /\ r.known = xc[t].known
  BY <1>1, <1>3, EventField
<1> HIDE DEF r
<1> QED BY <1>2, <1>4, XcIs

\* The last to leave takes the mutex.
LEMMA LockSet ==
  ASSUME Ranges, NEW t \in XCThreads, xc' = [xc EXCEPT ![t].waits = 0, ![t].locked = TRUE]
  PROVE  /\ xc' \in [XCThreads -> XcStates] /\ xc'[t].waits = 0 /\ xc'[t].locked = TRUE
         /\ \A u \in XCThreads : u # t => xc'[u] = xc[u]
         /\ xc'[t].event = xc[t].event /\ xc'[t].valid = xc[t].valid /\ xc'[t].exists = xc[t].exists
         /\ xc'[t].known = xc[t].known
<1> DEFINE v == 0  w == TRUE  g == [xc[t] EXCEPT !.waits = v]  r == [g EXCEPT !.locked = w]
<1>1. xc[t] \in XcStates
  BY DEF Ranges, XcStates
<1>2. xc' = [xc EXCEPT ![t] = r] /\ v = 0 /\ w = TRUE /\ v \in Nat /\ w \in BOOLEAN
  BY DEF Ranges
<1> HIDE DEF v, w
<1>3. /\ g \in XcStates /\ g.waits = v
      /\ g.event = xc[t].event /\ g.valid = xc[t].valid /\ g.locked = xc[t].locked
      /\ g.exists = xc[t].exists /\ g.known = xc[t].known
  BY <1>1, <1>2, WaitsField
<1> HIDE DEF g
<1>4. /\ r \in XcStates /\ r.locked = w
      /\ r.event = g.event /\ r.waits = g.waits /\ r.valid = g.valid
      /\ r.exists = g.exists /\ r.known = g.known
  BY <1>2, <1>3, LockedField
<1> HIDE DEF r
<1> QED BY <1>2, <1>3, <1>4, XcIs

\* It has joined.
LEMMA ValidSet ==
  ASSUME Ranges, NEW t \in XCThreads, xc' = [xc EXCEPT ![t].valid = FALSE, ![t].locked = FALSE]
  PROVE  /\ xc' \in [XCThreads -> XcStates] /\ xc'[t].valid = FALSE /\ xc'[t].locked = FALSE
         /\ \A u \in XCThreads : u # t => xc'[u] = xc[u]
         /\ xc'[t].event = xc[t].event /\ xc'[t].waits = xc[t].waits /\ xc'[t].exists = xc[t].exists
         /\ xc'[t].known = xc[t].known
<1> DEFINE v == FALSE  w == FALSE  g == [xc[t] EXCEPT !.valid = v]  r == [g EXCEPT !.locked = w]
<1>1. xc[t] \in XcStates
  BY DEF Ranges, XcStates
<1>2. xc' = [xc EXCEPT ![t] = r] /\ v = FALSE /\ w = FALSE /\ v \in BOOLEAN /\ w \in BOOLEAN
  BY DEF Ranges
<1> HIDE DEF v, w
<1>3. /\ g \in XcStates /\ g.valid = v
      /\ g.event = xc[t].event /\ g.waits = xc[t].waits /\ g.locked = xc[t].locked
      /\ g.exists = xc[t].exists /\ g.known = xc[t].known
  BY <1>1, <1>2, ValidField
<1> HIDE DEF g
<1>4. /\ r \in XcStates /\ r.locked = w
      /\ r.event = g.event /\ r.waits = g.waits /\ r.valid = g.valid
      /\ r.exists = g.exists /\ r.known = g.known
  BY <1>2, <1>3, LockedField
<1> HIDE DEF r
<1> QED BY <1>2, <1>3, <1>4, XcIs

\* It is deleted, or stays.
LEMMA ExistsSet ==
  ASSUME Ranges, NEW t \in XCThreads, NEW b \in BOOLEAN, xc' = [xc EXCEPT ![t].exists = b, ![t].known = b]
  PROVE  /\ xc' \in [XCThreads -> XcStates] /\ xc'[t].exists = b /\ xc'[t].known = b
         /\ \A u \in XCThreads : u # t => xc'[u] = xc[u]
         /\ xc'[t].event = xc[t].event /\ xc'[t].waits = xc[t].waits /\ xc'[t].valid = xc[t].valid
         /\ xc'[t].locked = xc[t].locked
<1> DEFINE v == b  w == b  g == [xc[t] EXCEPT !.exists = v]  r == [g EXCEPT !.known = w]
<1>1. xc[t] \in XcStates
  BY DEF Ranges, XcStates
<1>2. xc' = [xc EXCEPT ![t] = r] /\ v = b /\ w = b /\ v \in BOOLEAN /\ w \in BOOLEAN
  BY DEF Ranges
<1> HIDE DEF v, w
<1>3. /\ g \in XcStates /\ g.exists = v
      /\ g.event = xc[t].event /\ g.waits = xc[t].waits /\ g.valid = xc[t].valid
      /\ g.locked = xc[t].locked /\ g.known = xc[t].known
  BY <1>1, <1>2, ExistsField
<1> HIDE DEF g
<1>4. /\ r \in XcStates /\ r.known = w
      /\ r.event = g.event /\ r.waits = g.waits /\ r.valid = g.valid
      /\ r.locked = g.locked /\ r.exists = g.exists
  BY <1>2, <1>3, KnownField
<1> HIDE DEF r
<1> QED BY <1>2, <1>3, <1>4, XcIs

-----------------------------------------------------------------------------
(* Steps that join, wait and leave. *)

\* The one that joins a thread is alone with it.
LEMMA JoinerIsAlone ==
  ASSUME Shape, Waits, On \in XCThreads, Top.pc \in Joining
  PROVE  /\ xc[On].locked /\ Users(On, Waiting) = {} /\ Users(On, Joining) = {Depth}
         /\ Users(On, {"join"} \cup Waiting) \subseteq {Depth}
<1>1. Depth \in Users(On, Joining)
  BY TopUses
<1>2. xc[On].locked /\ Users(On, Waiting) = {} /\ \A d, e \in Users(On, Joining) : d = e
  BY <1>1 DEF Waits
<1>3. Users(On, {"join"} \cup Waiting) \subseteq Users(On, Joining) \cup Users(On, Waiting)
  BY DEF Users, Joining
<1> QED BY <1>1, <1>2, <1>3

\* pthread_join is called.
LEMMA JoinBeginsKeeps == ASSUME TInv, JoinBegins PROVE TInv'
<1>1. /\ Shape /\ Interrupted /\ Ranges /\ Waits /\ Joins /\ Objects /\ Leaving /\ Passed
      /\ FlagsHold /\ Regions /\ Harmed
  BY DEF TInv
<1>2. /\ ~Finished /\ harm = {} /\ Top.pc = "join"
      /\ UNCHANGED <<pthread, told, created, xc, pipeline, sinksRun, cut>>
  BY DEF JoinBegins, At
<1>3. /\ On \in AllThreads /\ Op \in {"join", "stop", "wait", "close"}
      /\ On \in XCThreads \/ On \in Elements
      /\ Elements \cap XCThreads = {} /\ XCThreads \subseteq AllThreads /\ Elements \subseteq AllThreads
      /\ \A i \in Sinks : Sink(i) \in XCThreads
  <2>1. On \in AllThreads /\ Op \in {"join", "stop", "wait", "close"}
    BY <1>1, <1>2, TopSays, PCsAre
  <2> QED BY <2>1, NamesAre
<1>4. told' \subseteq AllThreads
  BY <1>1, <1>2 DEF Ranges
<1>5. On \in XCThreads =>
        /\ xc[On].locked /\ Users(On, Waiting) = {} /\ Users(On, Joining) = {Depth}
        /\ Users(On, {"join"} \cup Waiting) \subseteq {Depth}
  BY <1>1, <1>2, JoinerIsAlone, PCsAre
<1>6. CASE joined[On] = "yes" /\ Harm("joined twice") /\ UNCHANGED joined
  <2>1. FlagsCut
    <3>1. SUFFICES ASSUME ~FlagsCut PROVE FALSE
      OBVIOUS
    <3>2. /\ \A t \in Elements : joined[t] = "yes" /\ created[t] => Top.pc = "joined" /\ On = t
          /\ Top.pc = "join" /\ On \in Elements => created[On]
          /\ \A t \in XCThreads : Users(t, {"join"} \cup Waiting) # {} => joined[t] = "no"
      BY <1>1, <1>2, <3>1 DEF FlagsHold
    <3>3. Depth \in Users(On, {"join"} \cup Waiting)
      BY <1>1, <1>2, TopUses
    <3> QED BY <1>2, <1>3, <1>6, <3>2, <3>3
  <2>2. pipeline' \subseteq Sinks /\ "joined twice" \in Harms
    BY <1>1, <1>2 DEF Ranges, Harms
  <2> QED BY <1>2, <1>6, <2>1, <2>2, HarmStays
<1>7. CASE joined[On] = "joining" /\ Go("joined") /\ UNCHANGED <<joined, harm>>
  <2>1. On \in Elements
    <3>1. SUFFICES ASSUME On \in XCThreads PROVE FALSE
      BY <1>3
    <3>2. Users(On, {"joining"}) # {}
      BY <1>1, <1>3, <1>7 DEF Joins
    <3>3. Users(On, {"joining"}) \subseteq Users(On, Joining)
      BY DEF Users, Joining
    <3>4. Depth \notin Users(On, {"joining"})
      BY <1>1, <1>2, TopUses
    <3> QED BY <1>5, <3>1, <3>2, <3>3, <3>4
  <2> QED BY <1>2, <1>3, <1>4, <1>7, <2>1, PCsAre, CallGoes
<1>8. CASE joined[On] = "no" /\ joined' = [joined EXCEPT ![On] = "joining"] /\ Go("joining") /\ UNCHANGED harm
  <2>1. "joining" \in PCs /\ "joining" \in Joining /\ "joining" \notin Waiting /\ "join" \in Joining /\ "join" \notin Waiting
    BY PCsAre
  <2>2. /\ Shape' /\ Interrupted' /\ stack'[1].at = stack[1].at
        /\ On' = On /\ Op' = Op /\ (Top.pc)' = "joining" /\ (Top.at)' = Top.at
        /\ BeforeSinks' = BeforeSinks /\ InSinks' = InSinks /\ Signals' = Signals
    BY <1>1, <1>2, <1>3, <1>8, <2>1, GoesOn
  <2>3. \A t, pcs :
           /\ t # On \/ ("join" \in pcs <=> "joining" \in pcs) => Users(t, pcs)' = Users(t, pcs)
           /\ t # On \/ "joining" \notin pcs \/ "join" \in pcs => Users(t, pcs)' \subseteq Users(t, pcs)
           /\ t # On \/ "join" \notin pcs \/ "joining" \in pcs => Users(t, pcs) \subseteq Users(t, pcs)'
           /\ t = On /\ "joining" \in pcs => Users(t, pcs)' = Users(t, pcs) \cup {Depth}
           /\ t = On /\ "joining" \notin pcs => Users(t, pcs)' = Users(t, pcs) \ {Depth}
    BY <1>1, <1>2, <1>8, <2>1, UsersMove
  <2>4. /\ joined' \in [AllThreads -> {"no", "joining", "yes"}] /\ joined'[On] = "joining"
        /\ \A t \in AllThreads : t # On => joined'[t] = joined[t]
    BY <1>1, <1>3, <1>8 DEF Ranges
  <2>5. \A t \in AllThreads : joined[t] = "yes" <=> joined'[t] = "yes"
    BY <1>8, <2>4
  <2>6. Ranges'
    BY <1>1, <1>2, <1>8, <2>4 DEF Ranges, AllThreads, XCThreads, Elements, Reader, Log, Sink, Sinks, Harms
  <2>7. Waits'
    <3>1. \A t \in XCThreads : /\ xc'[t].waits = xc[t].waits /\ xc'[t].locked = xc[t].locked
                               /\ Users(t, Waiting)' = Users(t, Waiting)
                               /\ Users(t, Joining)' = Users(t, Joining)
      BY <1>2, <2>1, <2>3
    <3> QED BY <1>1, <3>1, WaitsStay
  <2>8. Joins'
    <3>1. /\ \A t \in AllThreads :
               /\ joined[t] = "joining" <=> Users(t, {"joining"}) # {}
               /\ \A d, e \in Users(t, {"joining"}) : d = e
               /\ joined[t] = "yes" => pthread[t] = "exited"
          /\ \A t \in XCThreads :
               /\ xc[t].event => pthread[t] = "exited"
               /\ ~xc[t].valid => joined[t] = "yes"
               /\ joined[t] = "yes" => ~xc[t].valid \/ xc[t].locked
               /\ Users(t, {"joined"}) # {} => joined[t] = "yes"
          /\ \A t \in Elements : Users(t, {"joined"}) # {} \/ ~created[t] => joined[t] # "no"
      BY <1>1 DEF Joins
    <3>2. /\ \A t : t = On => Users(t, {"joining"})' = {Depth}
          /\ \A t \in AllThreads : t # On => Users(t, {"joining"})' = Users(t, {"joining"})
          /\ \A t \in AllThreads : Users(t, {"joined"})' = Users(t, {"joined"})
      <4>1. Users(On, {"joining"}) = {}
        BY <1>3, <1>8, <3>1
      <4> QED BY <2>3, <4>1
    <3>3. \A t \in AllThreads :
               /\ joined'[t] = "joining" <=> Users(t, {"joining"})' # {}
               /\ \A d, e \in Users(t, {"joining"})' : d = e
               /\ joined'[t] = "yes" => pthread'[t] = "exited"
      BY <1>2, <2>4, <3>1, <3>2
    <3>4. \A t \in XCThreads :
               /\ xc'[t].event => pthread'[t] = "exited"
               /\ ~xc'[t].valid => joined'[t] = "yes"
               /\ joined'[t] = "yes" => ~xc'[t].valid \/ xc'[t].locked
               /\ Users(t, {"joined"})' # {} => joined'[t] = "yes"
      BY <1>2, <1>3, <2>5, <3>1, <3>2
    <3>5. \A t \in Elements : Users(t, {"joined"})' # {} \/ ~created'[t] => joined'[t] # "no"
      BY <1>2, <1>3, <2>4, <3>1, <3>2
    <3> QED BY <3>3, <3>4, <3>5 DEF Joins, AllThreads, Elements, XCThreads, Reader, Log, Sink, Sinks
  <2>9. Objects'
    BY <1>1, <1>2, <1>3, <2>2, <2>5, BottomIs, ObjectsStay
  <2>10. Leaving'
    BY <1>1, <1>2, <1>3, <2>1, <2>3, <2>5, LeavingStay
  <2>11. Passed'
    <3>1. \A i \in Sinks :
            LET t == Sink(i) pcs == Joining \cup {"waited", "closed"}
            IN  joined'[t] = "yes" /\ xc'[t].exists =>
                  \/ Users(t, pcs)' # {}
                  \/ joined[t] = "yes" /\ xc[t].exists /\ Users(t, pcs) \subseteq Users(t, pcs)'
      <4> DEFINE pcs == Joining \cup {"waited", "closed"}
      <4>1. "joining" \in pcs
        BY <2>1
      <4> HIDE DEF pcs
      <4>2. \A t \in XCThreads : Users(t, pcs) \subseteq Users(t, pcs)'
        BY <2>3, <4>1
      <4> QED BY <1>2, <1>3, <2>5, <4>2 DEF pcs
    <3> QED BY <1>1, <2>2, <2>5, <3>1, PassedStay
  <2>12. FlagsHold'
    <3>1. \A t \in Elements : joined'[t] = "yes" /\ created'[t] =>
             \/ joined[t] = "yes" /\ created[t] /\ ~(Top.pc = "joined" /\ On = t)
             \/ "joining" = "joined" /\ On = t
      BY <1>2, <1>3, <2>5
    <3>2. \A t \in XCThreads : Users(t, {"join"} \cup Waiting)' # {} =>
             joined'[t] = "no" \/ (joined'[t] = joined[t] /\ Users(t, {"join"} \cup Waiting) # {})
      <4> DEFINE pcs == {"join"} \cup Waiting
      <4>1. "joining" \notin pcs
        BY <2>1
      <4>2. On \in XCThreads => Users(On, pcs) \subseteq {Depth}
        BY <1>5
      <4> HIDE DEF pcs
      <4>3. On \in XCThreads => \A t : t = On => Users(t, pcs)' = {}
        BY <2>3, <4>1, <4>2
      <4>4. \A t \in XCThreads : t # On => Users(t, pcs)' = Users(t, pcs)
        BY <2>3
      <4> QED BY <1>3, <2>4, <4>3, <4>4 DEF pcs
    <3> QED BY <1>1, <1>8, <2>2, <3>1, <3>2, FlagsStay
  <2>13. Regions'
    BY <1>1, <1>2, <1>8, <2>2, RegionsStay
  <2>14. Harmed'
    BY <1>1, <1>8, <2>2, HarmedStay
  <2> QED BY <2>2, <2>6, <2>7, <2>8, <2>9, <2>10, <2>11, <2>12, <2>13, <2>14 DEF TInv
<1> QED BY <1>6, <1>7, <1>8 DEF JoinBegins

\* A join ends: the thread is gone.
LEMMA JoinEndsKeeps == ASSUME TInv, JoinEnds PROVE TInv'
<1>1. /\ Shape /\ Interrupted /\ Ranges /\ Waits /\ Joins /\ Objects /\ Leaving /\ Passed
      /\ FlagsHold /\ Regions /\ Harmed
  BY DEF TInv
<1>2. /\ ~Finished /\ harm = {} /\ Top.pc = "joining" /\ pthread[On] = "exited"
      /\ joined' = [joined EXCEPT ![On] = "yes"] /\ Go("joined")
      /\ UNCHANGED <<pthread, told, created, xc, pipeline, sinksRun, cut, harm>>
  BY DEF JoinEnds, At
<1>3. /\ On \in AllThreads /\ Op \in {"join", "stop", "wait", "close"}
      /\ On \in XCThreads \/ On \in Elements
      /\ Elements \cap XCThreads = {} /\ XCThreads \subseteq AllThreads /\ Elements \subseteq AllThreads
      /\ \A i \in Sinks : Sink(i) \in XCThreads
  <2>1. On \in AllThreads /\ Op \in {"join", "stop", "wait", "close"}
    BY <1>1, <1>2, TopSays, PCsAre
  <2> QED BY <2>1, NamesAre
<1>4. On \in XCThreads =>
        /\ xc[On].locked /\ Users(On, Waiting) = {} /\ Users(On, Joining) = {Depth}
        /\ Users(On, {"join"} \cup Waiting) \subseteq {Depth}
  BY <1>1, <1>2, JoinerIsAlone, PCsAre
<1>5. "joined" \in PCs /\ "joining" \in Joining /\ "joining" \notin Waiting /\ "joined" \in Joining /\ "joined" \notin Waiting
  BY PCsAre
<1>6. /\ Shape' /\ Interrupted' /\ stack'[1].at = stack[1].at
      /\ On' = On /\ Op' = Op /\ (Top.pc)' = "joined" /\ (Top.at)' = Top.at
      /\ BeforeSinks' = BeforeSinks /\ InSinks' = InSinks /\ Signals' = Signals
  BY <1>1, <1>2, <1>3, <1>5, GoesOn
<1>7. \A t, pcs :
         /\ t # On \/ ("joining" \in pcs <=> "joined" \in pcs) => Users(t, pcs)' = Users(t, pcs)
         /\ t # On \/ "joined" \notin pcs \/ "joining" \in pcs => Users(t, pcs)' \subseteq Users(t, pcs)
         /\ t # On \/ "joining" \notin pcs \/ "joined" \in pcs => Users(t, pcs) \subseteq Users(t, pcs)'
         /\ t = On /\ "joined" \in pcs => Users(t, pcs)' = Users(t, pcs) \cup {Depth}
         /\ t = On /\ "joined" \notin pcs => Users(t, pcs)' = Users(t, pcs) \ {Depth}
  BY <1>1, <1>2, <1>5, UsersMove
<1>8. /\ joined' \in [AllThreads -> {"no", "joining", "yes"}] /\ joined'[On] = "yes"
      /\ \A t \in AllThreads : t # On => joined'[t] = joined[t]
  BY <1>1, <1>2, <1>3 DEF Ranges
<1>9. \A t \in AllThreads : joined[t] = "yes" => joined'[t] = "yes"
  BY <1>8
<1>10. Ranges'
  BY <1>1, <1>2, <1>8 DEF Ranges, AllThreads, XCThreads, Elements, Reader, Log, Sink, Sinks, Harms
<1>11. Waits'
  <2>1. \A t \in XCThreads : /\ xc'[t].waits = xc[t].waits /\ xc'[t].locked = xc[t].locked
                             /\ Users(t, Waiting)' = Users(t, Waiting)
                             /\ Users(t, Joining)' = Users(t, Joining)
    BY <1>2, <1>5, <1>7
  <2> QED BY <1>1, <2>1, WaitsStay
<1>12. Joins'
  <2>1. /\ \A t \in AllThreads :
             /\ joined[t] = "joining" <=> Users(t, {"joining"}) # {}
             /\ \A d, e \in Users(t, {"joining"}) : d = e
             /\ joined[t] = "yes" => pthread[t] = "exited"
        /\ \A t \in XCThreads :
             /\ xc[t].event => pthread[t] = "exited"
             /\ ~xc[t].valid => joined[t] = "yes"
             /\ joined[t] = "yes" => ~xc[t].valid \/ xc[t].locked
             /\ Users(t, {"joined"}) # {} => joined[t] = "yes"
        /\ \A t \in Elements : Users(t, {"joined"}) # {} \/ ~created[t] => joined[t] # "no"
    BY <1>1 DEF Joins
  <2>2. /\ \A t : t = On => Users(t, {"joining"})' = {}
        /\ \A t \in AllThreads : t # On => Users(t, {"joining"})' = Users(t, {"joining"})
        /\ \A t \in AllThreads : t # On => Users(t, {"joined"})' = Users(t, {"joined"})
    <3>1. Depth \in Users(On, {"joining"})
      BY <1>1, <1>2, TopUses
    <3>2. \A d \in Users(On, {"joining"}) : d = Depth
      BY <1>3, <2>1, <3>1
    <3> QED BY <1>7, <3>2
  <2>3. \A t \in AllThreads :
             /\ joined'[t] = "joining" <=> Users(t, {"joining"})' # {}
             /\ \A d, e \in Users(t, {"joining"})' : d = e
             /\ joined'[t] = "yes" => pthread'[t] = "exited"
    BY <1>2, <1>8, <2>1, <2>2
  <2>4. \A t \in XCThreads :
             /\ xc'[t].event => pthread'[t] = "exited"
             /\ ~xc'[t].valid => joined'[t] = "yes"
             /\ joined'[t] = "yes" => ~xc'[t].valid \/ xc'[t].locked
             /\ Users(t, {"joined"})' # {} => joined'[t] = "yes"
    BY <1>2, <1>3, <1>4, <1>8, <2>1, <2>2
  <2>5. \A t \in Elements : Users(t, {"joined"})' # {} \/ ~created'[t] => joined'[t] # "no"
    BY <1>2, <1>3, <1>8, <2>1, <2>2
  <2> QED BY <2>3, <2>4, <2>5 DEF Joins, AllThreads, Elements, XCThreads, Reader, Log, Sink, Sinks
<1>13. Objects'
  BY <1>1, <1>2, <1>3, <1>6, <1>9, BottomIs, ObjectsStay
<1>14. Leaving'
  BY <1>1, <1>2, <1>3, <1>5, <1>7, <1>9, LeavingStay
<1>15. Passed'
  <2>1. \A i \in Sinks :
          LET t == Sink(i) pcs == Joining \cup {"waited", "closed"}
          IN  joined'[t] = "yes" /\ xc'[t].exists =>
                \/ Users(t, pcs)' # {}
                \/ joined[t] = "yes" /\ xc[t].exists /\ Users(t, pcs) \subseteq Users(t, pcs)'
    <3> DEFINE pcs == Joining \cup {"waited", "closed"}
    <3>1. "joined" \in pcs
      BY <1>5
    <3> HIDE DEF pcs
    <3>2. \A t \in XCThreads : Users(t, pcs) \subseteq Users(t, pcs)'
      BY <1>7, <3>1
    <3>3. \A t \in XCThreads : t = On => Users(t, pcs)' # {}
      BY <1>7, <3>1
    <3>4. \A t \in XCThreads : t # On => joined'[t] = joined[t]
      BY <1>3, <1>8
    <3> QED BY <1>2, <1>3, <3>2, <3>3, <3>4 DEF pcs
  <2> QED BY <1>1, <1>6, <1>9, <2>1, PassedStay
<1>16. FlagsHold'
  <2>1. \A t \in Elements : joined'[t] = "yes" /\ created'[t] =>
           \/ joined[t] = "yes" /\ created[t] /\ ~(Top.pc = "joined" /\ On = t)
           \/ "joined" = "joined" /\ On = t
    BY <1>2, <1>3, <1>8
  <2>2. \A t \in XCThreads : Users(t, {"join"} \cup Waiting)' # {} =>
           joined'[t] = "no" \/ (joined'[t] = joined[t] /\ Users(t, {"join"} \cup Waiting) # {})
    <3> DEFINE pcs == {"join"} \cup Waiting
    <3>1. "joined" \notin pcs
      BY <1>5
    <3>2. On \in XCThreads => Users(On, pcs) \subseteq {Depth}
      BY <1>4
    <3> HIDE DEF pcs
    <3>3. On \in XCThreads => \A t : t = On => Users(t, pcs)' = {}
      BY <1>7, <3>1, <3>2
    <3>4. \A t \in XCThreads : t # On => Users(t, pcs)' = Users(t, pcs)
      BY <1>7
    <3> QED BY <1>3, <1>8, <3>3, <3>4 DEF pcs
  <2> QED BY <1>1, <1>2, <1>6, <2>1, <2>2, FlagsStay
<1>17. Regions'
  BY <1>1, <1>2, <1>6, RegionsStay
<1>18. Harmed'
  BY <1>1, <1>2, <1>6, HarmedStay
<1> QED BY <1>6, <1>10, <1>11, <1>12, <1>13, <1>14, <1>15, <1>16, <1>17, <1>18 DEF TInv

\* The top call goes on in Wait, with a change of the object it waits in.
LEMMA WaitGoes ==
  ASSUME TInv, ~Finished, harm = {}, NEW p \in {"event", "join", "waited"}, Go(p),
         Op \in {"wait", "close"}, Top.pc \in {"count", "last?", "joined"},
         UNCHANGED <<pthread, told, joined, created, pipeline, sinksRun, cut, harm>>,
         xc' \in [XCThreads -> XcStates], \A u \in XCThreads : u # On => xc'[u] = xc[u],
         xc'[On].event = xc[On].event, xc'[On].exists = xc[On].exists, xc'[On].known = xc[On].known,
         \/ xc'[On].valid = xc[On].valid /\ (xc[On].locked => xc'[On].locked)
         \/ ~xc'[On].valid /\ joined[On] = "yes",
         Waits', Leaving', Top.pc = "joined" => p = "waited",
         p # "waited" => FlagsCut \/ joined[On] = "no"
  PROVE  TInv'
<1>1. /\ Shape /\ Interrupted /\ Ranges /\ Waits /\ Joins /\ Objects /\ Leaving /\ Passed
      /\ FlagsHold /\ Regions /\ Harmed
  BY DEF TInv
<1>2. /\ p \in PCs /\ p # "call" /\ (p \in Joining => p = "join") /\ p \notin {"closed", "joining", "joined", "count"}
      /\ Top.pc \notin {"joining", "waited", "closed", "join"} /\ p # "joined"
      /\ (Top.pc \in Joining => Top.pc = "joined") /\ (p \in Waiting => p = "event")
  BY PCsAre
<1>3. /\ On \in XCThreads /\ On \in AllThreads
      /\ Elements \cap XCThreads = {} /\ XCThreads \subseteq AllThreads /\ Elements \subseteq AllThreads
      /\ \A i \in Sinks : Sink(i) \in XCThreads
  <2>1. On \in XCThreads
    BY <1>1, TopSays
  <2> QED BY <2>1, NamesAre
<1>4. /\ Shape' /\ Interrupted' /\ stack'[1].at = stack[1].at
      /\ On' = On /\ Op' = Op /\ (Top.pc)' = p /\ (Top.at)' = Top.at
      /\ BeforeSinks' = BeforeSinks /\ InSinks' = InSinks /\ Signals' = Signals
  BY <1>1, <1>2, GoesOn
<1>5. \A t, pcs :
           /\ t # On \/ (Top.pc \in pcs <=> p \in pcs) => Users(t, pcs)' = Users(t, pcs)
           /\ t # On \/ p \notin pcs \/ Top.pc \in pcs => Users(t, pcs)' \subseteq Users(t, pcs)
           /\ t # On \/ Top.pc \notin pcs \/ p \in pcs => Users(t, pcs) \subseteq Users(t, pcs)'
  BY <1>1, <1>2, UsersMove
<1>6. \A u \in XCThreads : /\ xc'[u].event = xc[u].event /\ xc'[u].exists = xc[u].exists
                           /\ xc'[u].known = xc[u].known
  OBVIOUS
<1>7. Ranges'
  BY <1>1 DEF Ranges, AllThreads, XCThreads, Elements, Reader, Log, Sink, Sinks, Harms, XcStates
<1>8. Joins'
  <2>1. \A t \in AllThreads : /\ pthread[t] = "exited" => pthread'[t] = "exited"
                              /\ Users(t, {"joining"})' = Users(t, {"joining"})
                              /\ \/ Users(t, {"joined"})' \subseteq Users(t, {"joined"})
                                 \/ t \in Elements /\ joined[t] # "no"
    BY <1>2, <1>5
  <2>2. \A t \in Elements : created'[t] \/ ~created[t] \/ joined[t] # "no"
    OBVIOUS
  <2>3. \A t \in XCThreads : /\ xc'[t].event => xc[t].event \/ pthread'[t] = "exited"
                             /\ \/ xc'[t].valid = xc[t].valid /\ (xc[t].locked => xc'[t].locked)
                                \/ ~xc'[t].valid /\ joined[t] = "yes"
    BY <1>6
  <2>4. joined' = joined
    OBVIOUS
  <2> QED BY <1>1, <2>1, <2>2, <2>3, <2>4, JoinsStay
<1>9. Objects'
  <2>1. stack[1].at \in Nat /\ stack'[1].at \in Nat /\ stack'[1].at >= stack[1].at
    BY <1>1, <1>4, BottomIs
  <2>2. \A t \in XCThreads : /\ xc'[t].exists = xc[t].exists /\ xc'[t].known = xc[t].known
                             /\ joined[t] = "yes" => joined'[t] = "yes"
    BY <1>6
  <2> QED BY <1>1, <2>1, <2>2, ObjectsStay
<1>10. Passed'
  <2>1. \A i \in Sinks :
          LET t == Sink(i) pcs == Joining \cup {"waited", "closed"}
          IN  joined'[t] = "yes" /\ xc'[t].exists =>
                \/ Users(t, pcs)' # {}
                \/ joined[t] = "yes" /\ xc[t].exists /\ Users(t, pcs) \subseteq Users(t, pcs)'
    <3> DEFINE pcs == Joining \cup {"waited", "closed"}
    <3>1. Top.pc \notin pcs \/ p \in pcs
      BY <1>2
    <3> HIDE DEF pcs
    <3>2. \A t \in XCThreads : Users(t, pcs) \subseteq Users(t, pcs)'
      BY <1>5, <3>1
    <3> QED BY <1>3, <1>6, <3>2 DEF pcs
  <2>2. \A t \in AllThreads : joined[t] = "yes" => joined'[t] = "yes"
    OBVIOUS
  <2> QED BY <1>1, <1>4, <2>1, <2>2, PassedStay
<1>11. FlagsHold'
  <2>1. CASE FlagsCut
    <3>1. FlagsCut'
      BY <1>4, <2>1 DEF FlagsCut
    <3> QED BY <3>1 DEF FlagsHold
  <2>2. CASE ~FlagsCut
    <3>1. \A t \in Elements : joined'[t] = "yes" /\ created'[t] =>
             \/ joined[t] = "yes" /\ created[t] /\ ~(Top.pc = "joined" /\ On = t)
             \/ p = "joined" /\ On = t
      BY <1>3
    <3>2. p = "join" /\ On \in Elements => created'[On]
      BY <1>3
    <3>3. \A t \in XCThreads : Users(t, {"join"} \cup Waiting)' # {} =>
             joined'[t] = "no" \/ (joined'[t] = joined[t] /\ Users(t, {"join"} \cup Waiting) # {})
      <4>1. p \notin {"join"} \cup Waiting \/ joined[On] = "no"
        BY <1>2, <2>2
      <4>2. \A t \in XCThreads : \/ t = On /\ joined[t] = "no"
                                 \/ Users(t, {"join"} \cup Waiting)' \subseteq Users(t, {"join"} \cup Waiting)
        BY <1>5, <4>1
      <4> QED BY <4>2
    <3>4. p = "count" /\ Op = "close" => xc'[On].valid
      OBVIOUS
    <3>5. harm' = harm
      OBVIOUS
    <3> QED BY <1>1, <1>4, <3>1, <3>2, <3>3, <3>4, <3>5, FlagsStay
  <2> QED BY <2>1, <2>2
<1>12. Regions'
  BY <1>1, <1>4, RegionsStay
<1>13. Harmed'
  BY <1>1, <1>4, HarmedStay
<1> QED BY <1>4, <1>7, <1>8, <1>9, <1>10, <1>11, <1>12, <1>13 DEF TInv

\* Wait gives up the object that it joined.
LEMMA WaitJoinedKeeps == ASSUME TInv, WaitJoined PROVE TInv'
<1>1. Shape /\ Ranges /\ Waits /\ Joins /\ Leaving
  BY DEF TInv
<1>2. /\ ~Finished /\ harm = {} /\ Top.pc = "joined" /\ On \in XCThreads
      /\ xc' = [xc EXCEPT ![On].valid = FALSE, ![On].locked = FALSE] /\ Go("waited")
      /\ UNCHANGED <<pthread, told, joined, created, pipeline, sinksRun, cut, harm>>
  BY DEF WaitJoined, At
<1>3. /\ xc' \in [XCThreads -> XcStates] /\ xc'[On].valid = FALSE /\ xc'[On].locked = FALSE
      /\ \A u \in XCThreads : u # On => xc'[u] = xc[u]
      /\ xc'[On].event = xc[On].event /\ xc'[On].waits = xc[On].waits /\ xc'[On].exists = xc[On].exists
      /\ xc'[On].known = xc[On].known
  BY <1>1, <1>2, ValidSet
<1>4. Op \in {"wait", "close"}
  <2>1. Op \in {"join", "stop", "wait", "close"} /\ (Op \in {"join", "stop"} => On \in Elements)
    BY <1>1, <1>2, PCsAre, TopSays
  <2> QED BY <1>2, <2>1, NamesAre
<1>5. xc[On].locked /\ Users(On, Waiting) = {} /\ Users(On, Joining) = {Depth}
  BY <1>1, <1>2, JoinerIsAlone, PCsAre
<1>6. "waited" \in PCs /\ "joined" \in Joining /\ "joined" \notin Waiting /\ "waited" \notin Joining /\ "waited" \notin Waiting
  BY PCsAre
<1>7. joined[On] = "yes"
  <2>1. Depth \in Users(On, {"joined"})
    BY <1>1, <1>2, TopUses
  <2> QED BY <1>1, <1>2, <2>1 DEF Joins
<1>8. \A t, pcs :
         /\ t # On \/ ("joined" \in pcs <=> "waited" \in pcs) => Users(t, pcs)' = Users(t, pcs)
         /\ t # On \/ "waited" \notin pcs \/ "joined" \in pcs => Users(t, pcs)' \subseteq Users(t, pcs)
         /\ t = On /\ "waited" \notin pcs => Users(t, pcs)' = Users(t, pcs) \ {Depth}
  BY <1>1, <1>2, <1>6, UsersMove
<1>9. Waits'
  <2>1. \A t \in XCThreads :
          /\ xc[t].waits = Cardinality(Users(t, Waiting))
          /\ xc[t].locked <=> Users(t, Joining) # {}
          /\ xc[t].locked => Users(t, Waiting) = {}
          /\ \A d, e \in Users(t, Joining) : d = e
    BY <1>1 DEF Waits
  <2>2. \A t \in XCThreads : Users(t, Waiting)' = Users(t, Waiting) /\ xc'[t].waits = xc[t].waits
    BY <1>3, <1>6, <1>8
  <2>3. \A t \in XCThreads : t # On => Users(t, Joining)' = Users(t, Joining) /\ xc'[t].locked = xc[t].locked
    BY <1>3, <1>8
  <2>4. \A t \in XCThreads : t = On => Users(t, Joining)' = {} /\ xc'[t].locked = FALSE
    BY <1>3, <1>5, <1>6, <1>8
  <2>5. \A t \in XCThreads :
          /\ xc'[t].waits = Cardinality(Users(t, Waiting)')
          /\ xc'[t].locked <=> Users(t, Joining)' # {}
          /\ xc'[t].locked => Users(t, Waiting)' = {}
          /\ \A d, e \in Users(t, Joining)' : d = e
    BY <2>1, <2>2, <2>3, <2>4
  <2> QED BY <2>5 DEF Waits, XCThreads, Reader, Log, Sink, Sinks, Waiting, Joining
<1>10. Leaving'
  <2>1. \A t \in XCThreads :
          /\ Users(t, {"last?"}) # {} => xc[t].event \/ Spurious
          /\ \A d \in Users(t, {"waited", "closed"}) :
               joined[t] = "yes" \/ ((xc[t].event \/ Spurious) /\ \E e \in Users(t, Waiting) : e < d)
    BY <1>1 DEF Leaving
  <2>2. \A t \in XCThreads : /\ Users(t, Waiting)' = Users(t, Waiting) /\ xc'[t].event = xc[t].event
                             /\ Users(t, {"last?"})' = Users(t, {"last?"}) /\ joined'[t] = joined[t]
    BY <1>2, <1>3, <1>6, <1>8
  <2>3. \A t \in XCThreads : \/ Users(t, {"waited", "closed"})' \subseteq Users(t, {"waited", "closed"})
                             \/ joined[t] = "yes"
    BY <1>7, <1>8
  <2>4. \A t \in XCThreads :
          /\ Users(t, {"last?"})' # {} => xc'[t].event \/ Spurious
          /\ \A d \in Users(t, {"waited", "closed"})' :
               joined'[t] = "yes" \/ ((xc'[t].event \/ Spurious) /\ \E e \in Users(t, Waiting)' : e < d)
    BY <2>1, <2>2, <2>3
  <2> QED BY <2>4 DEF Leaving, XCThreads, Reader, Log, Sink, Sinks, Waiting
<1> QED BY <1>2, <1>3, <1>4, <1>7, <1>9, <1>10, WaitGoes

\* The calls at a thread are finitely many.
LEMMA UsersAreFinite ==
  ASSUME Shape, NEW t, NEW pcs
  PROVE  Users(t, pcs) \in SUBSET (1 .. Depth) /\ IsFiniteSet(Users(t, pcs))
<1>1. Users(t, pcs) \in SUBSET (1 .. Depth)
  BY DEF Users
<1>2. Depth \in Int /\ 1 \in Int
  BY StackIs
<1> HIDE DEF Depth
<1>3. IsFiniteSet(1 .. Depth)
  BY <1>2, FS_Interval
<1> QED BY <1>1, <1>3, FS_Subset

\* A thread that nobody is joining, and that a call is about to wait for, has
\* not been joined, if signals came in the right places.
LEMMA CounterIsEarly ==
  ASSUME TInv, ~Finished, harm = {}, Top.pc = "count", ~xc[On].locked, xc[On].exists, ~FlagsCut
  PROVE  joined[On] = "no"
<1>1. /\ Shape /\ Ranges /\ Waits /\ Joins /\ Passed /\ FlagsHold
  BY DEF TInv
<1>2. Op \in {"wait", "close"} /\ On \in XCThreads /\ On \in AllThreads
  <2>1. Op \in {"wait", "close"} /\ (Op \in {"wait", "close"} => On \in XCThreads)
    BY <1>1, TopSays
  <2> QED BY <2>1, NamesAre
<1>3. joined[On] \in {"no", "joining", "yes"}
  BY <1>1, <1>2 DEF Ranges
<1>4. joined[On] # "joining"
  <2>1. Users(On, {"joining"}) \subseteq Users(On, Joining)
    BY DEF Users, Joining
  <2>2. Users(On, Joining) = {}
    BY <1>1, <1>2 DEF Waits
  <2> QED BY <1>1, <1>2, <2>1, <2>2 DEF Joins
<1>5. Op = "close" => joined[On] # "yes"
  <2>1. Op = "close" => xc[On].valid
    BY <1>1 DEF FlagsHold
  <2> QED BY <1>1, <1>2, <2>1 DEF Joins
<1>6. Op = "wait" => joined[On] # "yes"
  <2>1. SUFFICES ASSUME Op = "wait", joined[On] = "yes" PROVE FALSE
    OBVIOUS
  <2>2. /\ Top.fn = "run" /\ Depth = 1 /\ \E i \in Sinks : Top.at = 2 + i /\ On = Sink(i)
    BY <1>1, <2>1, TopSays
  <2>3. PICK i \in Sinks : Top.at = 2 + i /\ On = Sink(i)
    BY <2>2
  <2>4. Top = stack[1] /\ Pc(1) = "count"
    BY <1>1, <2>2, StackIs
  <2>5. i \in Nat
    BY <2>3 DEF Sinks
  <2> DEFINE pcs == Joining \cup {"waited", "closed"}
  <2>6. "count" \notin pcs
    BY PCsAre
  <2> HIDE DEF pcs
  <2>7. Users(On, pcs) = {}
    BY <2>2, <2>4, <2>6 DEF Users
  <2>8. stack[1].at > 2 + i \/ Users(Sink(i), pcs) # {}
    BY <1>1, <2>1, <2>3 DEF Passed, pcs
  <2> QED BY <2>3, <2>4, <2>5, <2>7, <2>8
<1> QED BY <1>2, <1>3, <1>4, <1>5, <1>6

\* A call begins to wait in an object, which its count says.
LEMMA WaitCountsKeeps == ASSUME TInv, WaitCounts PROVE TInv'
<1>1. Shape /\ Ranges /\ Waits /\ Leaving /\ Regions
  BY DEF TInv
<1>2. /\ ~Finished /\ harm = {} /\ Top.pc = "count" /\ ~xc[On].locked
      /\ UNCHANGED <<pthread, told, joined, created, pipeline, sinksRun, cut>>
  BY DEF WaitCounts, At
<1>3. Op \in {"wait", "close"} /\ On \in XCThreads /\ On \in AllThreads
  <2>1. Op \in {"wait", "close"} /\ (Op \in {"wait", "close"} => On \in XCThreads)
    BY <1>1, <1>2, TopSays
  <2> QED BY <2>1, NamesAre
<1>4. CASE ~xc[On].exists /\ Harm("used") /\ UNCHANGED xc
  <2>1. SinksCut
    BY <1>1, <1>2, <1>4 DEF Regions
  <2>2. pipeline' \subseteq Sinks /\ "used" \in Harms
    BY <1>1, <1>2 DEF Ranges, Harms
  <2> QED BY <1>2, <1>4, <2>1, <2>2, HarmStays
<1>5. CASE xc[On].exists /\ xc' = [xc EXCEPT ![On].waits = @ + 1] /\ Go("event") /\ UNCHANGED harm
  <2>1. xc[On].waits \in Nat /\ xc[On].waits + 1 \in Nat /\ xc' = [xc EXCEPT ![On].waits = xc[On].waits + 1]
    BY <1>1, <1>3, <1>5 DEF Ranges
  <2>2. /\ xc' \in [XCThreads -> XcStates] /\ xc'[On].waits = xc[On].waits + 1
        /\ \A u \in XCThreads : u # On => xc'[u] = xc[u]
        /\ xc'[On].event = xc[On].event /\ xc'[On].valid = xc[On].valid /\ xc'[On].locked = xc[On].locked
        /\ xc'[On].exists = xc[On].exists /\ xc'[On].known = xc[On].known
    BY <1>1, <1>3, <2>1, WaitsSet
  <2>3. "event" \in PCs /\ "event" \in Waiting /\ "event" \notin Joining /\ "count" \notin Joining /\ "count" \notin Waiting
    BY PCsAre
  <2>4. \A t, pcs :
           /\ t # On \/ ("count" \in pcs <=> "event" \in pcs) => Users(t, pcs)' = Users(t, pcs)
           /\ t # On \/ "event" \notin pcs \/ "count" \in pcs => Users(t, pcs)' \subseteq Users(t, pcs)
           /\ t # On \/ "count" \notin pcs \/ "event" \in pcs => Users(t, pcs) \subseteq Users(t, pcs)'
           /\ t = On /\ "event" \in pcs => Users(t, pcs)' = Users(t, pcs) \cup {Depth}
    BY <1>1, <1>2, <1>5, <2>3, UsersMove
  <2>5. Waits'
    <3>1. \A t \in XCThreads :
            /\ xc[t].waits = Cardinality(Users(t, Waiting))
            /\ xc[t].locked <=> Users(t, Joining) # {}
            /\ xc[t].locked => Users(t, Waiting) = {}
            /\ \A d, e \in Users(t, Joining) : d = e
      BY <1>1 DEF Waits
    <3>2. \A t \in XCThreads : Users(t, Joining)' = Users(t, Joining) /\ xc'[t].locked = xc[t].locked
      BY <2>2, <2>3, <2>4
    <3>3. \A t \in XCThreads : t # On => Users(t, Waiting)' = Users(t, Waiting) /\ xc'[t].waits = xc[t].waits
      BY <2>2, <2>4
    <3>4. Cardinality(Users(On, Waiting) \cup {Depth}) = xc[On].waits + 1
      <4>1. Depth \notin Users(On, Waiting)
        BY <1>1, <1>2, <2>3, TopUses
      <4>2. IsFiniteSet(Users(On, Waiting))
        BY <1>1, UsersAreFinite
      <4>3. xc[On].waits = Cardinality(Users(On, Waiting))
        BY <1>3, <3>1
      <4>4. Cardinality(Users(On, Waiting) \cup {Depth})
              = IF Depth \in Users(On, Waiting) THEN Cardinality(Users(On, Waiting))
                ELSE Cardinality(Users(On, Waiting)) + 1
        BY <4>2, FS_AddElement
      <4> QED BY <4>1, <4>3, <4>4
    <3>5. \A t \in XCThreads : t = On => Users(t, Waiting)' = Users(On, Waiting) \cup {Depth}
      BY <2>3, <2>4
    <3>6. \A t \in XCThreads :
            /\ xc'[t].waits = Cardinality(Users(t, Waiting)')
            /\ xc'[t].locked <=> Users(t, Joining)' # {}
            /\ xc'[t].locked => Users(t, Waiting)' = {}
            /\ \A d, e \in Users(t, Joining)' : d = e
      <4> TAKE t \in XCThreads
      <4>1. CASE t = On
        BY <1>2, <2>2, <3>1, <3>2, <3>4, <3>5, <4>1
      <4>2. CASE t # On
        BY <3>1, <3>2, <3>3, <4>2
      <4> QED BY <4>1, <4>2
    <3> QED BY <3>6 DEF Waits, XCThreads, Reader, Log, Sink, Sinks, Waiting, Joining
  <2>6. Leaving'
    <3>1. \A t \in XCThreads :
             /\ xc[t].event => xc'[t].event
             /\ joined[t] = "yes" => joined'[t] = "yes"
             /\ Users(t, {"last?"})' \subseteq Users(t, {"last?"})
             /\ Users(t, {"waited", "closed"})' \subseteq Users(t, {"waited", "closed"})
             /\ Users(t, Waiting) \subseteq Users(t, Waiting)'
      BY <1>2, <2>2, <2>3, <2>4
    <3> QED BY <1>1, <3>1, LeavingStay
  <2>7. FlagsCut \/ joined[On] = "no"
    BY <1>2, <1>5, CounterIsEarly
  <2> QED BY <1>2, <1>3, <1>5, <2>2, <2>5, <2>6, <2>7, WaitGoes
<1> QED BY <1>4, <1>5 DEF WaitCounts

\* The last call to leave an object locks it, any other is counted out.
LEMMA WaitLeavesKeeps == ASSUME TInv, WaitLeaves PROVE TInv'
<1>1. Shape /\ Ranges /\ Waits /\ Leaving /\ FlagsHold
  BY DEF TInv
<1>2. /\ ~Finished /\ harm = {} /\ Top.pc = "last?" /\ ~xc[On].locked
      /\ UNCHANGED <<pthread, told, joined, created, pipeline, sinksRun, cut, harm>>
  BY DEF WaitLeaves, At
<1>3. "last?" \in Waiting /\ "last?" \notin Joining /\ Waiting \subseteq PCs /\ "waited" \in PCs /\ "join" \in PCs
      /\ "join" \in Joining /\ "join" \notin Waiting /\ "waited" \notin Joining /\ "waited" \notin Waiting
  BY PCsAre
<1>4. Op \in {"wait", "close"} /\ On \in XCThreads /\ On \in AllThreads
  <2>1. Op \in {"wait", "close"} /\ (Op \in {"wait", "close"} => On \in XCThreads)
    BY <1>1, <1>2, <1>3, TopSays
  <2> QED BY <2>1, NamesAre
<1>5. /\ xc[On].waits \in Nat /\ xc[On].waits = Cardinality(Users(On, Waiting))
      /\ Users(On, Joining) = {} /\ IsFiniteSet(Users(On, Waiting)) /\ Depth \in Users(On, Waiting)
  <2>1. xc[On].waits \in Nat
    BY <1>1, <1>4 DEF Ranges
  <2>2. xc[On].waits = Cardinality(Users(On, Waiting)) /\ Users(On, Joining) = {}
    BY <1>1, <1>2, <1>4 DEF Waits
  <2>3. IsFiniteSet(Users(On, Waiting)) /\ Depth \in Users(On, Waiting)
    BY <1>1, <1>2, <1>3, TopUses, UsersAreFinite
  <2> QED BY <2>1, <2>2, <2>3
<1>6. Depth \in Nat /\ \A t, pcs : \A d \in Users(t, pcs) : d \in Nat /\ d <= Depth
  <2>1. Depth \in Nat
    BY <1>1, StackIs
  <2> QED BY <2>1 DEF Users
<1>7. \A t \in XCThreads :
        /\ xc[t].waits = Cardinality(Users(t, Waiting))
        /\ xc[t].locked <=> Users(t, Joining) # {}
        /\ xc[t].locked => Users(t, Waiting) = {}
        /\ \A d, e \in Users(t, Joining) : d = e
  BY <1>1 DEF Waits
<1>8. \A t \in XCThreads :
        /\ Users(t, {"last?"}) # {} => xc[t].event \/ Spurious
        /\ \A d \in Users(t, {"waited", "closed"}) :
             joined[t] = "yes" \/ ((xc[t].event \/ Spurious) /\ \E e \in Users(t, Waiting) : e < d)
  BY <1>1 DEF Leaving
<1>9. CASE xc[On].waits = 1 /\ xc' = [xc EXCEPT ![On].waits = 0, ![On].locked = TRUE] /\ Go("join")
  <2>1. /\ xc' \in [XCThreads -> XcStates] /\ xc'[On].waits = 0 /\ xc'[On].locked = TRUE
        /\ \A u \in XCThreads : u # On => xc'[u] = xc[u]
        /\ xc'[On].event = xc[On].event /\ xc'[On].valid = xc[On].valid /\ xc'[On].exists = xc[On].exists
        /\ xc'[On].known = xc[On].known
    BY <1>1, <1>4, <1>9, LockSet
  <2>2. Users(On, Waiting) = {Depth}
    <3>1. \E x : Users(On, Waiting) = {x}
      BY <1>5, <1>9, FS_Singleton
    <3> QED BY <1>5, <3>1
  <2>3. \A t, pcs :
           /\ t # On \/ ("last?" \in pcs <=> "join" \in pcs) => Users(t, pcs)' = Users(t, pcs)
           /\ t # On \/ "join" \notin pcs \/ "last?" \in pcs => Users(t, pcs)' \subseteq Users(t, pcs)
           /\ t # On \/ "last?" \notin pcs \/ "join" \in pcs => Users(t, pcs) \subseteq Users(t, pcs)'
           /\ t = On /\ "join" \in pcs => Users(t, pcs)' = Users(t, pcs) \cup {Depth}
           /\ t = On /\ "join" \notin pcs => Users(t, pcs)' = Users(t, pcs) \ {Depth}
    BY <1>1, <1>2, <1>3, <1>9, UsersMove
  <2>4. \A t : t = On => Users(t, Waiting)' = {} /\ Users(t, Joining)' = {Depth}
    BY <1>3, <1>5, <2>2, <2>3
  <2>5. \A t \in XCThreads : t # On => /\ Users(t, Waiting)' = Users(t, Waiting)
                                       /\ Users(t, Joining)' = Users(t, Joining)
    BY <2>3
  <2>6. Waits'
    <3>1. \A t \in XCThreads :
            /\ xc'[t].waits = Cardinality(Users(t, Waiting)')
            /\ xc'[t].locked <=> Users(t, Joining)' # {}
            /\ xc'[t].locked => Users(t, Waiting)' = {}
            /\ \A d, e \in Users(t, Joining)' : d = e
      <4> TAKE t \in XCThreads
      <4>1. CASE t = On
        BY <2>1, <2>4, <4>1, FS_EmptySet
      <4>2. CASE t # On
        BY <1>7, <2>1, <2>5, <4>2
      <4> QED BY <4>1, <4>2
    <3> QED BY <3>1 DEF Waits, XCThreads, Reader, Log, Sink, Sinks, Waiting, Joining
  <2>7. Leaving'
    <3>1. \A t : Users(t, {"last?"})' \subseteq Users(t, {"last?"})
                 /\ Users(t, {"waited", "closed"})' = Users(t, {"waited", "closed"})
      BY <2>3
    <3>2. \A t \in XCThreads : xc'[t].event = xc[t].event /\ joined'[t] = joined[t]
      BY <1>2, <2>1
    <3>3. \A d \in Users(On, {"waited", "closed"}) : ~(Depth < d)
      BY <1>6
    <3>4. \A d \in Users(On, {"waited", "closed"}) : joined[On] = "yes"
      BY <1>4, <1>8, <2>2, <3>3
    <3>5. \A t \in XCThreads :
            /\ Users(t, {"last?"})' # {} => xc'[t].event \/ Spurious
            /\ \A d \in Users(t, {"waited", "closed"})' :
                 joined'[t] = "yes" \/ ((xc'[t].event \/ Spurious) /\ \E e \in Users(t, Waiting)' : e < d)
      <4> TAKE t \in XCThreads
      <4>1. CASE t = On
        BY <1>8, <3>1, <3>2, <3>4, <4>1
      <4>2. CASE t # On
        BY <1>8, <2>5, <3>1, <3>2, <4>2
      <4> QED BY <4>1, <4>2
    <3> QED BY <3>5 DEF Leaving, XCThreads, Reader, Log, Sink, Sinks, Waiting
  <2>8. FlagsCut \/ joined[On] = "no"
    <3>1. Users(On, Waiting) \subseteq Users(On, {"join"} \cup Waiting)
      BY DEF Users
    <3>2. ~FlagsCut => (Users(On, {"join"} \cup Waiting) # {} => joined[On] = "no")
      BY <1>1, <1>2, <1>4 DEF FlagsHold
    <3> QED BY <2>2, <3>1, <3>2
  <2> QED BY <1>2, <1>4, <1>9, <2>1, <2>6, <2>7, <2>8, WaitGoes
<1>10. CASE xc[On].waits # 1 /\ xc' = [xc EXCEPT ![On].waits = @ - 1] /\ Go("waited")
  <2>1. xc[On].waits - 1 \in Nat
    <3>1. xc[On].waits # 0
      BY <1>5, FS_EmptySet
    <3> QED BY <1>5, <3>1
  <2>2. xc' = [xc EXCEPT ![On].waits = xc[On].waits - 1]
    BY <1>1, <1>4, <1>10 DEF Ranges
  <2>3. /\ xc' \in [XCThreads -> XcStates] /\ xc'[On].waits = xc[On].waits - 1
        /\ \A u \in XCThreads : u # On => xc'[u] = xc[u]
        /\ xc'[On].event = xc[On].event /\ xc'[On].valid = xc[On].valid /\ xc'[On].locked = xc[On].locked
        /\ xc'[On].exists = xc[On].exists /\ xc'[On].known = xc[On].known
    BY <1>1, <1>4, <2>1, <2>2, WaitsSet
  <2>4. PICK e \in Users(On, Waiting) : e # Depth
    <3>1. Users(On, Waiting) # {Depth}
      BY <1>5, <1>10, FS_Singleton
    <3> QED BY <1>5, <3>1
  <2>5. \A t, pcs :
           /\ t # On \/ ("last?" \in pcs <=> "waited" \in pcs) => Users(t, pcs)' = Users(t, pcs)
           /\ t # On \/ "waited" \notin pcs \/ "last?" \in pcs => Users(t, pcs)' \subseteq Users(t, pcs)
           /\ t # On \/ "last?" \notin pcs \/ "waited" \in pcs => Users(t, pcs) \subseteq Users(t, pcs)'
           /\ t = On /\ "waited" \in pcs => Users(t, pcs)' = Users(t, pcs) \cup {Depth}
           /\ t = On /\ "waited" \notin pcs => Users(t, pcs)' = Users(t, pcs) \ {Depth}
    BY <1>1, <1>2, <1>3, <1>10, UsersMove
  <2>6. \A t : t = On => Users(t, Waiting)' = Users(On, Waiting) \ {Depth}
    BY <1>3, <2>5
  <2>7. \A t \in XCThreads : t # On => Users(t, Waiting)' = Users(t, Waiting)
    BY <2>5
  <2>8. \A t \in XCThreads : Users(t, Joining)' = Users(t, Joining)
    BY <1>3, <2>5
  <2>9. Waits'
    <3>1. Cardinality(Users(On, Waiting) \ {Depth}) = xc[On].waits - 1
      <4>1. Cardinality(Users(On, Waiting) \ {Depth})
              = IF Depth \in Users(On, Waiting) THEN Cardinality(Users(On, Waiting)) - 1
                ELSE Cardinality(Users(On, Waiting))
        BY <1>5, FS_RemoveElement
      <4> QED BY <1>5, <4>1
    <3>2. \A t \in XCThreads :
            /\ xc'[t].waits = Cardinality(Users(t, Waiting)')
            /\ xc'[t].locked <=> Users(t, Joining)' # {}
            /\ xc'[t].locked => Users(t, Waiting)' = {}
            /\ \A d, c \in Users(t, Joining)' : d = c
      <4> TAKE t \in XCThreads
      <4>1. CASE t = On
        BY <1>2, <1>7, <2>3, <2>6, <2>8, <3>1, <4>1
      <4>2. CASE t # On
        BY <1>7, <2>3, <2>7, <2>8, <4>2
      <4> QED BY <4>1, <4>2
    <3> QED BY <3>2 DEF Waits, XCThreads, Reader, Log, Sink, Sinks, Waiting, Joining
  <2>10. Leaving'
    <3>1. \A t : Users(t, {"last?"})' \subseteq Users(t, {"last?"})
      BY <2>5
    <3>2. \A t \in XCThreads : xc'[t].event = xc[t].event /\ joined'[t] = joined[t]
      BY <1>2, <2>3
    <3>3. \A t : t = On => Users(t, {"waited", "closed"})' = Users(On, {"waited", "closed"}) \cup {Depth}
      BY <2>5
    <3>4. \A t : t # On => Users(t, {"waited", "closed"})' = Users(t, {"waited", "closed"})
      BY <2>5
    <3>5. (xc[On].event \/ Spurious) /\ e < Depth /\ e \in Users(On, Waiting) \ {Depth}
      <4>1. Depth \in Users(On, {"last?"})
        BY <1>1, <1>2, TopUses
      <4>2. xc[On].event \/ Spurious
        BY <1>4, <1>8, <4>1
      <4>3. e < Depth
        BY <1>6, <2>4
      <4> QED BY <2>4, <4>2, <4>3
    <3>6. \A d \in Users(On, {"waited", "closed"}) :
            joined[On] = "yes" \/ ((xc[On].event \/ Spurious) /\ \E c \in Users(On, Waiting) \ {Depth} : c < d)
      <4>1. \A d \in Users(On, {"waited", "closed"}) :
              joined[On] = "yes" \/ ((xc[On].event \/ Spurious) /\ \E c \in Users(On, Waiting) : c < d)
        BY <1>4, <1>8
      <4>2. \A d \in Users(On, {"waited", "closed"}) : ~(Depth < d)
        BY <1>6
      <4> QED BY <4>1, <4>2
    <3>7. \A t \in XCThreads :
            /\ Users(t, {"last?"})' # {} => xc'[t].event \/ Spurious
            /\ \A d \in Users(t, {"waited", "closed"})' :
                 joined'[t] = "yes" \/ ((xc'[t].event \/ Spurious) /\ \E c \in Users(t, Waiting)' : c < d)
      <4> TAKE t \in XCThreads
      <4>1. CASE t = On
        <5>1. Users(t, {"last?"})' # {} => xc'[t].event \/ Spurious
          BY <1>8, <3>1, <3>2, <4>1
        <5>2. \A d \in Users(On, {"waited", "closed"}) \cup {Depth} :
                joined[On] = "yes"
                \/ ((xc[On].event \/ Spurious) /\ \E c \in Users(On, Waiting) \ {Depth} : c < d)
          BY <3>5, <3>6
        <5> QED BY <2>6, <3>2, <3>3, <4>1, <5>1, <5>2
      <4>2. CASE t # On
        BY <1>8, <2>7, <3>1, <3>2, <3>4, <4>2
      <4> QED BY <4>1, <4>2
    <3> QED BY <3>7 DEF Leaving, XCThreads, Reader, Log, Sink, Sinks, Waiting
  <2> QED BY <1>2, <1>4, <1>10, <2>3, <2>9, <2>10, WaitGoes
<1> QED BY <1>9, <1>10 DEF WaitLeaves

\* Close is over, and what its caller gives up goes.
LEMMA CloseReturns ==
  ASSUME TInv, ~Finished, harm = {}, Top.pc = "closed", Op = "close", Return,
         NEW b \in BOOLEAN, xc' = [xc EXCEPT ![On].exists = b, ![On].known = b],
         UNCHANGED <<pthread, told, joined, created, sinksRun, cut, harm>>,
         \/ On = Reader /\ b /\ pipeline' = pipeline
         \/ On = Log /\ ~b /\ pipeline' = pipeline
         \/ ~b /\ \E i \in Sinks : On = Sink(i) /\ pipeline' = pipeline \ {i},
         ~b \/ Depth = 1 => joined[On] = "yes"
  PROVE  TInv'
<1>1. /\ Shape /\ Interrupted /\ Ranges /\ Waits /\ Joins /\ Objects /\ Leaving /\ Passed
      /\ FlagsHold /\ Regions /\ Harmed
  BY DEF TInv
<1>2. /\ Shape' /\ Interrupted' /\ Signals' = Signals
      /\ \A t, pcs : "call" \notin pcs => Users(t, pcs)' = Users(t, pcs) \ {Depth}
      /\ stack'[1].at = IF Depth = 1 THEN stack[1].at + 1 ELSE stack[1].at
      /\ stack[1].at \in Nat /\ stack'[1].at \in Nat /\ stack'[1].at >= stack[1].at
      /\ (Top.pc)' = "call" /\ (Top.fn)' = Top.fn /\ (Top.at)' = Top.at + 1
  BY <1>1, Returns
<1>3. /\ On \in XCThreads /\ On \notin Elements /\ XCThreads \subseteq AllThreads
      /\ Reader \in XCThreads /\ Log \in XCThreads /\ Reader # Log
      /\ \A i \in Sinks : Sink(i) \in XCThreads /\ Sink(i) # Reader /\ Sink(i) # Log
  <2>1. On \in XCThreads
    BY <1>1, TopSays
  <2> QED BY <2>1, NamesAre
<1>4. /\ xc' \in [XCThreads -> XcStates] /\ xc'[On].exists = b /\ xc'[On].known = b
      /\ \A u \in XCThreads : u # On => xc'[u] = xc[u]
      /\ xc'[On].event = xc[On].event /\ xc'[On].waits = xc[On].waits /\ xc'[On].valid = xc[On].valid
      /\ xc'[On].locked = xc[On].locked
  BY <1>1, <1>3, ExistsSet
<1>5. \A u \in XCThreads : /\ xc'[u].event = xc[u].event /\ xc'[u].waits = xc[u].waits
                           /\ xc'[u].valid = xc[u].valid /\ xc'[u].locked = xc[u].locked
  BY <1>4
<1>6. \A t, pcs : Depth \in Users(t, pcs) <=> t = On /\ Top.pc \in pcs
  BY <1>1, TopUses
<1>7. \A t, pcs : "call" \notin pcs => Users(t, pcs)' \subseteq Users(t, pcs)
  BY <1>2
<1>8. \A t, pcs : "call" \notin pcs /\ (t # On \/ "closed" \notin pcs) => Users(t, pcs)' = Users(t, pcs)
  <2> TAKE t, pcs
  <2>1. "call" \notin pcs => Users(t, pcs)' = Users(t, pcs) \ {Depth}
    BY <1>2
  <2>2. Depth \in Users(t, pcs) <=> t = On /\ Top.pc \in pcs
    BY <1>6
  <2> QED BY <2>1, <2>2
<1>9. "call" \notin Waiting /\ "call" \notin Joining /\ "closed" \notin Waiting /\ "closed" \notin Joining
  BY PCsAre
<1>10. Ranges'
  <2>1. pipeline' \subseteq Sinks
    BY <1>1 DEF Ranges
  <2> QED BY <1>1, <1>4, <2>1 DEF Ranges, AllThreads, XCThreads, Elements, Reader, Log, Sink, Sinks, Harms, XcStates
<1>11. Waits'
  <2>1. \A t \in XCThreads : /\ xc'[t].waits = xc[t].waits /\ xc'[t].locked = xc[t].locked
                             /\ Users(t, Waiting)' = Users(t, Waiting)
                             /\ Users(t, Joining)' = Users(t, Joining)
    BY <1>5, <1>8, <1>9
  <2> QED BY <1>1, <2>1, WaitsStay
<1>12. Joins'
  <2>1. \A t \in AllThreads : /\ pthread[t] = "exited" => pthread'[t] = "exited"
                              /\ Users(t, {"joining"})' = Users(t, {"joining"})
                              /\ \/ Users(t, {"joined"})' \subseteq Users(t, {"joined"})
                                 \/ t \in Elements /\ joined[t] # "no"
    BY <1>7, <1>8
  <2>2. \A t \in Elements : created'[t] \/ ~created[t] \/ joined[t] # "no"
    OBVIOUS
  <2>3. \A t \in XCThreads : /\ xc'[t].event => xc[t].event \/ pthread'[t] = "exited"
                             /\ \/ xc'[t].valid = xc[t].valid /\ (xc[t].locked => xc'[t].locked)
                                \/ ~xc'[t].valid /\ joined[t] = "yes"
    BY <1>5
  <2>4. joined' = joined
    OBVIOUS
  <2> QED BY <1>1, <2>1, <2>2, <2>3, <2>4, JoinsStay
<1>13. Objects'
  <2>1. /\ \A t \in XCThreads : xc[t].exists = xc[t].known /\ (~xc[t].exists => joined[t] = "yes")
        /\ xc[Reader].exists /\ (~xc[Log].exists => stack[1].at > NSinks + 3)
    BY <1>1 DEF Objects
  <2>2. \A t \in XCThreads : xc'[t].exists = xc'[t].known /\ (~xc'[t].exists => joined'[t] = "yes")
    <3> TAKE t \in XCThreads
    <3>1. CASE t = On
      <4>1. xc'[t].exists = b /\ xc'[t].known = b
        BY <1>4, <3>1
      <4>2. ~b => joined'[t] = "yes"
        BY <3>1
      <4> QED BY <4>1, <4>2
    <3>2. CASE t # On
      BY <1>4, <2>1, <3>2
    <3> QED BY <3>1, <3>2
  <2>3. xc'[Reader].exists
    BY <1>3, <1>4, <2>1
  <2>4. ~xc'[Log].exists => stack'[1].at > NSinks + 3
    <3>1. CASE On = Log
      <4>1. Top.fn = "run" /\ Top.at = NSinks + 3 /\ Depth = 1 /\ Top = stack[Depth] /\ NSinks \in Nat
        BY <1>1, <1>3, <3>1, TopSays, StackIs
      <4> QED BY <1>2, <4>1
    <3>2. CASE On # Log
      <4>1. ~xc'[Log].exists => stack[1].at > NSinks + 3
        BY <1>3, <1>4, <2>1, <3>2
      <4>2. NSinks \in Nat
        BY <1>1, StackIs
      <4> QED BY <1>2, <4>1, <4>2
    <3> QED BY <3>1, <3>2
  <2> QED BY <2>2, <2>3, <2>4 DEF Objects, XCThreads, Reader, Log, Sink, Sinks
<1>14. Leaving'
  <2>1. \A t \in XCThreads :
           /\ xc[t].event => xc'[t].event
           /\ joined[t] = "yes" => joined'[t] = "yes"
           /\ Users(t, {"last?"})' \subseteq Users(t, {"last?"})
           /\ Users(t, {"waited", "closed"})' \subseteq Users(t, {"waited", "closed"})
           /\ Users(t, Waiting) \subseteq Users(t, Waiting)'
    <3>1. \A t : Users(t, Waiting)' = Users(t, Waiting)
      BY <1>8, <1>9
    <3>2. \A t : /\ Users(t, {"last?"})' \subseteq Users(t, {"last?"})
                 /\ Users(t, {"waited", "closed"})' \subseteq Users(t, {"waited", "closed"})
      BY <1>7
    <3> QED BY <1>5, <3>1, <3>2
  <2> QED BY <1>1, <2>1, LeavingStay
<1>15. Passed'
  <2>1. \A i \in Sinks :
          LET t == Sink(i) pcs == Joining \cup {"waited", "closed"}
          IN  xc'[t].exists =>
                xc[t].exists /\ (Users(t, pcs) \subseteq Users(t, pcs)' \/ (On = t /\ Op = "wait"))
    <3> DEFINE pcs == Joining \cup {"waited", "closed"}
    <3>1. "call" \notin pcs
      BY <1>9
    <3> HIDE DEF pcs
    <3>2. \A t \in XCThreads : Users(t, pcs)' = Users(t, pcs) \/ t = On
      BY <1>8, <3>1
    <3>3. \A i \in Sinks : Sink(i) = On => ~xc'[On].exists
      BY <1>3, <1>4
    <3>4. \A i \in Sinks : Sink(i) # On => xc'[Sink(i)].exists = xc[Sink(i)].exists
      BY <1>3, <1>4
    <3> QED BY <1>3, <3>2, <3>3, <3>4 DEF pcs
  <2>2. joined' = joined /\ (Depth = 1 /\ Op \in {"join", "wait", "close"} => joined[On] = "yes")
    OBVIOUS
  <2> QED BY <1>1, <1>2, <2>1, <2>2, PassedLeave
<1>16. FlagsHold'
  <2>1. \A t \in Elements : created'[t] => created[t] /\ ~(Top.pc = "joined" /\ On = t)
    OBVIOUS
  <2>2. \A t \in XCThreads : Users(t, {"join"} \cup Waiting)' \subseteq Users(t, {"join"} \cup Waiting)
    <3>1. "call" \notin {"join"} \cup Waiting
      BY <1>9
    <3> QED BY <1>7, <3>1
  <2> QED BY <1>1, <1>2, <2>1, <2>2, FlagsLeave
<1>17. Regions'
  BY <1>1, <1>2, <1>3, RegionsLeave
<1>18. Harmed'
  BY <1>1, <1>2, HarmedStay
<1> QED BY <1>2, <1>10, <1>11, <1>12, <1>13, <1>14, <1>15, <1>16, <1>17, <1>18 DEF TInv

-----------------------------------------------------------------------------
(* What the callers of Close delete, SinkWrap::Stop, signals and threads. *)

\* The calls below the top one that are with a thread object, and were
\* interrupted there.
LEMMA LowerCallsAre ==
  ASSUME Shape, Interrupted, ~Finished, NEW t \in XCThreads, NEW d \in Users(t, Waiting \cup Joining), d # Depth
  PROVE  /\ What(d) \in {"wait", "close"} /\ Pc(d) # "call" /\ d < Depth
         /\ [op |-> What(d), on |-> t, pc |-> Pc(d)] \in Signals
         /\ t \in {Reader, Log} => What(d) = "close"
<1>1. d \in 1 .. Depth /\ Who(d) = t /\ Pc(d) \in Waiting \cup Joining
  BY DEF Users
<1>2. Depth \in Nat /\ stack[d] \in Frames /\ ~Past(stack[d])
  BY <1>1, StackIs
<1>3. d \in 1 .. Depth - 1 /\ d < Depth
  BY <1>1, <1>2
<1>4. stack[d].fn = "stop" => stack[d].at <= StopLength
  BY <1>1 DEF Shape
<1>5. What(d) \in {"join", "stop", "wait", "close"}
  <2>1. /\ Pc(d) \in {"count", "waited"} \cup Waiting => What(d) \in {"wait", "close"}
        /\ Pc(d) \in Joining => What(d) \in {"join", "stop", "wait", "close"}
    BY <1>1, <1>2 DEF Shape
  <2> QED BY <1>1, <2>1
<1> DEFINE f == stack[d]
           op == What(d)
           on == Who(d)
<1>6. op = CallOf(f).op /\ on = CallOf(f).on /\ f \in Frames /\ ~Past(f) /\ (f.fn = "stop" => f.at <= StopLength)
  BY <1>2, <1>4 DEF What, Who
<1> HIDE DEF f, op, on
<1>7. /\ op \in {"join", "stop"} => on \in Elements
      /\ op = "wait" => \E i \in Sinks : on = Sink(i)
  BY <1>6, FrameSays
<1>8. /\ What(d) \in {"join", "stop"} => Who(d) \in Elements
      /\ What(d) = "wait" => \E i \in Sinks : Who(d) = Sink(i)
  BY <1>7 DEF op, on
<1>9. What(d) \in {"wait", "close"} /\ (t \in {Reader, Log} => What(d) = "close")
  BY <1>1, <1>5, <1>8, NamesAre
<1>10. Pc(d) # "call"
  BY <1>1, PCsAre
<1>11. [op |-> What(d), on |-> t, pc |-> Pc(d)] \in Signals
  BY <1>1, <1>3 DEF Interrupted
<1> QED BY <1>3, <1>9, <1>10, <1>11

\* What a call of Close knows at its end.
LEMMA ClosedIs ==
  ASSUME TInv, ~Finished, Top.pc = "closed"
  PROVE  /\ Op = "close" /\ On \in XCThreads /\ On \notin Elements /\ On \in AllThreads
         /\ joined[On] = "yes" => pthread[On] = "exited"
         /\ xc[On].event => pthread[On] = "exited"
         /\ \/ joined[On] = "yes"
            \/ (xc[On].event \/ Spurious) /\ \E e \in Users(On, Waiting) : e # Depth /\ e < Depth
         /\ Depth = 1 => joined[On] = "yes"
         /\ Depth \notin Users(On, Waiting) /\ Depth \notin Users(On, Joining)
         /\ xc[On].waits = 0 <=> Users(On, Waiting) = {}
         /\ xc[On].locked <=> Users(On, Joining) # {}
<1>1. Shape /\ Waits /\ Joins /\ Leaving
  BY DEF TInv
<1>2. Op = "close" /\ On \in XCThreads /\ On \notin Elements /\ On \in AllThreads
  <2>1. Op = "close" /\ (Op = "close" => On \in XCThreads)
    BY <1>1, TopSays
  <2> QED BY <2>1, NamesAre
<1>3. (joined[On] = "yes" => pthread[On] = "exited") /\ (xc[On].event => pthread[On] = "exited")
  BY <1>1, <1>2 DEF Joins
<1>4. \/ joined[On] = "yes"
      \/ (xc[On].event \/ Spurious) /\ \E e \in Users(On, Waiting) : e < Depth
  <2>1. Depth \in Users(On, {"waited", "closed"})
    BY <1>1, TopUses
  <2> QED BY <1>1, <1>2, <2>1 DEF Leaving
<1>5. Depth \notin Users(On, Waiting) /\ Depth \notin Users(On, Joining)
  <2>1. "closed" \notin Waiting /\ "closed" \notin Joining
    BY PCsAre
  <2> QED BY <1>1, <2>1, TopUses
<1>6. Depth = 1 => \A e \in Users(On, Waiting) : ~(e < Depth)
  BY DEF Users
<1>7. xc[On].waits = 0 <=> Users(On, Waiting) = {}
  <2>1. xc[On].waits = Cardinality(Users(On, Waiting))
    BY <1>1, <1>2 DEF Waits
  <2>2. IsFiniteSet(Users(On, Waiting))
    BY <1>1, UsersAreFinite
  <2> QED BY <2>1, <2>2, FS_EmptySet
<1>8. xc[On].locked <=> Users(On, Joining) # {}
  BY <1>1, <1>2 DEF Waits
<1> QED BY <1>2, <1>3, <1>4, <1>5, <1>6, <1>7, <1>8

\* A sink's thread and its pipeline are deleted.
LEMMA SinkIsDeleted ==
  ASSUME TInv, Closed, NEW i \in Sinks, On = Sink(i), DeleteSink(i)
  PROVE  TInv'
<1>1. Shape /\ Interrupted /\ Ranges /\ Objects
  BY DEF TInv
<1>2. /\ ~Finished /\ harm = {} /\ Top.pc = "closed" /\ pipeline' = pipeline \ {i}
      /\ UNCHANGED <<pthread, told, joined, created, sinksRun, cut>>
  BY DEF Closed, At, DeleteSink
<1>3. /\ Op = "close" /\ On \in XCThreads /\ On \notin Elements /\ On \in AllThreads
      /\ joined[On] = "yes" => pthread[On] = "exited"
      /\ \/ joined[On] = "yes"
         \/ (xc[On].event \/ Spurious) /\ \E e \in Users(On, Waiting) : e # Depth /\ e < Depth
      /\ Depth \notin Users(On, Waiting) /\ Depth \notin Users(On, Joining)
      /\ xc[On].waits = 0 <=> Users(On, Waiting) = {}
      /\ xc[On].locked <=> Users(On, Joining) # {}
  BY <1>2, ClosedIs
<1>4. CASE xc[On].known /\ ~Over(On) /\ Harm("deleted in use") /\ UNCHANGED xc
  <2>1. SinksCut
    <3>1. SUFFICES ASSUME ~SinksCut PROVE FALSE
      OBVIOUS
    <3>2. Users(On, Waiting \cup Joining) = {}
      <4>1. SUFFICES ASSUME NEW d \in Users(On, Waiting \cup Joining) PROVE FALSE
        OBVIOUS
      <4>2. d # Depth
        <5>1. "closed" \notin Waiting \cup Joining
          BY PCsAre
        <5> QED BY <1>1, <1>2, <4>1, <5>1, TopUses
      <4>3. What(d) \in {"wait", "close"} /\ Pc(d) # "call" /\ [op |-> What(d), on |-> On, pc |-> Pc(d)] \in Signals
        BY <1>1, <1>2, <1>3, <4>1, <4>2, LowerCallsAre
      <4>4. CutSinks([op |-> What(d), on |-> On, pc |-> Pc(d)])
        BY <4>3 DEF CutSinks
      <4> QED BY <3>1, <4>3, <4>4 DEF SinksCut
    <3>3. Users(On, Waiting) = {} /\ Users(On, Joining) = {}
      BY <3>2 DEF Users
    <3> QED BY <1>3, <1>4, <3>3 DEF Over
  <2>2. pipeline' \subseteq Sinks /\ "deleted in use" \in Harms
    BY <1>1, <1>2 DEF Ranges, Harms
  <2> QED BY <1>2, <1>4, <2>1, <2>2, HarmStays
<1>5. CASE /\ ~(xc[On].known /\ ~Over(On)) /\ Return /\ UNCHANGED harm
           /\ xc' = [xc EXCEPT ![On].exists = FALSE, ![On].known = FALSE]
  <2>1. joined[On] = "yes"
    <3>1. xc[On].exists = xc[On].known /\ (~xc[On].exists => joined[On] = "yes")
      BY <1>1, <1>3 DEF Objects
    <3>2. Over(On) => joined[On] = "yes"
      BY <1>3 DEF Over
    <3> QED BY <1>5, <3>1, <3>2
  <2> DEFINE b == FALSE
  <2>2. b \in BOOLEAN /\ ~b /\ xc' = [xc EXCEPT ![On].exists = b, ![On].known = b]
    BY <1>5
  <2> HIDE DEF b
  <2> QED BY <1>2, <1>3, <1>5, <2>1, <2>2, CloseReturns
<1> QED BY <1>4, <1>5 DEF DeleteSink

\* The log is deleted, or the reader's input freed.
LEMMA ReleaseKeeps ==
  ASSUME TInv, Closed, On \in {Reader, Log}, Release(On)
  PROVE  TInv'
<1>1. Shape /\ Interrupted /\ Ranges /\ Objects
  BY DEF TInv
<1>2. /\ ~Finished /\ harm = {} /\ Top.pc = "closed" /\ pipeline' = pipeline
      /\ UNCHANGED <<pthread, told, joined, created, sinksRun, cut>>
  BY DEF Closed, At, Release
<1>3. /\ Op = "close" /\ On \in XCThreads /\ On \notin Elements /\ On \in AllThreads
      /\ joined[On] = "yes" => pthread[On] = "exited"
      /\ xc[On].event => pthread[On] = "exited"
      /\ \/ joined[On] = "yes"
         \/ (xc[On].event \/ Spurious) /\ \E e \in Users(On, Waiting) : e # Depth /\ e < Depth
      /\ Depth = 1 => joined[On] = "yes"
      /\ Depth \notin Users(On, Waiting) /\ Depth \notin Users(On, Joining)
      /\ xc[On].waits = 0 <=> Users(On, Waiting) = {}
      /\ xc[On].locked <=> Users(On, Joining) # {}
  BY <1>2, ClosedIs
<1>4. On = Log => Depth = 1 /\ joined[On] = "yes" /\ Over(On)
  <2>1. SUFFICES ASSUME On = Log PROVE Depth = 1 /\ joined[On] = "yes" /\ Over(On)
    OBVIOUS
  <2>2. Depth = 1
    BY <1>1, <1>2, <1>3, <2>1, TopSays, NamesAre
  <2>3. Users(On, Waiting) = {} /\ Users(On, Joining) = {}
    <3>1. 1 .. Depth = {Depth}
      BY <2>2
    <3> QED BY <1>3, <3>1 DEF Users
  <2> QED BY <1>3, <2>2, <2>3 DEF Over
<1>5. CASE /\ (On = Log /\ ~Over(On)) \/ pthread[On] = "run"
           /\ Harm("deleted in use") /\ UNCHANGED xc
  <2>1. ReaderCut
    <3>1. On = Reader /\ pthread[On] = "run"
      BY <1>4, <1>5 DEF Over
    <3>2. Spurious /\ \E e \in Users(On, Waiting) : e # Depth /\ e < Depth
      BY <1>3, <3>1
    <3>3. PICK e \in Users(On, Waiting) : e # Depth
      BY <3>2
    <3>4. e \in Users(On, Waiting \cup Joining) /\ Pc(e) \in Waiting
      BY <3>3 DEF Users
    <3>5. What(e) = "close" /\ [op |-> What(e), on |-> On, pc |-> Pc(e)] \in Signals
      BY <1>1, <1>2, <1>3, <3>1, <3>3, <3>4, LowerCallsAre
    <3>6. CutReader([op |-> What(e), on |-> On, pc |-> Pc(e)])
      BY <3>1, <3>2, <3>4, <3>5 DEF CutReader
    <3> QED BY <3>5, <3>6 DEF ReaderCut
  <2>2. pipeline' \subseteq Sinks /\ "deleted in use" \in Harms
    BY <1>1, <1>2 DEF Ranges, Harms
  <2> QED BY <1>2, <1>5, <2>1, <2>2, HarmStays
<1>6. CASE Return /\ UNCHANGED harm /\ xc' = [xc EXCEPT ![On].exists = On # Log, ![On].known = On # Log]
  <2> DEFINE b == On # Log
  <2>1. b \in BOOLEAN /\ (b <=> On # Log) /\ xc' = [xc EXCEPT ![On].exists = b, ![On].known = b]
    BY <1>6
  <2> HIDE DEF b
  <2>2. \/ On = Reader /\ b /\ pipeline' = pipeline
        \/ On = Log /\ ~b /\ pipeline' = pipeline
    BY <1>2, <2>1, NamesAre
  <2>3. ~b \/ Depth = 1 => joined[On] = "yes"
    BY <1>3, <1>4, <2>1
  <2> QED BY <1>2, <1>3, <1>6, <2>1, <2>2, <2>3, CloseReturns
<1> QED BY <1>5, <1>6 DEF Release

\* What the caller of Close gives up.
LEMMA ClosedKeeps == ASSUME TInv, Closed PROVE TInv'
BY SinkIsDeleted, ReleaseKeeps DEF Closed

\* The call that a handler returned to.
LEMMA PopSays ==
  ASSUME Shape, ~Finished, Depth # 1, stack' = Front(stack)
  PROVE  (Top.pc)' = "count" => Op' \in {"wait", "close"}
<1>1. /\ Depth \in Nat \ {0} /\ \A d \in 1 .. Depth : ~Past(stack[d])
  BY StackIs
<1> DEFINE m == Depth - 1
<1>2. Depth' = m /\ m \in 1 .. Depth /\ stack'[m] = stack[m]
  <2>1. Depth' = Depth - 1 /\ \A d \in 1 .. Depth - 1 : stack'[d] = stack[d]
    BY PopIs
  <2>2. m \in 1 .. Depth - 1 /\ m \in 1 .. Depth
    BY <1>1
  <2> QED BY <2>1, <2>2
<1> HIDE DEF m
<1>3. Op' = What(m) /\ (Top.pc)' = Pc(m)
  <2>1. Top' = stack'[Depth'] /\ Op' = CallOf(Top').op
    BY DEF Top, Last, Depth, Op
  <2> QED BY <1>2, <2>1 DEF What, Pc
<1>4. Pc(m) \in {"count", "waited"} \cup Waiting => What(m) \in {"wait", "close"}
  BY <1>1, <1>2 DEF Shape
<1> QED BY <1>3, <1>4

\* SinkWrap::Stop begins, is passed over, or ends.
LEMMA SinksLeave ==
  ASSUME TInv, ~Finished, harm = {}, Top.pc = "call", Op \in {"sinksRun?", "sinksStopped"},
         UNCHANGED <<pthread, told, joined, created, xc, pipeline, cut, harm>>, NEW by \in Nat,
         \/ Depth # 1 /\ stack' = Front(stack) /\ ~sinksRun'
         \/ /\ ~(Depth # 1 /\ stack' = Front(stack))
            /\ \/ stack' = [stack EXCEPT ![Depth].at = @ + by, ![Depth].pc = "call"]
               \/ Pc(Depth) = "call" /\ stack' = [stack EXCEPT ![Depth].at = @ + by]
            /\ stack[Depth].at + by <= IF Depth = 1 THEN RunLength + 1 ELSE StopLength
            /\ \/ Op = "sinksRun?" /\ sinksRun /\ by = 1 /\ sinksRun' = sinksRun
               \/ Op = "sinksRun?" /\ ~sinksRun /\ by = NSinks + 2 /\ ~sinksRun'
               \/ Op = "sinksStopped" /\ by = 1 /\ ~sinksRun',
         by = 1 \/ (Op = "sinksRun?" /\ by = NSinks + 2),
         sinksRun' \in BOOLEAN
  PROVE  TInv'
<1>1. /\ Shape /\ Interrupted /\ Ranges /\ Waits /\ Joins /\ Objects /\ Leaving /\ Passed
      /\ FlagsHold /\ Regions /\ Harmed
  BY DEF TInv
<1>2. /\ Shape' /\ Interrupted'
      /\ \A t, pcs : "call" \notin pcs => Users(t, pcs)' = Users(t, pcs) \ {Depth}
      /\ stack'[1].at = IF Depth = 1 THEN stack[1].at + by ELSE stack[1].at
  BY <1>1, LeaveIs
<1>3. /\ \/ /\ (Top.pc)' = "call" /\ (Top.fn)' = Top.fn /\ (Top.at)' = Top.at + by
            /\ ~(Depth # 1 /\ stack' = Front(stack))
         \/ /\ Depth # 1 /\ stack' = Front(stack) /\ stack[1].at <= NSinks + 3
            /\ [op |-> Op', on |-> On', pc |-> (Top.pc)'] \in Signals
            /\ Top' \in Frames /\ ~Past(Top') /\ ((Top.fn)' = "stop" => (Top.at)' <= StopLength)
            /\ (Top.fn)' = "run" => (Top.at)' = stack[1].at
      /\ Signals' = Signals
  BY <1>1, LeavesOff
<1>4. stack[1].at \in Nat /\ stack'[1].at \in Nat /\ stack'[1].at >= stack[1].at
  <2>1. stack[1].at \in Nat
    BY <1>1, BottomIs
  <2> QED BY <1>2, <2>1
<1>5. /\ Elements \cap XCThreads = {} /\ XCThreads \subseteq AllThreads /\ Elements \subseteq AllThreads
      /\ \A i \in Sinks : Sink(i) \in XCThreads
  BY NamesAre
<1>6. \A t, pcs : "call" \notin pcs => Users(t, pcs)' = Users(t, pcs)
  <2> TAKE t, pcs
  <2>1. "call" \notin pcs => Users(t, pcs)' = Users(t, pcs) \ {Depth}
    BY <1>2
  <2>2. Depth \in Users(t, pcs) <=> t = On /\ Top.pc \in pcs
    BY <1>1, TopUses
  <2> QED BY <2>1, <2>2
<1>7. "call" \notin Waiting /\ "call" \notin Joining
  BY PCsAre
<1>8. Ranges'
  BY <1>1 DEF Ranges, AllThreads, XCThreads, Elements, Reader, Log, Sink, Sinks, Harms
<1>9. Waits'
  <2>1. \A t \in XCThreads : /\ xc'[t].waits = xc[t].waits /\ xc'[t].locked = xc[t].locked
                             /\ Users(t, Waiting)' = Users(t, Waiting)
                             /\ Users(t, Joining)' = Users(t, Joining)
    BY <1>6, <1>7
  <2> QED BY <1>1, <2>1, WaitsStay
<1>10. Joins'
  <2>1. \A t \in AllThreads : /\ pthread[t] = "exited" => pthread'[t] = "exited"
                              /\ Users(t, {"joining"})' = Users(t, {"joining"})
                              /\ \/ Users(t, {"joined"})' \subseteq Users(t, {"joined"})
                                 \/ t \in Elements /\ joined[t] # "no"
    BY <1>6
  <2>2. \A t \in Elements : created'[t] \/ ~created[t] \/ joined[t] # "no"
    OBVIOUS
  <2>3. \A t \in XCThreads : /\ xc'[t].event => xc[t].event \/ pthread'[t] = "exited"
                             /\ \/ xc'[t].valid = xc[t].valid /\ (xc[t].locked => xc'[t].locked)
                                \/ ~xc'[t].valid /\ joined[t] = "yes"
    OBVIOUS
  <2>4. joined' = joined
    OBVIOUS
  <2> QED BY <1>1, <2>1, <2>2, <2>3, <2>4, JoinsStay
<1>11. Objects'
  <2>1. \A t \in XCThreads : /\ xc'[t].exists = xc[t].exists /\ xc'[t].known = xc[t].known
                             /\ joined[t] = "yes" => joined'[t] = "yes"
    OBVIOUS
  <2> QED BY <1>1, <1>4, <2>1, ObjectsStay
<1>12. Leaving'
  <2>1. \A t \in XCThreads :
           /\ xc[t].event => xc'[t].event
           /\ joined[t] = "yes" => joined'[t] = "yes"
           /\ Users(t, {"last?"})' \subseteq Users(t, {"last?"})
           /\ Users(t, {"waited", "closed"})' \subseteq Users(t, {"waited", "closed"})
           /\ Users(t, Waiting) \subseteq Users(t, Waiting)'
    BY <1>6, <1>7
  <2> QED BY <1>1, <2>1, LeavingStay
<1>13. Passed'
  <2>1. \A i \in Sinks :
          LET t == Sink(i) pcs == Joining \cup {"waited", "closed"}
          IN  xc'[t].exists =>
                xc[t].exists /\ (Users(t, pcs) \subseteq Users(t, pcs)' \/ (On = t /\ Op = "wait"))
    <3> DEFINE pcs == Joining \cup {"waited", "closed"}
    <3>1. "call" \notin pcs
      BY <1>7
    <3> HIDE DEF pcs
    <3>2. \A t \in XCThreads : Users(t, pcs)' = Users(t, pcs)
      BY <1>6, <3>1
    <3> QED BY <1>5, <3>2 DEF pcs
  <2>2. joined' = joined /\ (Depth = 1 /\ Op \in {"join", "wait", "close"} => joined[On] = "yes")
    OBVIOUS
  <2> QED BY <1>1, <1>2, <2>1, <2>2, PassedLeave
<1>14. FlagsHold'
  <2>1. \A t \in Elements : created'[t] => created[t] /\ ~(Top.pc = "joined" /\ On = t)
    OBVIOUS
  <2>2. \A t \in XCThreads : Users(t, {"join"} \cup Waiting)' \subseteq Users(t, {"join"} \cup Waiting)
    <3>1. "call" \notin {"join"} \cup Waiting
      BY <1>7
    <3> QED BY <1>6, <3>1
  <2>3. (Top.pc)' = "call" \/ [op |-> Op', on |-> On', pc |-> (Top.pc)'] \in Signals
    BY <1>3
  <2> QED BY <1>1, <1>3, <2>1, <2>2, <2>3, FlagsLeave
<1>15. Regions'
  <2>1. CASE Depth # 1 /\ stack' = Front(stack)
    <3>1. (Top.pc)' = "count" => Op' \in {"wait", "close"}
      BY <1>1, <2>1, PopSays
    <3>2. ~sinksRun' /\ xc' = xc
      BY <2>1
    <3> QED BY <1>1, <1>3, <2>1, <3>1, <3>2, RegionsLeave
  <2>2. CASE ~(Depth # 1 /\ stack' = Front(stack))
    BY <1>1, <1>3, <2>2, RegionsLeave
  <2> QED BY <2>1, <2>2
<1>16. Harmed'
  BY <1>1, <1>3, HarmedStay
<1> QED BY <1>2, <1>8, <1>9, <1>10, <1>11, <1>12, <1>13, <1>14, <1>15, <1>16 DEF TInv

\* SinkWrap::Stop asks whether it was done.
LEMMA SinksRunKeeps == ASSUME TInv, SinksRun PROVE TInv'
<1>1. Shape /\ Ranges /\ sinksRun \in BOOLEAN
  BY DEF TInv, Ranges
<1>2. /\ ~Finished /\ harm = {} /\ Top.pc = "call" /\ Op = "sinksRun?"
      /\ UNCHANGED <<pthread, told, joined, created, xc, pipeline, sinksRun, cut, harm>>
  BY DEF SinksRun, At
<1>3. /\ Depth \in Nat \ {0} /\ Top = stack[Depth] /\ Top.pc = Pc(Depth) /\ Top.at \in Nat /\ (Top.fn = "run" <=> Depth = 1)
      /\ Top.fn \in {"run", "stop"} /\ Top.at = BeforeSinks
      /\ BeforeSinks = (IF Depth = 1 THEN NSinks + 6 ELSE 4)
      /\ NSinks \in Nat \ {0} /\ RunLength = 2 * NSinks + 8 /\ StopLength = NSinks + 5
  BY <1>1, <1>2, StackIs, TopSays DEF Frames, BeforeSinks
<1>4. CASE sinksRun /\ Return
  <2>1. stack' = [stack EXCEPT ![Depth].at = @ + 1, ![Depth].pc = "call"]
    BY <1>1, <1>2, <1>4, ReturnIs
  <2>2. ~(Depth # 1 /\ stack' = Front(stack))
    <3>1. Depth' = Depth
      BY <1>1, <2>1, AdvanceIs
    <3>2. Depth # 1 /\ stack' = Front(stack) => Depth' = Depth - 1
      BY <1>1, PopIs
    <3> QED BY <1>3, <3>1, <3>2
  <2>3. stack[Depth].at + 1 <= IF Depth = 1 THEN RunLength + 1 ELSE StopLength
    BY <1>3
  <2> QED BY <1>1, <1>2, <1>4, <2>1, <2>2, <2>3, SinksLeave
<1>5. CASE ~sinksRun /\ Top.fn = "stop" /\ stack' = Front(stack)
  BY <1>1, <1>2, <1>3, <1>5, SinksLeave
<1>6. CASE ~sinksRun /\ Top.fn # "stop" /\ stack' = [stack EXCEPT ![Len(stack)].at = @ + NSinks + 2]
  <2> DEFINE by == NSinks + 2
  <2>1. by \in Nat /\ by = NSinks + 2 /\ stack' = [stack EXCEPT ![Depth].at = @ + by]
    <3>1. stack[Depth].at + NSinks + 2 = stack[Depth].at + by
      BY <1>3
    <3>2. stack' = [stack EXCEPT ![Depth].at = stack[Depth].at + NSinks + 2]
      BY <1>6 DEF Depth
    <3>3. stack' = [stack EXCEPT ![Depth].at = stack[Depth].at + by]
      BY <3>1, <3>2
    <3>4. by \in Nat /\ by = NSinks + 2
      BY <1>3
    <3> HIDE DEF by
    <3>5. stack' = [stack EXCEPT ![Depth].at = @ + by]
      BY <3>3
    <3> QED BY <3>4, <3>5
  <2> HIDE DEF by
  <2>2. Depth = 1 /\ stack[Depth].at + by <= IF Depth = 1 THEN RunLength + 1 ELSE StopLength
    BY <1>3, <1>6, <2>1
  <2> QED BY <1>1, <1>2, <1>3, <1>6, <2>1, <2>2, SinksLeave
<1> QED BY <1>4, <1>5, <1>6 DEF SinksRun

\* SinkWrap::Stop is done.
LEMMA SinksStoppedKeeps == ASSUME TInv, SinksStopped PROVE TInv'
<1>1. Shape /\ Ranges
  BY DEF TInv
<1>2. /\ ~Finished /\ harm = {} /\ Top.pc = "call" /\ Op = "sinksStopped" /\ sinksRun' = FALSE /\ Return
      /\ UNCHANGED <<pthread, told, joined, created, xc, pipeline, cut, harm>>
  BY DEF SinksStopped, At
<1>3. /\ Depth \in Nat \ {0} /\ Top = stack[Depth] /\ Top.at \in Nat /\ (Top.fn = "run" <=> Depth = 1)
      /\ Top.at = (IF Top.fn = "run" THEN 2 * NSinks + 7 ELSE StopLength)
      /\ NSinks \in Nat \ {0} /\ RunLength = 2 * NSinks + 8 /\ StopLength = NSinks + 5
  BY <1>1, <1>2, StackIs, TopSays DEF Frames
<1>4. ~sinksRun' /\ sinksRun' \in BOOLEAN
  BY <1>2
<1>5. CASE Depth # 1 /\ stack' = Front(stack)
  BY <1>2, <1>4, <1>5, SinksLeave
<1>6. CASE ~(Depth # 1 /\ stack' = Front(stack))
  <2>1. /\ Depth = 1 \/ Op # "sinksStopped"
        /\ stack' = [stack EXCEPT ![Depth].at = @ + 1, ![Depth].pc = "call"]
    BY <1>1, <1>2, <1>6, ReturnIs
  <2>2. stack[Depth].at + 1 <= IF Depth = 1 THEN RunLength + 1 ELSE StopLength
    BY <1>2, <1>3, <2>1
  <2> QED BY <1>2, <1>4, <1>6, <2>1, <2>2, SinksLeave
<1> QED BY <1>5, <1>6

\* A signal puts a call of Stop on top of the one that it finds.
LEMMA SignalKeeps == ASSUME TInv, CtrlHandlerRoutine PROVE TInv'
<1>1. /\ Shape /\ Interrupted /\ Ranges /\ Waits /\ Joins /\ Objects /\ Leaving /\ Passed
      /\ FlagsHold /\ Regions /\ Harmed
  BY DEF TInv
<1>2. /\ ~Finished /\ harm = {} /\ stack' = Append(stack, Frame("stop"))
      /\ UNCHANGED <<pthread, told, joined, created, xc, pipeline, sinksRun, harm>>
  BY DEF CtrlHandlerRoutine
<1> DEFINE c == [op |-> Op, on |-> On, pc |-> Top.pc]
<1>3. /\ Shape' /\ Interrupted' /\ stack'[1].at = stack[1].at
      /\ \A t, pcs : "call" \notin pcs => Users(t, pcs)' = Users(t, pcs)
      /\ Signals' = Signals \cup {c}
  BY <1>1, SignalIs
<1>4. (Top.pc)' = "call" /\ ~InSinks'
  <2>1. Depth' = Depth + 1 /\ stack'[Depth + 1].fn = "stop" /\ stack'[Depth + 1].at = 1
        /\ stack'[Depth + 1].pc = "call"
    BY <1>1, <1>2, PushIs
  <2>2. Top' = stack'[Depth']
    BY DEF Top, Last, Depth
  <2>3. (Top.pc)' = "call" /\ (Top.at)' = 1 /\ (Top.fn)' = "stop"
    BY <2>1, <2>2
  <2>4. BeforeSinks' = 4
    BY <2>3 DEF BeforeSinks
  <2> QED BY <2>3, <2>4 DEF InSinks
<1>5. stack[1].at \in Nat /\ stack'[1].at \in Nat /\ stack'[1].at >= stack[1].at
  BY <1>1, <1>3, BottomIs
<1>6. c.op = Op /\ c.on = On /\ c.pc = Top.pc
  OBVIOUS
<1> HIDE DEF c
<1>7. /\ Elements \cap XCThreads = {} /\ XCThreads \subseteq AllThreads /\ Elements \subseteq AllThreads
      /\ \A i \in Sinks : Sink(i) \in XCThreads
  BY NamesAre
<1>8. "call" \notin Waiting /\ "call" \notin Joining
  BY PCsAre
<1>9. Ranges'
  BY <1>1, <1>2 DEF Ranges, AllThreads, XCThreads, Elements, Reader, Log, Sink, Sinks, Harms
<1>10. Waits'
  <2>1. \A t \in XCThreads : /\ xc'[t].waits = xc[t].waits /\ xc'[t].locked = xc[t].locked
                             /\ Users(t, Waiting)' = Users(t, Waiting)
                             /\ Users(t, Joining)' = Users(t, Joining)
    BY <1>2, <1>3, <1>8
  <2> QED BY <1>1, <2>1, WaitsStay
<1>11. Joins'
  <2>1. \A t \in AllThreads : /\ pthread[t] = "exited" => pthread'[t] = "exited"
                              /\ Users(t, {"joining"})' = Users(t, {"joining"})
                              /\ \/ Users(t, {"joined"})' \subseteq Users(t, {"joined"})
                                 \/ t \in Elements /\ joined[t] # "no"
    BY <1>2, <1>3
  <2>2. \A t \in Elements : created'[t] \/ ~created[t] \/ joined[t] # "no"
    BY <1>2
  <2>3. \A t \in XCThreads : /\ xc'[t].event => xc[t].event \/ pthread'[t] = "exited"
                             /\ \/ xc'[t].valid = xc[t].valid /\ (xc[t].locked => xc'[t].locked)
                                \/ ~xc'[t].valid /\ joined[t] = "yes"
    BY <1>2
  <2>4. joined' = joined
    BY <1>2
  <2> QED BY <1>1, <2>1, <2>2, <2>3, <2>4, JoinsStay
<1>12. Objects'
  <2>1. \A t \in XCThreads : /\ xc'[t].exists = xc[t].exists /\ xc'[t].known = xc[t].known
                             /\ joined[t] = "yes" => joined'[t] = "yes"
    BY <1>2
  <2> QED BY <1>1, <1>5, <2>1, ObjectsStay
<1>13. Leaving'
  <2>1. \A t \in XCThreads :
           /\ xc[t].event => xc'[t].event
           /\ joined[t] = "yes" => joined'[t] = "yes"
           /\ Users(t, {"last?"})' \subseteq Users(t, {"last?"})
           /\ Users(t, {"waited", "closed"})' \subseteq Users(t, {"waited", "closed"})
           /\ Users(t, Waiting) \subseteq Users(t, Waiting)'
    BY <1>2, <1>3, <1>8
  <2> QED BY <1>1, <2>1, LeavingStay
<1>14. Passed'
  <2>1. \A i \in Sinks :
          LET t == Sink(i) pcs == Joining \cup {"waited", "closed"}
          IN  joined'[t] = "yes" /\ xc'[t].exists =>
                \/ Users(t, pcs)' # {}
                \/ joined[t] = "yes" /\ xc[t].exists /\ Users(t, pcs) \subseteq Users(t, pcs)'
    <3> DEFINE pcs == Joining \cup {"waited", "closed"}
    <3>1. "call" \notin pcs
      BY <1>8
    <3> HIDE DEF pcs
    <3>2. \A t \in XCThreads : Users(t, pcs)' = Users(t, pcs)
      BY <1>3, <3>1
    <3> QED BY <1>2, <1>7, <3>2 DEF pcs
  <2>2. \A t \in AllThreads : joined[t] = "yes" => joined'[t] = "yes"
    BY <1>2
  <2> QED BY <1>1, <1>3, <2>1, <2>2, PassedStay
<1>15. FlagsHold'
  <2>1. SUFFICES ASSUME ~FlagsCut', harm' = {}
                 PROVE  /\ \A t \in Elements : ~(joined'[t] = "yes" /\ created'[t])
                        /\ \A t \in XCThreads : Users(t, {"join"} \cup Waiting)' # {} => joined'[t] = "no"
    BY <1>4 DEF FlagsHold, Elements, XCThreads, Reader, Log, Sink, Sinks, Waiting
  <2>2. ~FlagsCut /\ ~CutFlag(c)
    BY <1>3, <2>1 DEF FlagsCut
  <2>3. /\ \A t \in Elements : joined[t] = "yes" /\ created[t] => Top.pc = "joined" /\ On = t
        /\ \A t \in XCThreads : Users(t, {"join"} \cup Waiting) # {} => joined[t] = "no"
    BY <1>1, <1>2, <2>2 DEF FlagsHold
  <2>4. \A t \in Elements : ~(Top.pc = "joined" /\ On = t)
    BY <1>6, <2>2 DEF CutFlag
  <2>5. \A t : Users(t, {"join"} \cup Waiting)' = Users(t, {"join"} \cup Waiting)
    <3>1. "call" \notin {"join"} \cup Waiting
      BY <1>8
    <3> QED BY <1>3, <3>1
  <2> QED BY <1>2, <2>3, <2>4, <2>5
<1>16. Regions'
  <2>1. SUFFICES ASSUME ~SinksCut', harm' = {} PROVE ~sinksRun' \/ pipeline' = Sinks
    BY <1>4 DEF Regions, Sinks
  <2>2. ~SinksCut /\ ~CutSinks(c)
    BY <1>3, <2>1 DEF SinksCut
  <2>3. ~InSinks => ~sinksRun \/ pipeline = Sinks
    BY <1>1, <1>2, <2>2 DEF Regions
  <2>4. ~InSinks
    <3>1. ~(Op = "sinksStopped") /\ ~(Op = "close" /\ On \in {Sink(i) : i \in Sinks})
      BY <1>6, <2>2 DEF CutSinks
    <3>2. \/ Op \in {"join", "stop", "wait"} /\ Top.at < BeforeSinks
          \/ Op = "close" /\ On \in {Reader, Log} /\ (Top.at < BeforeSinks \/ Top.at > BeforeSinks + NSinks + 1)
          \/ Op = "sinksRun?" /\ Top.at = BeforeSinks
      BY <1>1, <1>2, <3>1, TopPlace
    <3>3. Top.at \in Nat /\ BeforeSinks \in Nat /\ NSinks \in Nat
      BY <1>1, <1>2, TopSays, ThreadsAssumption DEF Frames, BeforeSinks
    <3> QED BY <3>2, <3>3 DEF InSinks
  <2> QED BY <1>2, <2>3, <2>4
<1>17. Harmed'
  BY <1>1, <1>2, <1>3, HarmedStay
<1> QED BY <1>3, <1>9, <1>10, <1>11, <1>12, <1>13, <1>14, <1>15, <1>16, <1>17 DEF TInv

\* A thread moves; the main thread does not.
LEMMA ThreadMoves ==
  ASSUME TInv, UNCHANGED <<told, joined, created, pipeline, sinksRun, stack, cut, harm>>,
         pthread' \in [AllThreads -> {"run", "returned", "exited"}],
         \A t \in AllThreads : pthread[t] = "exited" => pthread'[t] = "exited",
         xc' \in [XCThreads -> XcStates],
         \A t \in XCThreads :
           /\ xc'[t].waits = xc[t].waits /\ xc'[t].valid = xc[t].valid /\ xc'[t].locked = xc[t].locked
           /\ xc'[t].exists = xc[t].exists /\ xc'[t].known = xc[t].known
           /\ xc[t].event => xc'[t].event
           /\ xc'[t].event => xc[t].event \/ pthread'[t] = "exited"
  PROVE  TInv'
<1>1. /\ Shape /\ Interrupted /\ Ranges /\ Waits /\ Joins /\ Objects /\ Leaving /\ Passed
      /\ FlagsHold /\ Regions /\ Harmed
  BY DEF TInv
<1>2. Shape'
  BY <1>1 DEF Shape, Depth, Who, What, Pc, Past, Frames, Cuts, PCs, Waiting, Joining, RunLength, StopLength
<1>3. Interrupted' /\ Signals' = Signals
  BY <1>1 DEF Interrupted, Signals, Depth, Who, What, Pc
<1>4. Ranges'
  BY <1>1 DEF Ranges, Harms, AllThreads, Elements, XCThreads, Reader, Log, Sink, Sinks, XcStates
<1>5. \A t, pcs : Users(t, pcs)' = Users(t, pcs)
  BY DEF Users, Depth, Who, Pc
<1>6. Waits'
  BY <1>1, <1>5, WaitsStay
<1>7. Joins'
  BY <1>1, <1>5, JoinsStay
<1>8. Leaving'
  BY <1>1, <1>5, LeavingStay
<1>9. Objects'
  <2>1. stack[1].at \in Nat /\ stack'[1].at = stack[1].at /\ stack'[1].at \in Nat /\ stack'[1].at >= stack[1].at
    BY <1>1, BottomIs
  <2> QED BY <1>1, <2>1, ObjectsStay
<1>10. Passed'
  <2>1. \A i \in Sinks :
          LET t == Sink(i) pcs == Joining \cup {"waited", "closed"}
          IN  joined'[t] = "yes" /\ xc'[t].exists =>
                \/ Users(t, pcs)' # {}
                \/ joined[t] = "yes" /\ xc[t].exists /\ Users(t, pcs) \subseteq Users(t, pcs)'
    BY <1>5, NamesAre
  <2>2. stack'[1].at = stack[1].at /\ \A t \in AllThreads : joined[t] = "yes" => joined'[t] = "yes"
    OBVIOUS
  <2> QED BY <1>1, <2>1, <2>2, PassedStay
<1>11. Top' = Top /\ Op' = Op /\ On' = On
  BY DEF Top, Op, On
<1>12. ~Finished => On \in AllThreads /\ (Op = "close" => On \in XCThreads) /\ (Op = "wait" => On \in XCThreads)
  BY <1>1, TopSays
<1>13. Top.pc = "count" => ~Finished /\ Op \in {"wait", "close"}
  <2>1. Finished => Top.pc = "call"
    BY <1>1, StackIs
  <2>2. ~Finished /\ Top.pc = "count" => Op \in {"wait", "close"}
    BY <1>1, TopSays
  <2> QED BY <2>1, <2>2
<1>14. FlagsHold'
  <2>1. SUFFICES ASSUME ~FlagsCut, harm = {} PROVE FlagsHold'
    BY <1>3 DEF FlagsHold, FlagsCut
  <2>2. /\ \A t \in Elements : joined[t] = "yes" /\ created[t] => Top.pc = "joined" /\ On = t
        /\ Top.pc = "join" /\ On \in Elements => created[On]
        /\ \A t \in XCThreads : Users(t, {"join"} \cup Waiting) # {} => joined[t] = "no"
        /\ Top.pc = "count" /\ Op = "close" => xc[On].valid
    BY <1>1, <2>1 DEF FlagsHold
  <2>3. Top.pc = "count" /\ Op = "close" => xc'[On].valid
    BY <1>12, <1>13, <2>2
  <2>4. \A t \in XCThreads : Users(t, {"join"} \cup Waiting)' # {} => joined[t] = "no"
    BY <1>5, <2>2
  <2> QED BY <1>11, <2>2, <2>3, <2>4 DEF FlagsHold, Elements, XCThreads, Reader, Log, Sink, Sinks, Waiting
<1>15. Regions'
  <2>1. SUFFICES ASSUME ~SinksCut, harm = {} PROVE Regions'
    BY <1>3 DEF Regions, SinksCut
  <2>2. /\ InSinks => sinksRun /\ \A i \in Sinks : BeforeSinks + i >= Top.at => i \in pipeline
        /\ ~InSinks => ~sinksRun \/ pipeline = Sinks
        /\ Top.pc = "count" => xc[On].exists
    BY <1>1, <2>1 DEF Regions
  <2>3. Top.pc = "count" => xc'[On].exists
    BY <1>12, <1>13, <2>2
  <2>4. InSinks' = InSinks /\ BeforeSinks' = BeforeSinks
    BY <1>11 DEF InSinks, BeforeSinks
  <2> QED BY <1>11, <2>2, <2>3, <2>4 DEF Regions, Sinks
<1>16. Harmed'
  BY <1>1, <1>3, HarmedStay
<1> QED BY <1>2, <1>3, <1>4, <1>6, <1>7, <1>8, <1>9, <1>10, <1>14, <1>15, <1>16 DEF TInv

\* The function of a thread returns, or ThreadLaunch ends.
LEMMA WorkersKeep == ASSUME TInv, NEW t \in AllThreads, Worker(t) PROVE TInv'
<1>1. Ranges /\ Joins /\ Objects
  BY DEF TInv
<1>2. /\ pthread \in [AllThreads -> {"run", "returned", "exited"}] /\ xc \in [XCThreads -> XcStates]
  BY <1>1 DEF Ranges, XcStates
<1>3. CASE FunctionReturns(t)
  <2>1. /\ pthread[t] = "run"
        /\ pthread' = [pthread EXCEPT ![t] = IF t \in Elements THEN "exited" ELSE "returned"]
        /\ UNCHANGED <<told, joined, created, xc, pipeline, sinksRun, stack, cut, harm>>
    BY <1>3 DEF FunctionReturns
  <2>2. /\ pthread' \in [AllThreads -> {"run", "returned", "exited"}]
        /\ \A u \in AllThreads : pthread[u] = "exited" => pthread'[u] = "exited"
    BY <1>2, <2>1
  <2> QED BY <1>2, <2>1, <2>2, ThreadMoves
<1>4. CASE t \in XCThreads /\ ThreadLaunch(t)
  <2>1. /\ pthread[t] = "returned" /\ pthread' = [pthread EXCEPT ![t] = "exited"]
        /\ xc' = [xc EXCEPT ![t].event = TRUE]
        /\ harm' = harm \cup (IF xc[t].exists THEN {} ELSE {"used"})
        /\ UNCHANGED <<told, joined, created, pipeline, sinksRun, stack, cut>>
    BY <1>4 DEF ThreadLaunch
  <2>2. /\ pthread' \in [AllThreads -> {"run", "returned", "exited"}] /\ pthread'[t] = "exited"
        /\ \A u \in AllThreads : pthread[u] = "exited" => pthread'[u] = "exited"
    BY <1>2, <2>1
  <2>3. /\ xc' \in [XCThreads -> XcStates] /\ xc'[t].event = TRUE
        /\ \A u \in XCThreads : u # t => xc'[u] = xc[u]
        /\ xc'[t].waits = xc[t].waits /\ xc'[t].valid = xc[t].valid /\ xc'[t].locked = xc[t].locked
        /\ xc'[t].exists = xc[t].exists /\ xc'[t].known = xc[t].known
    BY <1>1, <1>4, <2>1, EventSet
  <2>4. harm' = harm
    <3>1. joined[t] = "yes" => pthread[t] = "exited"
      BY <1>1 DEF Joins
    <3>2. ~xc[t].exists => joined[t] = "yes"
      BY <1>1, <1>4 DEF Objects
    <3>3. xc[t].exists
      BY <2>1, <3>1, <3>2
    <3> QED BY <2>1, <3>3
  <2>5. \A u \in XCThreads :
           /\ xc'[u].waits = xc[u].waits /\ xc'[u].valid = xc[u].valid /\ xc'[u].locked = xc[u].locked
           /\ xc'[u].exists = xc[u].exists /\ xc'[u].known = xc[u].known
           /\ xc[u].event => xc'[u].event
           /\ xc'[u].event => xc[u].event \/ pthread'[u] = "exited"
    BY <2>2, <2>3
  <2> QED BY <2>1, <2>2, <2>3, <2>4, <2>5, ThreadMoves
<1> QED BY <1>3, <1>4 DEF Worker

-----------------------------------------------------------------------------
(* The invariant holds, and what it is for. *)

\* Nothing is waited for at first.
LEMMA ThreadsStart == ThreadsInit => TInv
<1> SUFFICES ASSUME ThreadsInit PROVE TInv
  OBVIOUS
<1>1. /\ pthread = [t \in AllThreads |-> "run"] /\ told = {}
      /\ joined = [t \in AllThreads |-> "no"] /\ created = [t \in Elements |-> TRUE]
      /\ pipeline = Sinks /\ sinksRun = TRUE /\ stack = <<Frame("run")>> /\ cut = << >> /\ harm = {}
  BY DEF ThreadsInit
<1>2. Depth = 1 /\ stack[1] = Frame("run") /\ 1 .. Depth = {1} /\ Top = Frame("run")
  <2>1. Depth = 1 /\ stack[1] = Frame("run")
    BY <1>1 DEF Depth
  <2> QED BY <2>1 DEF Top, Last, Depth
<1>3. stack[1].fn = "run" /\ stack[1].at = 1 /\ stack[1].pc = "call" /\ stack[1] \in Frames
  BY <1>2 DEF Frame, Frames, PCs
<1>4. NSinks \in Nat \ {0} /\ MaxSignals \in Nat /\ RunLength \in Nat /\ RunLength >= 1 /\ NSinks + 3 >= 1
  BY ThreadsAssumption DEF RunLength
<1>5. Shape
  <2>1. stack \in Seq(Frames)
    BY <1>1, <1>2, <1>3
  <2>2. cut \in Seq(Cuts) /\ Len(cut) = 0
    BY <1>1
  <2>3. ~Past(stack[1])
    BY <1>3, <1>4 DEF Past
  <2>4. /\ ~(Pc(1) \in {"count", "waited"} \cup Waiting) /\ Pc(1) # "closed" /\ ~(Pc(1) \in Joining)
    BY <1>3, PCsAre DEF Pc
  <2> QED BY <1>2, <1>3, <1>4, <2>1, <2>2, <2>3, <2>4 DEF Shape
<1>6. \A t, pcs : "call" \notin pcs => Users(t, pcs) = {}
  BY <1>2, <1>3 DEF Users, Pc
<1>7. "call" \notin Waiting /\ "call" \notin Joining
  BY PCsAre
<1>8. Interrupted
  BY <1>2 DEF Interrupted
<1> DEFINE x == [event |-> FALSE, waits |-> 0, valid |-> TRUE, locked |-> FALSE, exists |-> TRUE, known |-> TRUE]
<1>9. /\ x \in XcStates /\ x.event = FALSE /\ x.waits = 0 /\ x.valid = TRUE /\ x.locked = FALSE
      /\ x.exists = TRUE /\ x.known = TRUE /\ xc = [t \in XCThreads |-> x]
  BY DEF XcStates, ThreadsInit
<1> HIDE DEF x
<1>10. /\ xc \in [XCThreads -> XcStates] /\ \A t \in XCThreads : xc[t] = x
  BY <1>9
<1>11. \A t \in XCThreads : /\ ~xc[t].event /\ xc[t].waits = 0 /\ xc[t].valid /\ ~xc[t].locked
                            /\ xc[t].exists /\ xc[t].known
  BY <1>9, <1>10
<1>12. Ranges
  BY <1>1, <1>10 DEF Ranges, XcStates, Harms
<1>13. Waits
  BY <1>6, <1>7, <1>11, FS_EmptySet DEF Waits
<1>14. \A t \in AllThreads : joined[t] = "no"
  BY <1>1
<1>15. \A t \in Elements : created[t]
  BY <1>1
<1>16. Joins
  <2>1. \A t \in AllThreads : Users(t, {"joining"}) = {} /\ Users(t, {"joined"}) = {}
    BY <1>6
  <2>2. XCThreads \subseteq AllThreads /\ Elements \subseteq AllThreads
    BY NamesAre
  <2> QED BY <1>11, <1>14, <1>15, <2>1, <2>2 DEF Joins
<1>17. Objects
  <2>1. \A t \in XCThreads : xc[t].exists = xc[t].known
    BY <1>9, <1>10
  <2> QED BY <1>11, <2>1, NamesAre DEF Objects
<1>18. Leaving
  <2>1. \A t : Users(t, {"last?"}) = {} /\ Users(t, {"waited", "closed"}) = {}
    BY <1>6
  <2> QED BY <2>1 DEF Leaving
<1>19. Passed
  <2>1. /\ ~(stack[1].at > 1) /\ ~(stack[1].at > 2) /\ ~(stack[1].at > NSinks + 3) /\ ~(stack[1].at > RunLength)
        /\ \A i \in Sinks : ~(stack[1].at > 2 + i)
    BY <1>3, <1>4 DEF Sinks
  <2>2. \A i \in Sinks : joined[Sink(i)] # "yes"
    BY <1>14, NamesAre
  <2> QED BY <2>1, <2>2 DEF Passed
<1>20. FlagsHold
  <2>1. Top.pc = "call"
    BY <1>2, <1>3
  <2>2. Elements \subseteq AllThreads /\ XCThreads \subseteq AllThreads
    BY NamesAre
  <2> QED BY <1>14, <2>1, <2>2 DEF FlagsHold
<1>21. Regions
  <2>1. Top.pc = "call"
    BY <1>2, <1>3
  <2> QED BY <1>1, <2>1 DEF Regions, InSinks, BeforeSinks, Top
<1>22. Harmed
  BY <1>1 DEF Harmed
<1> QED BY <1>5, <1>8, <1>12, <1>13, <1>16, <1>17, <1>18, <1>19, <1>20, <1>21, <1>22 DEF TInv

\* Every step keeps the invariant.
LEMMA ThreadsKeepOn == TInv /\ (ThreadsNext \/ UNCHANGED threadVars) => TInv'
<1>1. ASSUME TInv, UNCHANGED threadVars PROVE TInv'
  <2>1. /\ pthread \in [AllThreads -> {"run", "returned", "exited"}] /\ xc \in [XCThreads -> XcStates]
    BY <1>1 DEF TInv, Ranges, XcStates
  <2>2. UNCHANGED <<pthread, told, joined, created, xc, pipeline, sinksRun, stack, cut, harm>>
    BY <1>1 DEF threadVars
  <2> QED BY <1>1, <2>1, <2>2, ThreadMoves
<1>2. ASSUME TInv, MainThread PROVE TInv'
  BY <1>2, ElementBeginsKeeps, JoinBeginsKeeps, JoinEndsKeeps, ElementEndsKeeps, WaitBeginsKeeps,
     CloseBeginsKeeps, WaitCountsKeeps, EventWaitKeeps, WaitLeavesKeeps, WaitJoinedKeeps,
     WaitEndsKeeps, ClosedKeeps, SinksRunKeeps, SinksStoppedKeeps DEF MainThread
<1>3. ASSUME TInv, ThreadsNext PROVE TInv'
  BY <1>2, <1>3, SignalKeeps, EventWaitKeeps, WorkersKeep DEF ThreadsNext
<1> QED BY <1>1, <1>3

\* What the invariant is for.
LEMMA ThreadsAreSafe == TInv => ThreadsAreKept
<1> SUFFICES ASSUME TInv PROVE ThreadsAreKept
  OBVIOUS
<1>1. Shape /\ Passed /\ Harmed
  BY DEF TInv
<1>2. Finished => \A t \in AllThreads : joined[t] = "yes"
  <2>1. SUFFICES ASSUME Finished PROVE \A t \in AllThreads : joined[t] = "yes"
    OBVIOUS
  <2>2. stack[1].at \in Nat /\ stack[1].at > RunLength /\ RunLength = 2 * NSinks + 8 /\ NSinks \in Nat
    <3>1. Len(Calls["run"]) = RunLength
      BY RunIs
    <3> QED BY <1>1, <2>1, <3>1, BottomIs, StackIs DEF Finished
  <2>3. joined[Decoder] = "yes" /\ joined[Encoder] = "yes" /\ joined[Log] = "yes" /\ joined[Reader] = "yes"
    BY <1>1, <2>2 DEF Passed
  <2>4. \A i \in Sinks : joined[Sink(i)] = "yes"
    <3>1. \A i \in Sinks : stack[1].at > 2 + i
      BY <2>2 DEF Sinks
    <3> QED BY <1>1, <3>1 DEF Passed
  <2> QED BY <2>3, <2>4, NamesAre
<1>3. "joined twice" \in harm => \E c \in Signals : CutFlag(c)
  BY <1>1 DEF Harmed, FlagsCut
<1>4. harm \cap {"used", "deleted in use"} # {} => \E c \in Signals : CutSinks(c) \/ CutReader(c)
  BY <1>1 DEF Harmed, SinksCut, ReaderCut
<1> QED BY <1>2, <1>3, <1>4 DEF ThreadsAreKept, EveryThreadIsJoinedOnce, ThreadsOutliveTheirUsers

\* The types, and what m_WaitCount and m_Mutex say.
LEMMA ThreadsAreTyped == TInv => ThreadsTypeOK
<1> SUFFICES ASSUME TInv PROVE ThreadsTypeOK
  OBVIOUS
<1>1. Shape /\ Ranges /\ Waits
  BY DEF TInv
<1>2. /\ Depth \in Nat \ {0} /\ DOMAIN stack = 1 .. Depth /\ (Finished => Depth = 1 /\ Pc(1) = "call")
  BY <1>1, StackIs
<1>3. Len(cut) <= MaxSignals /\ Depth <= Len(cut) + 1 /\ Len(cut) \in Nat /\ MaxSignals \in Nat
  BY <1>1, ThreadsAssumption DEF Shape
<1>4. Depth \in 1 .. MaxSignals + 1
  BY <1>2, <1>3
<1>5. \A t, pcs : "call" \notin pcs => CallsAt(t, pcs) = Users(t, pcs)
  <2> SUFFICES ASSUME NEW t, NEW pcs, "call" \notin pcs PROVE CallsAt(t, pcs) = Users(t, pcs)
    OBVIOUS
  <2>1. CASE Finished
    <3>1. CallsAt(t, pcs) = {}
      BY <2>1 DEF CallsAt
    <3>2. Users(t, pcs) = {}
      BY <1>2, <2>1 DEF Users
    <3> QED BY <3>1, <3>2
  <2>2. CASE ~Finished
    BY <1>2, <2>2 DEF CallsAt, Users, Who, Pc
  <2> QED BY <2>1, <2>2
<1>6. \A t \in XCThreads :
        /\ xc[t].waits = Cardinality(CallsAt(t, Waiting))
        /\ xc[t].locked <=> CallsAt(t, Joining) # {}
  BY <1>1, <1>5, PCsAre DEF Waits
<1>7. \A t \in XCThreads : xc[t].waits \in 0 .. MaxSignals + 1
  <2> TAKE t \in XCThreads
  <2>1. xc[t].waits \in Nat /\ xc[t].waits = Cardinality(Users(t, Waiting))
    BY <1>1 DEF Ranges, Waits
  <2>2. Users(t, Waiting) \in SUBSET (1 .. Depth)
    BY DEF Users
  <2> DEFINE n == Depth
  <2>3. n \in Int /\ 1 \in Int /\ n >= 1
    BY <1>2
  <2> HIDE DEF n
  <2>4. IsFiniteSet(1 .. n) /\ Cardinality(1 .. n) = n
    <3>1. IsFiniteSet(1 .. n) /\ Cardinality(1 .. n) = IF 1 > n THEN 0 ELSE n - 1 + 1
      BY <2>3, FS_Interval
    <3> QED BY <2>3, <3>1
  <2>5. Users(t, Waiting) \in SUBSET (1 .. n)
    BY <2>2 DEF n
  <2>6. Cardinality(Users(t, Waiting)) <= n
    BY <2>4, <2>5, FS_Subset
  <2> QED BY <1>3, <1>4, <2>1, <2>6 DEF n
<1>8. xc \in [XCThreads -> [event : BOOLEAN, waits : 0 .. MaxSignals + 1, valid : BOOLEAN,
              locked : BOOLEAN, exists : BOOLEAN, known : BOOLEAN]]
  <2>1. xc \in [XCThreads -> [event : BOOLEAN, waits : Nat, valid : BOOLEAN,
                locked : BOOLEAN, exists : BOOLEAN, known : BOOLEAN]]
    BY <1>1 DEF Ranges
  <2> DEFINE W == 0 .. MaxSignals + 1
  <2>2. \A t \in XCThreads : xc[t].waits \in W
    BY <1>7
  <2> HIDE DEF W
  <2>3. xc \in [XCThreads -> [event : BOOLEAN, waits : W, valid : BOOLEAN,
                locked : BOOLEAN, exists : BOOLEAN, known : BOOLEAN]]
    BY <2>1, <2>2
  <2> QED BY <2>3 DEF W
<1> QED BY <1>1, <1>3, <1>4, <1>6, <1>8 DEF ThreadsTypeOK, Ranges, Depth

-----------------------------------------------------------------------------
(* The theorems. *)

\* In every step of the program at most one of its parts moves.
LEMMA OneMoves ==
  ASSUME [Next]_vars
  PROVE  /\ OverlayNext \/ UNCHANGED overlayVars
         /\ ThreadsNext \/ UNCHANGED threadVars
         /\ SetupNext \/ UNCHANGED setupVars
<1>1. CASE Next
  BY <1>1 DEF Next
<1>2. CASE UNCHANGED vars
  BY <1>2 DEF vars
<1> QED BY <1>1, <1>2

\* The invariant of the overlay elements, in the run they share with the others.
LEMMA OverlaysInvariant == Spec => []PInv
<1>1. Init => PInv
  BY OverlaysStart DEF Init
<1>2. PInv /\ [Next]_vars => PInv'
  BY OneMoves, OverlaysKeepOn
<1> QED BY <1>1, <1>2, PTL DEF Spec

\* The invariant of the threads, likewise.
LEMMA ThreadsInvariant == Spec => []TInv
<1>1. Init => TInv
  BY ThreadsStart DEF Init
<1>2. TInv /\ [Next]_vars => TInv'
  BY OneMoves, ThreadsKeepOn
<1> QED BY <1>1, <1>2, PTL DEF Spec

\* The readers, writers and overlay decoders keep count of their surfaces: none is
\* lost or written under another's eyes, and frames keep their order.
THEOREM OverlaysStayKept == Spec => []OverlaysKeepSurfaces
<1>1. PInv => OverlaysKeepSurfaces
  BY OverlaysAreKept
<1> QED BY OverlaysInvariant, <1>1, PTL

\* Every thread is joined once, and outlives whoever runs on it or waits in it, but
\* for the named places of a signal; and the overlay elements keep their surfaces.
THEOREM OwnersAreKept == Spec => []OwnersKeep
<1>1. PInv /\ TInv => OwnersKeep
  BY OverlaysAreKept, ThreadsAreSafe DEF OwnersKeep
<1> QED BY OverlaysInvariant, ThreadsInvariant, <1>1, PTL

\* m_WaitCount counts the calls of Wait that wait in a thread's object, at most one
\* for each signal and one more, and m_Mutex is held by the one that joins; a task of
\* a plugin has a surface or none, and a lock counts up to four.
THEOREM ServicesStayTyped == Spec => [](PluginTypeOK /\ ThreadsTypeOK)
<1>1. PInv /\ TInv => PluginTypeOK /\ ThreadsTypeOK
  BY PluginsAreTyped, ThreadsAreTyped
<1> QED BY OverlaysInvariant, ThreadsInvariant, <1>1, PTL
=============================================================================
