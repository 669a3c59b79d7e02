--------------------------- MODULE FwJobs_proofs ---------------------------
(***************************************************************************)
(* The update queue keeps the promise of JobQueue, and one worker executes *)
(* what was accepted unless first starts overlapped (FwJobs), for any      *)
(* number of clients and any length of the queue.                          *)
(***************************************************************************)
EXTENDS FwJobs, FiniteSetTheorems, TLAPS

Alive(w) == at[w] # "none"
Busy(w)  == at[w] \in {"prepare", "execute", "hung"}

JobTypes ==
  /\ queue \in Queues \cup {NoQueue}
  /\ content \in [Queues -> Seq(Nat \ {0})]
  /\ task \in BOOLEAN /\ overlapped \in BOOLEAN
  /\ at \in [Workers -> WorkerPCs] /\ cpc \in [Clients -> ClientPCs]
  /\ from \in [Workers -> Queues \cup {NoQueue}]
  /\ job \in [Workers -> Nat]
  /\ accepted \in 0 .. MaxJobs

\* A queue handle is never used before it is set, nor set back.
Handles ==
  /\ task => queue # NoQueue
  /\ \A c \in Clients : cpc[c] \in {"testtask", "newtask", "send"} => queue # NoQueue
  /\ \A w \in Workers : /\ Alive(w) => queue # NoQueue
                        /\ at[w] = "receive" => from[w] # NoQueue

\* The jobs of a queue are numbered in order, and none is in another queue.
Ordered ==
  /\ \A q \in Queues : \A i \in 1 .. Len(content[q]) : content[q][i] <= accepted
  /\ \A q \in Queues : \A i, k \in 1 .. Len(content[q]) :
       i < k => content[q][i] < content[q][k]
  /\ \A p, q \in Queues : p # q =>
       \A i \in 1 .. Len(content[p]), k \in 1 .. Len(content[q]) :
         content[p][i] # content[q][k]

\* A job that a worker has is in no queue and no other worker has it.
Owned ==
  /\ \A w \in Workers : job[w] <= accepted /\ (job[w] # 0 <=> Busy(w))
  /\ \A w \in Workers, q \in Queues : \A i \in 1 .. Len(content[q]) :
       content[q][i] # job[w]
  /\ \A v, w \in Workers : job[v] # 0 /\ job[v] = job[w] => v = w

\* While there is no worker one client at most is in a call.
StartedAlone ==
  ~task => /\ \A w \in Workers : ~Alive(w)
           /\ \A c, d \in Clients : cpc[c] # "idle" /\ cpc[d] # "idle" => c = d

\* What a client has found out still holds when it acts.
ClientsKnow ==
  \A c \in Clients :
    /\ cpc[c] = "newqueue" => ~task /\ queue = NoQueue
    /\ cpc[c] = "newtask" => ~task
    /\ cpc[c] = "send" => task

\* One worker waits on the queue that is sent to, and no other is ever used.
OnlyWorker ==
  /\ \A v, w \in Workers : Alive(v) /\ Alive(w) => v = w
  /\ \A w \in Workers : at[w] = "receive" => from[w] = queue
  /\ \A q \in Queues : q # queue => content[q] = <<>>

Alone   == StartedAlone /\ ClientsKnow /\ OnlyWorker
JobsInv == JobTypes /\ Handles /\ Ordered /\ Owned /\ (~overlapped => Alone)
-----------------------------------------------------------------------------
LEMMA NoJobs == <<>> \in Seq(Nat \ {0}) /\ 1 .. Len(<<>>) = {}
OBVIOUS

\* A device that has just started.
LEMMA InitJobsInv == Init => JobsInv
<1> SUFFICES ASSUME Init PROVE JobsInv
  OBVIOUS
<1> USE DEF Init
<1>1. JobTypes
  <2>1. accepted \in 0 .. MaxJobs
    BY JobsAssumption DEF JobsAssumption
  <2>2. content \in [Queues -> Seq(Nat \ {0})]
    BY NoJobs
  <2> QED
    BY <2>1, <2>2 DEF JobTypes, WorkerPCs, ClientPCs
<1>2. Handles /\ Ordered
  BY NoJobs DEF Handles, Ordered, Alive
<1>3. Owned
  BY NoJobs DEF Owned, Busy
<1>4. Alone
  BY DEF Alone, StartedAlone, ClientsKnow, OnlyWorker, Alive
<1> QED
  BY <1>1, <1>2, <1>3, <1>4 DEF JobsInv

\* Jobs stay where they are while only clients and handles change.
LEMMA JobsStay ==
  ASSUME JobsInv, UNCHANGED <<content, job, accepted>>,
         \A w \in Workers : Busy(w)' <=> Busy(w)
  PROVE  Ordered' /\ Owned'
BY DEF JobsInv, Ordered, Owned

\* A client's steps keep the invariant,
LEMMA ClientKeeps ==
  ASSUME JobsInv, NEW c \in Clients, Call(c) \/ Client(c)
  PROVE  JobsInv'
<1> USE DEF workerVars, Goto, Step
<1>0. JobTypes /\ Handles /\ (~overlapped => Alone)
  BY DEF JobsInv
<1>1. CASE Call(c)
  <2> USE <1>1 DEF Call
  <2>1. JobTypes' /\ Handles'
    BY <1>0 DEF JobTypes, ClientPCs, Handles, Alive
  <2>2. Ordered' /\ Owned'
    BY JobsStay DEF Busy
  <2>3. ~overlapped' => Alone'
    BY <1>0 DEF JobTypes, Alone, StartedAlone, ClientsKnow, OnlyWorker, Alive
  <2> QED
    BY <2>1, <2>2, <2>3 DEF JobsInv
<1>2. CASE TestQueue(c)
  <2> USE <1>2 DEF TestQueue
  <2>1. JobTypes' /\ Handles'
    BY <1>0 DEF JobTypes, ClientPCs, Handles, Alive
  <2>2. Ordered' /\ Owned'
    BY JobsStay DEF Busy
  <2>3. ~overlapped' => Alone'
    BY <1>0 DEF JobTypes, Handles, Alone, StartedAlone, ClientsKnow, OnlyWorker, Alive
  <2> QED
    BY <2>1, <2>2, <2>3 DEF JobsInv
<1>3. CASE NewQueue(c)
  <2> USE <1>3 DEF NewQueue
  <2>1. queue' \in Queues => queue' # NoQueue
    BY JobsAssumption DEF JobsAssumption
  <2>2. JobTypes' /\ Handles'
    BY <1>0, <2>1 DEF JobTypes, ClientPCs, Handles, Alive
  <2>3. Ordered' /\ Owned'
    BY JobsStay DEF Busy
  <2>4. ASSUME ~overlapped PROVE Alone'
    <3>1. /\ ~task /\ queue = NoQueue /\ \A w \in Workers : ~Alive(w)
          /\ \A d \in Clients : d # c => cpc[d] = "idle"
          /\ \A q \in Queues : content[q] = <<>>
      BY <1>0, <2>4, JobsAssumption DEF Alone, ClientsKnow, StartedAlone, OnlyWorker,
         JobsAssumption
    <3>2. OnlyWorker'
      BY <3>1 DEF OnlyWorker, Alive
    <3>3. StartedAlone' /\ ClientsKnow'
      BY <1>0, <3>1 DEF JobTypes, StartedAlone, ClientsKnow, Alive
    <3> QED
      BY <3>2, <3>3 DEF Alone
  <2> QED
    BY <2>2, <2>3, <2>4 DEF JobsInv
<1>4. CASE TestTask(c)
  <2> USE <1>4 DEF TestTask
  <2>1. JobTypes' /\ Handles'
    BY <1>0 DEF JobTypes, ClientPCs, Handles, Alive
  <2>2. Ordered' /\ Owned'
    BY JobsStay DEF Busy
  <2>3. ~overlapped' => Alone'
    BY <1>0 DEF JobTypes, Handles, Alone, StartedAlone, ClientsKnow, OnlyWorker, Alive
  <2> QED
    BY <2>1, <2>2, <2>3 DEF JobsInv
<1>5. CASE NewTask(c)
  <2> USE <1>5 DEF NewTask
  <2>1. JobTypes' /\ Handles'
    BY <1>0 DEF JobTypes, ClientPCs, WorkerPCs, Handles, Alive
  <2>2. Ordered' /\ Owned'
    <3>1. \A w \in Workers : Busy(w)' <=> Busy(w)
      BY <1>0 DEF JobTypes, Busy
    <3> QED
      BY <3>1, JobsStay
  <2>3. ASSUME ~overlapped PROVE Alone'
    <3>1. /\ ~task /\ \A w \in Workers : ~Alive(w)
          /\ \A d \in Clients : d # c => cpc[d] = "idle"
      BY <1>0, <2>3 DEF Alone, ClientsKnow, StartedAlone
    <3>2. StartedAlone' /\ ClientsKnow'
      BY <1>0, <2>3, <3>1 DEF JobTypes, Alone, StartedAlone, ClientsKnow, Alive
    <3>3. OnlyWorker'
      BY <1>0, <2>3, <3>1 DEF JobTypes, Alone, OnlyWorker, Alive
    <3> QED
      BY <3>2, <3>3 DEF Alone
  <2> QED
    BY <2>1, <2>2, <2>3 DEF JobsInv
<1>6. CASE StartOnly(c)
  <2> USE <1>6 DEF StartOnly
  <2>1. JobTypes' /\ Handles'
    BY <1>0 DEF JobTypes, ClientPCs, Handles, Alive
  <2>2. Ordered' /\ Owned'
    BY JobsStay DEF Busy
  <2>3. ~overlapped' => Alone'
    BY <1>0 DEF JobTypes, Alone, StartedAlone, ClientsKnow, OnlyWorker, Alive
  <2> QED
    BY <2>1, <2>2, <2>3 DEF JobsInv
<1>7. CASE Send(c)
  <2> USE <1>7 DEF Send
  <2>1. CASE UNCHANGED <<content, accepted>>
    <3>1. JobTypes' /\ Handles'
      BY <1>0, <2>1 DEF JobTypes, ClientPCs, Handles, Alive
    <3>2. Ordered' /\ Owned'
      BY <2>1, JobsStay DEF Busy
    <3>3. ~overlapped' => Alone'
      BY <1>0, <2>1 DEF JobTypes, Alone, StartedAlone, ClientsKnow, OnlyWorker, Alive
    <3> QED
      BY <3>1, <3>2, <3>3 DEF JobsInv
  <2>2. CASE /\ accepted < MaxJobs /\ accepted' = accepted + 1
             /\ content' = [content EXCEPT ![queue] = Append(@, accepted')]
    <3>1. queue \in Queues
      BY <1>0 DEF Handles, JobTypes
    <3>2. PICK s \in Seq(Nat \ {0}) : s = content[queue]
      BY <1>0, <3>1 DEF JobTypes
    <3>3. /\ content'[queue] = Append(s, accepted')
          /\ \A q \in Queues : q # queue => content'[q] = content[q]
      BY <1>0, <2>2, <3>1, <3>2 DEF JobTypes
    <3>4. /\ Append(s, accepted') \in Seq(Nat \ {0})
          /\ 1 .. Len(Append(s, accepted')) = (1 .. Len(s)) \cup {Len(s) + 1}
          /\ \A i \in 1 .. Len(s) : Append(s, accepted')[i] = s[i]
          /\ Append(s, accepted')[Len(s) + 1] = accepted'
      BY <1>0, <2>2 DEF JobTypes
    <3>5. content' \in [Queues -> Seq(Nat \ {0})] /\ accepted' \in 0 .. MaxJobs
      <4>1. content' \in [Queues -> Seq(Nat \ {0})]
        BY <1>0, <2>2, <3>1, <3>2, <3>4 DEF JobTypes
      <4>2. accepted' \in 0 .. MaxJobs
        BY <1>0, <2>2, JobsAssumption DEF JobTypes, JobsAssumption
      <4> QED
        BY <4>1, <4>2
    <3>6. JobTypes' /\ Handles'
      BY <1>0, <3>5 DEF JobTypes, ClientPCs, Handles, Alive
    <3>7. \A q \in Queues : \A i \in 1 .. Len(content'[q]) :
            \/ content'[q][i] = accepted + 1 /\ q = queue /\ i = Len(s) + 1
            \/ i \in 1 .. Len(content[q]) /\ content'[q][i] = content[q][i]
               /\ (q = queue => i < Len(s) + 1)
      BY <2>2, <3>2, <3>3, <3>4
    <3>8. \A q \in Queues : \A i \in 1 .. Len(content[q]) :
            content[q][i] \in Nat /\ content[q][i] <= accepted
      BY <1>0 DEF JobTypes, JobsInv, Ordered
    <3> HIDE DEF Send
    <3>9. Ordered'
      <4>1. \A q \in Queues : \A i \in 1 .. Len(content'[q]) : content'[q][i] <= accepted'
        BY <1>0, <2>2, <3>7, <3>8 DEF JobTypes
      <4>2. ASSUME NEW q \in Queues, NEW i \in 1 .. Len(content'[q]),
                   NEW k \in 1 .. Len(content'[q]), i < k
            PROVE  content'[q][i] < content'[q][k]
        <5>1. Len(s) \in Nat /\ accepted \in Nat
          BY <1>0, <3>2 DEF JobTypes
        <5>2. i \in 1 .. Len(content[q]) /\ content'[q][i] = content[q][i]
          BY <3>2, <3>3, <3>4, <3>7, <4>2, <5>1
        <5>3. CASE content'[q][k] = accepted + 1
          BY <3>8, <5>1, <5>2, <5>3
        <5>4. CASE k \in 1 .. Len(content[q]) /\ content'[q][k] = content[q][k]
          BY <4>2, <5>2, <5>4 DEF JobsInv, Ordered
        <5> QED
          BY <3>7, <5>3, <5>4
      <4>3. ASSUME NEW p \in Queues, NEW q \in Queues, p # q,
                   NEW i \in 1 .. Len(content'[p]), NEW k \in 1 .. Len(content'[q])
            PROVE  content'[p][i] # content'[q][k]
        <5>1. accepted \in Nat
          BY <1>0 DEF JobTypes
        <5>2. CASE p = queue /\ content'[p][i] = accepted + 1
          BY <3>7, <3>8, <4>3, <5>1, <5>2, SMTT(30)
        <5>3. CASE q = queue /\ content'[q][k] = accepted + 1
          <6>1. i \in 1 .. Len(content[p]) /\ content'[p][i] = content[p][i]
            BY <3>7, <4>3, <5>3
          <6>2. content[p][i] \in Nat /\ content[p][i] <= accepted
            BY <3>8, <6>1
          <6> QED
            BY <5>1, <5>3, <6>1, <6>2
        <5>4. CASE /\ i \in 1 .. Len(content[p]) /\ content'[p][i] = content[p][i]
                   /\ k \in 1 .. Len(content[q]) /\ content'[q][k] = content[q][k]
          BY <4>3, <5>4 DEF JobsInv, Ordered
        <5> QED
          BY <3>7, <5>2, <5>3, <5>4
      <4> QED
        BY <4>1, <4>2, <4>3 DEF Ordered
    <3>10. Owned'
      <4>0. job' = job /\ at' = at
        BY <1>7 DEF Send
      <4>1. \A w \in Workers : job[w] \in Nat /\ job[w] <= accepted
        BY <1>0 DEF JobTypes, JobsInv, Owned
      <4>2. \A w \in Workers : job'[w] <= accepted' /\ (job'[w] # 0 <=> Busy(w)')
        BY <1>0, <2>2, <4>0, <4>1 DEF JobTypes, JobsInv, Owned, Busy
      <4>3. ASSUME NEW w \in Workers, NEW q \in Queues, NEW i \in 1 .. Len(content'[q])
            PROVE  content'[q][i] # job'[w]
        <5>1. CASE content'[q][i] = accepted + 1
          BY <1>0, <4>0, <4>1, <5>1 DEF JobTypes
        <5>2. CASE i \in 1 .. Len(content[q]) /\ content'[q][i] = content[q][i]
          BY <4>0, <5>2 DEF JobsInv, Owned
        <5> QED
          BY <3>7, <5>1, <5>2
      <4> QED
        BY <4>0, <4>2, <4>3 DEF JobsInv, Owned
    <3>11. ASSUME ~overlapped' PROVE Alone'
      <4>1. Alone
        BY <1>0, <1>7, <3>11 DEF Send
      <4>2. StartedAlone' /\ ClientsKnow'
        BY <1>0, <1>7, <4>1 DEF Send, JobTypes, Alone, StartedAlone, ClientsKnow, Alive
      <4>3. OnlyWorker'
        BY <1>7, <3>3, <4>1 DEF Send, Alone, OnlyWorker, Alive
      <4> QED
        BY <4>2, <4>3 DEF Alone
    <3> QED
      BY <3>6, <3>9, <3>10, <3>11 DEF JobsInv
  <2> QED
    BY <2>1, <2>2
<1> QED
  BY <1>1, <1>2, <1>3, <1>4, <1>5, <1>6, <1>7 DEF Client

\* a worker's steps do,
LEMMA WorkerKeeps == ASSUME JobsInv, NEW w \in Workers, Worker(w) PROVE JobsInv'
<1> USE DEF Step
<1>0. JobTypes /\ Handles /\ (~overlapped => Alone)
  BY DEF JobsInv
<1>1. CASE Wait(w)
  <2> USE <1>1 DEF Wait
  <2>1. JobTypes' /\ Handles'
    BY <1>0 DEF JobTypes, WorkerPCs, Handles, Alive
  <2>2. Ordered' /\ Owned'
    <3>1. \A v \in Workers : Busy(v)' <=> Busy(v)
      BY <1>0 DEF JobTypes, Busy
    <3> QED
      BY <3>1, JobsStay
  <2>3. ~overlapped' => Alone'
    BY <1>0 DEF JobTypes, Alone, StartedAlone, ClientsKnow, OnlyWorker, Alive
  <2> QED
    BY <2>1, <2>2, <2>3 DEF JobsInv
<1>2. CASE Receive(w)
  <2> USE <1>2 DEF Receive
  <2>1. PICK p \in Queues : p = from[w]
    BY <1>0 DEF Handles, JobTypes
  <2>2. PICK s \in Seq(Nat \ {0}) : s = content[p]
    BY <1>0 DEF JobTypes
  <2>3. /\ s # <<>> /\ Head(s) \in Nat \ {0} /\ Tail(s) \in Seq(Nat \ {0})
        /\ 1 \in 1 .. Len(s) /\ Head(s) = s[1]
        /\ \A i \in 1 .. Len(Tail(s)) : i + 1 \in 1 .. Len(s) /\ Tail(s)[i] = s[i + 1]
    BY <2>1, <2>2
  <2>4. /\ content'[p] = Tail(s) /\ \A q \in Queues : q # p => content'[q] = content[q]
        /\ job'[w] = s[1] /\ \A v \in Workers : v # w => job'[v] = job[v]
        /\ content' \in [Queues -> Seq(Nat \ {0})] /\ job' \in [Workers -> Nat]
    BY <1>0, <2>1, <2>2, <2>3 DEF JobTypes
  <2>5. JobTypes' /\ Handles'
    BY <1>0, <2>4 DEF JobTypes, WorkerPCs, Handles, Alive
  <2>6. \A q \in Queues : \A i \in 1 .. Len(content'[q]) :
          \/ q = p /\ i + 1 \in 1 .. Len(content[q]) /\ content'[q][i] = content[q][i + 1]
          \/ q # p /\ i \in 1 .. Len(content[q]) /\ content'[q][i] = content[q][i]
    BY <2>2, <2>3, <2>4
  <2>7. \A q \in Queues : \A i \in 1 .. Len(content'[q]) :
          \E k \in 1 .. Len(content[q]) : content'[q][i] = content[q][k] /\ (q = p => k > 1)
    <3> SUFFICES ASSUME NEW q \in Queues, NEW i \in 1 .. Len(content'[q])
                 PROVE  \E k \in 1 .. Len(content[q]) :
                          content'[q][i] = content[q][k] /\ (q = p => k > 1)
      OBVIOUS
    <3>1. CASE q = p
      <4>1. i + 1 > 1
        OBVIOUS
      <4> QED
        BY <2>6, <3>1, <4>1
    <3> QED
      BY <2>6, <3>1
  <2> HIDE DEF Receive
  <2>8. Ordered'
    <3>0. accepted' = accepted
      BY <1>2 DEF Receive
    <3>1. \A q \in Queues : \A i \in 1 .. Len(content'[q]) : content'[q][i] <= accepted'
      BY <2>7, <3>0, SMTT(30) DEF JobsInv, Ordered
    <3>2. ASSUME NEW q \in Queues, NEW i \in 1 .. Len(content'[q]),
                 NEW k \in 1 .. Len(content'[q]), i < k
          PROVE  content'[q][i] < content'[q][k]
      <4>1. CASE q = p
        <5>1. i + 1 < k + 1
          BY <3>2
        <5> QED
          BY <2>6, <4>1, <5>1 DEF JobsInv, Ordered
      <4>2. CASE q # p
        BY <2>6, <3>2, <4>2 DEF JobsInv, Ordered
      <4> QED
        BY <4>1, <4>2
    <3>3. \A q, r \in Queues : q # r =>
            \A i \in 1 .. Len(content'[q]), k \in 1 .. Len(content'[r]) :
              content'[q][i] # content'[r][k]
      BY <2>7 DEF JobsInv, Ordered
    <3> QED
      BY <3>1, <3>2, <3>3 DEF Ordered
  <2>9. Owned'
    <3>0. accepted' = accepted /\ at[w] = "receive" /\ at' = [at EXCEPT ![w] = "prepare"]
      BY <1>2 DEF Receive
    <3>1. s[1] <= accepted /\ s[1] # 0
      BY <2>2, <2>3 DEF JobsInv, Ordered
    <3>a. \A v \in Workers, q \in Queues : \A k \in 1 .. Len(content[q]) :
            content[q][k] # job[v]
      BY DEF JobsInv, Owned
    <3>b. \A v \in Workers : s[1] # job[v]
      BY <2>2, <2>3, <3>a
    <3>2. \A v \in Workers : job'[v] <= accepted' /\ (job'[v] # 0 <=> Busy(v)')
      BY <1>0, <2>4, <3>0, <3>1 DEF JobTypes, JobsInv, Owned, Busy
    <3>3. \A q \in Queues : \A k \in 1 .. Len(content[q]) :
            (q = p => k > 1) => content[q][k] # s[1]
      <4> SUFFICES ASSUME NEW q \in Queues, NEW k \in 1 .. Len(content[q]), q = p => k > 1
                   PROVE  content[q][k] # s[1]
        OBVIOUS
      <4>1. CASE q = p
        <5>1. content[p][1] < content[p][k]
          BY <2>2, <2>3, <4>1 DEF JobsInv, Ordered
        <5>2. content[p][1] \in Nat /\ content[p][k] \in Nat
          BY <2>2, <2>3, <4>1
        <5> QED
          BY <2>2, <4>1, <5>1, <5>2
      <4> QED
        BY <2>2, <2>3, <4>1 DEF JobsInv, Ordered
    <3>4. \A v \in Workers, q \in Queues : \A i \in 1 .. Len(content'[q]) :
            content'[q][i] # job'[v]
      <4> SUFFICES ASSUME NEW v \in Workers, NEW q \in Queues, NEW i \in 1 .. Len(content'[q])
                   PROVE  content'[q][i] # job'[v]
        OBVIOUS
      <4>1. PICK k \in 1 .. Len(content[q]) :
              content'[q][i] = content[q][k] /\ (q = p => k > 1)
        BY <2>7
      <4>2. CASE v = w
        BY <2>4, <3>3, <4>1, <4>2, SMTT(30)
      <4>3. CASE v # w
        <5>1. job'[v] = job[v]
          BY <2>4, <4>3
        <5>2. content[q][k] # job[v]
          BY <3>a
        <5> QED
          BY <4>1, <5>1, <5>2
      <4> QED
        BY <4>2, <4>3
    <3>5. \A v \in Workers : v # w => job'[v] # s[1]
      BY <2>4, <3>b
    <3>6. \A u, v \in Workers : job'[u] # 0 /\ job'[u] = job'[v] => u = v
      BY <2>4, <3>5, SMTT(30) DEF JobsInv, Owned
    <3> QED
      BY <3>2, <3>4, <3>6 DEF Owned
  <2>10. ASSUME ~overlapped' PROVE Alone'
    <3>1. Alone /\ from[w] = queue
      BY <1>0, <1>2, <2>10 DEF Receive, Alone, OnlyWorker
    <3>2. StartedAlone' /\ ClientsKnow'
      BY <1>0, <1>2, <3>1 DEF Receive, JobTypes, Alone, StartedAlone, ClientsKnow, Alive
    <3>3. OnlyWorker'
      BY <1>0, <1>2, <2>1, <2>4, <3>1 DEF Receive, JobTypes, Alone, OnlyWorker, Alive
    <3> QED
      BY <3>2, <3>3 DEF Alone
  <2> QED
    BY <2>5, <2>8, <2>9, <2>10 DEF JobsInv
<1>3. CASE Prepare(w) \/ Execute(w)
  <2>1. UNCHANGED <<queue, content, task, from, cpc, accepted, overlapped>> /\ Busy(w)
    BY <1>3 DEF Prepare, Execute, Busy
  <2>2. PICK pc \in {"loop", "execute", "hung"} :
          /\ at' = [at EXCEPT ![w] = pc]
          /\ job' = IF pc = "loop" THEN [job EXCEPT ![w] = 0] ELSE job
    BY <1>3 DEF Prepare, Execute
  <2>3. JobTypes' /\ Handles'
    BY <1>0, <2>1, <2>2 DEF JobTypes, WorkerPCs, Handles, Alive, Busy
  <2>4. Ordered'
    BY <2>1 DEF JobsInv, Ordered
  <2>5. Owned'
    <3>1. \A v \in Workers : v # w => job'[v] = job[v] /\ (Busy(v)' <=> Busy(v))
      BY <1>0, <2>2 DEF JobTypes, Busy
    <3>2. \/ pc = "loop" /\ job'[w] = 0 /\ ~Busy(w)'
          \/ job'[w] = job[w] /\ Busy(w)'
      BY <1>0, <2>2 DEF JobTypes, Busy
    <3>3. \A q \in Queues : \A i \in 1 .. Len(content[q]) : content[q][i] # 0
      BY <1>0 DEF JobTypes
    <3>4. accepted \in Nat
      BY <1>0 DEF JobTypes
    <3> HIDE DEF Busy
    <3>5. \A v \in Workers : job'[v] <= accepted' /\ (job'[v] # 0 <=> Busy(v)')
      BY <2>1, <3>1, <3>2, <3>4 DEF JobsInv, Owned
    <3>6. \A v \in Workers, q \in Queues : \A i \in 1 .. Len(content'[q]) :
            content'[q][i] # job'[v]
      BY <2>1, <3>1, <3>2, <3>3 DEF JobsInv, Owned
    <3>7. \A u, v \in Workers : job'[u] # 0 /\ job'[u] = job'[v] => u = v
      BY <3>1, <3>2 DEF JobsInv, Owned
    <3> QED
      BY <3>5, <3>6, <3>7 DEF Owned
  <2>6. ~overlapped' => Alone'
    BY <1>0, <2>1, <2>2 DEF JobTypes, Alone, StartedAlone, ClientsKnow, OnlyWorker, Alive, Busy
  <2> QED
    BY <2>3, <2>4, <2>5, <2>6 DEF JobsInv
<1> QED
  BY <1>1, <1>2, <1>3 DEF Worker

\* and so does a restart.
LEMMA NextKeeps == JobsInv /\ [Next]_vars => JobsInv'
<1>1. ASSUME JobsInv, Restart PROVE JobsInv'
  <2> USE <1>1 DEF Restart
  <2>1. JobTypes'
    BY NoJobs DEF JobsInv, JobTypes, WorkerPCs, ClientPCs
  <2>2. Handles' /\ Ordered'
    BY NoJobs DEF Handles, Ordered, Alive
  <2>3. Owned'
    BY NoJobs DEF JobsInv, JobTypes, Owned, Busy
  <2>4. Alone'
    BY DEF Alone, StartedAlone, ClientsKnow, OnlyWorker, Alive
  <2> QED
    BY <2>1, <2>2, <2>3, <2>4 DEF JobsInv
<1>2. ASSUME JobsInv, UNCHANGED vars PROVE JobsInv'
  <2>1. JobTypes' /\ Handles' /\ Ordered'
    BY <1>2 DEF vars, JobsInv, JobTypes, Handles, Ordered, Alive
  <2>2. Owned' /\ (~overlapped' => Alone')
    BY <1>2 DEF vars, JobsInv, Owned, Busy, Alone, StartedAlone, ClientsKnow, OnlyWorker, Alive
  <2> QED
    BY <2>1, <2>2 DEF JobsInv
<1> QED
  BY <1>1, <1>2, ClientKeeps, WorkerKeeps DEF Next

LEMMA AlwaysJobsInv == Spec => []JobsInv
<1>1. JobsInv /\ [Next]_vars => JobsInv'
  BY NextKeeps
<1> QED
  BY <1>1, InitJobsInv, PTL DEF Spec

\* fw_update_worker.c:276: the unlocked checks create one worker only, which
\* waits on the queue that clients send to, until two clients are within the
\* first start at once: whatever fails before, and whoever calls after.
THEOREM OnlyOneWorker == Spec => []OneWorker
<1>1. ASSUME JobsInv PROVE OneWorker
  <2> SUFFICES ASSUME ~overlapped
               PROVE  /\ Cardinality({w \in Workers : Alive(w)}) <= 1
                      /\ \A w \in Workers : at[w] = "receive" => from[w] = queue
    BY DEF OneWorker, Alive
  <2> DEFINE S == {w \in Workers : Alive(w)}
  <2>1. OnlyWorker
    BY <1>1 DEF JobsInv, Alone
  <2>2. Cardinality(S) <= 1
    <3>1. CASE S = {}
      BY <3>1, FS_EmptySet
    <3>2. CASE S # {}
      <4>1. PICK w \in Workers : w \in S
        BY <3>2
      <4>2. S = {w}
        BY <2>1, <4>1 DEF OnlyWorker
      <4> QED
        BY <4>2, FS_Singleton
    <3> QED
      BY <3>1, <3>2
  <2> QED
    BY <2>1, <2>2 DEF OnlyWorker
<1> QED
  BY <1>1, AlwaysJobsInv, PTL
-----------------------------------------------------------------------------

\* What the refinement shows of the queues and of the workers' jobs.
Pending == {j \in 1 .. accepted : Waits(j)}
Current == {j \in 1 .. accepted : \E w \in Workers : job[w] = j}
Shown   == <<accepted, Pending, Current, ~overlapped>>

LEMMA ShownStays == UNCHANGED <<content, job, accepted>> => UNCHANGED <<Pending, Current>>
BY DEF Pending, Current, Waits

\* A client adds to what is pending, overlaps a start, or leaves both as they are.
LEMMA ClientRefines ==
  ASSUME JobsInv, NEW c \in Clients, Call(c) \/ Client(c)
  PROVE  Abstract!Accept \/ Abstract!Overlap \/ UNCHANGED Shown
<1>1. CASE Call(c)
  <2>1. UNCHANGED <<accepted, Pending, Current>>
    BY <1>1, ShownStays DEF Call, workerVars
  <2>2. overlapped' = overlapped \/ (overlapped' = TRUE)
    BY <1>1 DEF Call, JobsInv, JobTypes
  <2> QED
    BY <2>1, <2>2 DEF Abstract!Overlap, Shown, Pending, Current
<1>2. CASE TestQueue(c) \/ NewQueue(c) \/ TestTask(c) \/ NewTask(c) \/ StartOnly(c)
  <2>1. UNCHANGED <<content, job, accepted, overlapped>>
    BY <1>2 DEF TestQueue, NewQueue, TestTask, NewTask, StartOnly, workerVars
  <2> QED
    BY <2>1, ShownStays DEF Shown
<1>3. CASE Send(c)
  <2>0. UNCHANGED <<job, overlapped>>
    BY <1>3 DEF Send, workerVars
  <2>1. CASE UNCHANGED <<content, accepted>>
    BY <2>0, <2>1, ShownStays DEF Shown
  <2>2. CASE /\ accepted < MaxJobs /\ accepted' = accepted + 1
             /\ content' = [content EXCEPT ![queue] = Append(@, accepted')]
    <3>1. queue \in Queues /\ content[queue] \in Seq(Nat \ {0}) /\ accepted \in Nat
      BY <1>3 DEF Send, Goto, JobsInv, Handles, JobTypes
    <3>2. PICK s \in Seq(Nat \ {0}) : s = content[queue]
      BY <3>1
    <3>3. /\ content'[queue] = Append(s, accepted')
          /\ \A q \in Queues : q # queue => content'[q] = content[q]
      BY <2>2, <3>1, <3>2 DEF JobsInv, JobTypes
    <3>4. /\ 1 .. Len(Append(s, accepted')) = (1 .. Len(s)) \cup {Len(s) + 1}
          /\ \A i \in 1 .. Len(s) : Append(s, accepted')[i] = s[i]
          /\ Append(s, accepted')[Len(s) + 1] = accepted'
      BY <2>2, <3>1
    <3>5. \A j : Waits(j)' <=> Waits(j) \/ j = accepted'
      <4> SUFFICES ASSUME NEW j PROVE Waits(j)' <=> Waits(j) \/ j = accepted'
        OBVIOUS
      <4>1. Waits(j) => Waits(j)'
        <5> SUFFICES ASSUME NEW q \in Queues, NEW i \in 1 .. Len(content[q]),
                            content[q][i] = j
                     PROVE  Waits(j)'
          BY DEF Waits
        <5>1. i \in 1 .. Len(content'[q]) /\ content'[q][i] = j
          BY <3>2, <3>3, <3>4
        <5> QED
          BY <5>1 DEF Waits
      <4>2. j = accepted' => Waits(j)'
        <5>1. /\ Len(s) + 1 \in 1 .. Len(content'[queue])
              /\ content'[queue][Len(s) + 1] = accepted'
          BY <3>2, <3>3, <3>4
        <5> QED
          BY <3>1, <5>1 DEF Waits
      <4>3. Waits(j)' => Waits(j) \/ j = accepted'
        <5> SUFFICES ASSUME NEW q \in Queues, NEW i \in 1 .. Len(content'[q]),
                            content'[q][i] = j, j # accepted'
                     PROVE  Waits(j)
          BY DEF Waits
        <5>1. i \in 1 .. Len(content[q]) /\ content[q][i] = j
          BY <3>2, <3>3, <3>4
        <5> QED
          BY <5>1 DEF Waits
      <4> QED
        BY <4>1, <4>2, <4>3
    <3>6. 1 .. accepted' = (1 .. accepted) \cup {accepted'}
      BY <2>2, <3>1
    <3>7. Pending' = Pending \cup {accepted'}
      <4>1. \A j : Waits(j) => j # accepted'
        <5>1. \A q \in Queues : \A i \in 1 .. Len(content[q]) :
                content[q][i] \in Nat /\ content[q][i] <= accepted
          BY DEF JobsInv, JobTypes, Ordered
        <5> QED
          BY <2>2, <3>1, <5>1 DEF Waits
      <4> QED
        BY <3>5, <3>6, <4>1 DEF Pending
    <3>8. Current' = Current
      <4>1. \A w \in Workers : job[w] \in Nat /\ job[w] <= accepted
        BY DEF JobsInv, JobTypes, Owned
      <4>2. \A w \in Workers : job[w] # accepted'
        BY <2>2, <3>1, <4>1
      <4> QED
        BY <2>0, <3>6, <4>2 DEF Current
    <3> QED
      BY <2>0, <2>2, <3>7, <3>8 DEF Abstract!Accept, Pending, Current
  <2> QED
    BY <1>3, <2>1, <2>2 DEF Send
<1> QED
  BY <1>1, <1>2, <1>3 DEF Client

\* A job that waits is that of one place of one queue.
LEMMA OnePlace ==
  ASSUME JobsInv, NEW p \in Queues, NEW q \in Queues, NEW i \in 1 .. Len(content[p]),
         NEW k \in 1 .. Len(content[q]), content[p][i] = content[q][k]
  PROVE  p = q /\ i = k
<1>1. p = q
  BY DEF JobsInv, Ordered
<1>2. content[p][i] \in Nat /\ content[p][k] \in Nat
  BY <1>1 DEF JobsInv, JobTypes
<1>3. ~(i < k) /\ ~(k < i)
  BY <1>1, <1>2 DEF JobsInv, Ordered
<1> QED
  BY <1>1, <1>3

\* A worker begins a job that waits, the oldest if it is alone, or ends its own.
LEMMA WorkerRefines ==
  ASSUME JobsInv, NEW w \in Workers, Worker(w)
  PROVE  \/ \E j \in 1 .. accepted : Abstract!Begin(j) \/ Abstract!End(j)
         \/ UNCHANGED Shown
<1>0. UNCHANGED <<accepted, overlapped>> /\ accepted \in Nat
  BY DEF Worker, Wait, Receive, Prepare, Execute, JobsInv, JobTypes
<1>1. CASE Wait(w)
  BY <1>1, ShownStays DEF Wait, Shown
<1>2. CASE Receive(w)
  <2>1. PICK p \in Queues : p = from[w]
    BY <1>2 DEF Receive, Step, JobsInv, Handles, JobTypes
  <2>2. PICK s \in Seq(Nat \ {0}) : s = content[p]
    BY DEF JobsInv, JobTypes
  <2>3. /\ s # <<>> /\ Head(s) = s[1] /\ 1 \in 1 .. Len(s) /\ s[1] \in Nat \ {0}
        /\ \A i \in 1 .. Len(Tail(s)) : i + 1 \in 1 .. Len(s) /\ Tail(s)[i] = s[i + 1]
        /\ \A k \in 1 .. Len(s) : k # 1 => k - 1 \in 1 .. Len(Tail(s))
                                           /\ Tail(s)[k - 1] = s[k]
    BY <1>2, <2>1, <2>2 DEF Receive
  <2>4. /\ content'[p] = Tail(s) /\ \A q \in Queues : q # p => content'[q] = content[q]
        /\ job'[w] = s[1] /\ \A v \in Workers : v # w => job'[v] = job[v]
        /\ job[w] = 0
    BY <1>2, <2>1, <2>2, <2>3 DEF Receive, Step, JobsInv, JobTypes, Owned, Busy
  <2>5. s[1] \in 1 .. accepted
    <3>1. s[1] <= accepted
      BY <2>2, <2>3 DEF JobsInv, Ordered
    <3> QED
      BY <1>0, <2>3, <3>1
  <2>6. \A j : Waits(j)' <=> Waits(j) /\ j # s[1]
    <3> SUFFICES ASSUME NEW j PROVE Waits(j)' <=> Waits(j) /\ j # s[1]
      OBVIOUS
    <3>1. ASSUME NEW q \in Queues, NEW i \in 1 .. Len(content[q]), content[q][i] = j,
                 j # s[1]
          PROVE  Waits(j)'
      <4>1. CASE q = p
        <5>1. i # 1 /\ i - 1 \in 1 .. Len(content'[p]) /\ content'[p][i - 1] = j
          BY <2>2, <2>3, <2>4, <3>1, <4>1
        <5> QED
          BY <5>1 DEF Waits
      <4>2. CASE q # p
        BY <2>4, <3>1, <4>2 DEF Waits
      <4> QED
        BY <4>1, <4>2
    <3>2. ASSUME NEW q \in Queues, NEW i \in 1 .. Len(content'[q]), content'[q][i] = j
          PROVE  Waits(j) /\ j # s[1]
      <4>1. CASE q = p
        <5>0. i \in 1 .. Len(Tail(s)) /\ Tail(s)[i] = j
          BY <2>4, <3>2, <4>1
        <5>1. i + 1 \in 1 .. Len(content[p]) /\ content[p][i + 1] = j /\ i + 1 # 1
          BY <2>2, <2>3, <5>0
        <5>2. j # s[1]
          BY <2>2, <2>3, <5>1, OnePlace
        <5> QED
          BY <5>1, <5>2 DEF Waits
      <4>2. CASE q # p
        <5>1. i \in 1 .. Len(content[q]) /\ content[q][i] = j
          BY <2>4, <3>2, <4>2
        <5>2. j # s[1]
          BY <2>2, <2>3, <4>2, <5>1, OnePlace
        <5> QED
          BY <5>1, <5>2 DEF Waits
      <4> QED
        BY <4>1, <4>2
    <3> QED
      BY <3>1, <3>2 DEF Waits
  <2>7. Pending' = Pending \ {s[1]} /\ s[1] \in Pending
    <3>1. Waits(s[1])
      BY <2>2, <2>3 DEF Waits
    <3> QED
      BY <1>0, <2>5, <2>6, <3>1 DEF Pending
  <2>8. Current' = Current \cup {s[1]}
    <3>1. \A j \in 1 .. accepted : (\E v \in Workers : job'[v] = j)
                                     <=> (\E v \in Workers : job[v] = j) \/ j = s[1]
      <4>1. \A j \in 1 .. accepted : j # 0
        OBVIOUS
      <4> QED
        BY <2>4, <4>1
    <3> QED
      BY <1>0, <2>5, <3>1 DEF Current
  <2>9. ASSUME ~overlapped PROVE Current = {} /\ \A k \in Pending : s[1] <= k
    <3>1. Alone /\ Alive(w)
      BY <1>2, <2>9 DEF Receive, Step, Alive, JobsInv
    <3>2. from[w] = queue /\ \A v \in Workers : v # w => ~Alive(v)
      BY <1>2, <3>1 DEF Receive, Step, Alone, OnlyWorker
    <3>3. \A v \in Workers : job[v] = 0
      BY <2>4, <3>2 DEF JobsInv, Owned, Busy, Alive
    <3>4. Current = {}
      <4>1. \A j \in 1 .. accepted : j # 0
        OBVIOUS
      <4> QED
        BY <3>3, <4>1 DEF Current
    <3>5. ASSUME NEW k \in Pending PROVE s[1] <= k
      <4>0. PICK q \in Queues : \E i \in 1 .. Len(content[q]) : content[q][i] = k
        BY <3>5 DEF Pending, Waits
      <4>1. PICK i \in 1 .. Len(content[q]) : content[q][i] = k
        BY <4>0
      <4>2. q = p
        <5>1. content[q] # <<>>
          BY <4>1, NoJobs
        <5> QED
          BY <2>1, <3>1, <3>2, <5>1 DEF Alone, OnlyWorker
      <4>3. CASE i = 1
        BY <2>2, <2>3, <4>1, <4>2, <4>3
      <4>4. CASE 1 < i
        <5>1. content[p][1] < content[p][i]
          BY <2>2, <2>3, <4>1, <4>2, <4>4 DEF JobsInv, Ordered
        <5> QED
          BY <2>2, <2>3, <4>1, <4>2, <5>1
      <4> QED
        BY <4>3, <4>4
    <3> QED
      BY <3>4, <3>5
  <2>10. Abstract!Begin(s[1])
    BY <1>0, <2>7, <2>8, <2>9 DEF Abstract!Begin, Pending, Current
  <2> QED
    BY <2>5, <2>10
<1>3. CASE Prepare(w) \/ Execute(w)
  <2>1. UNCHANGED content /\ job[w] # 0 /\ job[w] \in Nat /\ job[w] <= accepted
    BY <1>3 DEF Prepare, Execute, Step, JobsInv, JobTypes, Owned, Busy
  <2>2. CASE UNCHANGED job
    BY <1>0, <2>1, <2>2, ShownStays DEF Shown
  <2>3. CASE job' = [job EXCEPT ![w] = 0]
    <3>1. \A v \in Workers : job'[v] = IF v = w THEN 0 ELSE job[v]
      BY <2>3 DEF JobsInv, JobTypes
    <3>2. \A v \in Workers : v # w => job[v] # job[w]
      BY <2>1 DEF JobsInv, Owned
    <3>3. job[w] \in 1 .. accepted
      BY <1>0, <2>1
    <3>4. Current' = Current \ {job[w]} /\ job[w] \in Current
      <4>1. \A j \in 1 .. accepted : (\E v \in Workers : job'[v] = j)
                                       <=> (\E v \in Workers : job[v] = j) /\ j # job[w]
        <5>1. \A j \in 1 .. accepted : j # 0
          OBVIOUS
        <5> QED
          BY <3>1, <3>2, <5>1
      <4> QED
        BY <1>0, <3>3, <4>1 DEF Current
    <3>5. Pending' = Pending
      BY <1>0, <2>1 DEF Pending, Waits
    <3>6. PICK j \in 1 .. accepted : j = job[w]
      BY <3>3
    <3>7. Abstract!End(j)
      BY <1>0, <3>4, <3>5, <3>6 DEF Abstract!End, Pending, Current
    <3> QED
      BY <3>7
  <2> QED
    BY <1>3, <2>2, <2>3 DEF Prepare, Execute
<1> QED
  BY <1>1, <1>2, <1>3 DEF Worker

\* A restart drops the jobs that wait and those that are executed.
LEMMA RestartRefines == JobsInv /\ Restart => Abstract!Restart
<1> SUFFICES ASSUME JobsInv, Restart PROVE Abstract!Restart
  OBVIOUS
<1>1. Pending' = {}
  BY NoJobs DEF Restart, Pending, Waits
<1>2. Current' = {}
  <2>1. \A j \in 1 .. accepted' : j # 0
    OBVIOUS
  <2> QED
    BY <2>1 DEF Restart, Current
<1> QED
  BY <1>1, <1>2 DEF Restart, Abstract!Restart, Pending, Current

\* fw_update_worker.c:303: each job begins at most once and none is dropped but
\* by a restart, even when first starts overlapped and two workers execute; a
\* worker that is alone executes one job at a time, in the order of acceptance.
THEOREM JobsAreKept == Spec => KeepsPromise
<1>1. Init => Abstract!Init
  <2> SUFFICES ASSUME Init PROVE Abstract!Init
    OBVIOUS
  <2>1. 1 .. accepted = {}
    BY DEF Init
  <2> QED
    BY <2>1 DEF Init, Abstract!Init
<1>2. JobsInv /\ [Next]_vars => [Abstract!Next]_(Abstract!vars)
  <2>1. UNCHANGED Shown => UNCHANGED Abstract!vars
    BY DEF Abstract!vars, Shown, Pending, Current
  <2>2. UNCHANGED vars => UNCHANGED Shown
    BY ShownStays DEF vars, Shown
  <2>3. ASSUME JobsInv, NEW w \in Workers, Worker(w)
        PROVE  Abstract!Next \/ UNCHANGED Shown
    <3>1. 1 .. accepted \subseteq 1 .. MaxJobs
      BY <2>3, JobsAssumption DEF JobsAssumption, JobsInv, JobTypes
    <3> QED
      BY <2>3, <3>1, WorkerRefines DEF Abstract!Next
  <2> QED
    BY <2>1, <2>2, <2>3, ClientRefines, RestartRefines DEF Next, Abstract!Next
<1> QED
  BY <1>1, <1>2, AlwaysJobsInv, PTL DEF Spec, KeepsPromise, Abstract!Spec
=============================================================================
