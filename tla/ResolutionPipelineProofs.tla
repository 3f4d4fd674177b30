----------------------- MODULE ResolutionPipelineProofs -----------------------
(* Proofs about ResolutionPipeline, for any finite set of requests and any       *)
(* capacities of its queues.                                                     *)
EXTENDS ResolutionPipeline, FiniteSetTheorems, TLAPS

\* The types of the queues, of the history and of the records.
QueueTypes ==
  /\ PipelineTypeOK
  /\ ingress \in Seq(Requests) /\ commits \in Seq(Commits) /\ details \in Seq(Requests)
  /\ settled \subseteq Commits
  /\ health \in [reported : Nat, degraded : BOOLEAN]
  /\ down \in [step : Tasks \cup {"up", "stopped", "down"}, expired : BOOLEAN, completed : BOOLEAN]

\* The envelopes the pipeline holds, or has finished with, were accepted.
Held == Range(ingress) \cup Range(commits) \cup Range(details) \cup projecting \cup settled
          \cup ({committing} \ {None})

\* An envelope is in the ingress or behind it, and each half of it in one place only.
EnvelopesApart ==
  /\ IsInjective(ingress) /\ IsInjective(commits) /\ IsInjective(details)
  /\ Range(ingress) \cap (Range(commits) \cup Range(details) \cup projecting \cup settled) = {}
  /\ committing \notin Range(ingress) \cup Range(commits)
  /\ settled \cap (Range(commits) \cup {committing}) = {}
  /\ Range(details) \cap projecting = {}
  /\ \A r \in Held : sent[r] = "accepted"

\* A task that is gone has nothing in its hands.
TasksInOrder ==
  /\ task["dispatcher"] # "none" /\ task["cache"] # "none"
  /\ task["detail"] = "none" <=> ~DetailEnabled
  /\ ~Alive("dispatcher") => ingress = <<>>
  /\ ~Alive("cache") => commits = <<>> /\ committing = None
  /\ ~Alive("detail") => details = <<>> /\ projecting = {}

\* The candidate the cache worker has in hand counts for one.
InHand == IF committing = None THEN 0 ELSE 1

\* Every envelope, candidate and detail is counted as waiting, as lost or as done.
NothingUncounted ==
  /\ task["dispatcher"] # "dead" => count.accepted = count.stats + Len(ingress)
  /\ task["dispatcher"] # "dead" /\ task["cache"] # "dead" =>
       count.committed + count.commitDropped + Len(commits) + InHand
         = Cardinality(Offered \ Range(ingress))
  /\ DetailEnabled /\ task["dispatcher"] # "dead" /\ task["detail"] # "dead" =>
       count.projected + count.detailDropped + Len(details) + Cardinality(projecting)
         = count.stats

\* A shutdown that may still report completion has seen the tasks it passed end well.
PassedIsDone ==
  down.completed =>
    /\ down.step \in {"cache", "detail", "down"} => task["dispatcher"] = "done"
    /\ down.step \in {"detail", "down"} => task["cache"] = "done"
    /\ down.step = "down" => task["detail"] \in {"none", "done"}

\* The inductive invariant.
PipeInv ==
  QueueTypes /\ EnvelopesApart /\ TasksInOrder /\ NothingUncounted /\ PassedIsDone

-------------------------------------------------------------------------------
(* Queues. *)

\* What joining a queue does to its elements.
LEMMA Joined ==
  ASSUME NEW S, NEW s \in Seq(S), NEW e \in S
  PROVE  /\ Append(s, e) \in Seq(S) /\ Len(Append(s, e)) = Len(s) + 1
         /\ Range(Append(s, e)) = Range(s) \cup {e}
         /\ IsInjective(s) /\ e \notin Range(s) => IsInjective(Append(s, e))
<1>1. /\ Append(s, e) \in Seq(S) /\ Len(Append(s, e)) = Len(s) + 1 /\ Len(s) \in Nat
      /\ \A i \in 1 .. Len(s) : Append(s, e)[i] = s[i]
      /\ Append(s, e)[Len(s) + 1] = e
      /\ DOMAIN s = 1 .. Len(s) /\ DOMAIN Append(s, e) = 1 .. Len(s) + 1
  OBVIOUS
<1>2. Range(Append(s, e)) = Range(s) \cup {e}
  <2>1. ASSUME NEW x \in Range(Append(s, e)) PROVE x \in Range(s) \cup {e}
    <3>1. PICK i \in 1 .. Len(s) + 1 : x = Append(s, e)[i] BY <1>1 DEF Range
    <3>2. CASE i = Len(s) + 1 BY <3>1, <3>2, <1>1
    <3>3. CASE i \in 1 .. Len(s) BY <3>1, <3>3, <1>1 DEF Range
    <3> QED BY <3>2, <3>3, <1>1
  <2>2. ASSUME NEW x \in Range(s) PROVE x \in Range(Append(s, e))
    <3>1. PICK i \in 1 .. Len(s) : x = s[i] BY <1>1 DEF Range
    <3>2. i \in 1 .. Len(s) + 1 BY <1>1
    <3> QED BY <3>1, <3>2, <1>1 DEF Range
  <2>3. e \in Range(Append(s, e))
    <3>1. Len(s) + 1 \in 1 .. Len(s) + 1 BY <1>1
    <3> QED BY <3>1, <1>1 DEF Range
  <2> QED BY <2>1, <2>2, <2>3
<1>3. ASSUME IsInjective(s), e \notin Range(s) PROVE IsInjective(Append(s, e))
  <2>1. SUFFICES ASSUME NEW i \in 1 .. Len(s) + 1, NEW j \in 1 .. Len(s) + 1,
                        Append(s, e)[i] = Append(s, e)[j]
                 PROVE  i = j
    BY <1>1 DEF IsInjective
  <2>2. \A k \in 1 .. Len(s) : s[k] # e BY <1>1, <1>3 DEF Range
  <2>3. CASE i = Len(s) + 1 /\ j \in 1 .. Len(s) BY <2>1, <2>2, <2>3, <1>1
  <2>4. CASE j = Len(s) + 1 /\ i \in 1 .. Len(s) BY <2>1, <2>2, <2>4, <1>1
  <2>5. CASE i \in 1 .. Len(s) /\ j \in 1 .. Len(s)
    BY <2>1, <2>5, <1>1, <1>3 DEF IsInjective
  <2>6. CASE i = Len(s) + 1 /\ j = Len(s) + 1 BY <2>6
  <2> QED BY <2>3, <2>4, <2>5, <2>6, <1>1
<1> QED BY <1>1, <1>2, <1>3, SMTT(20)

\* What taking the head of a queue does to its elements.
LEMMA Taken ==
  ASSUME NEW S, NEW s \in Seq(S), s # <<>>
  PROVE  /\ Head(s) \in S /\ Tail(s) \in Seq(S) /\ Len(Tail(s)) = Len(s) - 1 /\ Len(s) >= 1
         /\ Range(s) = Range(Tail(s)) \cup {Head(s)}
         /\ IsInjective(s) => IsInjective(Tail(s)) /\ Head(s) \notin Range(Tail(s))
<1>1. /\ Head(s) \in S /\ Tail(s) \in Seq(S) /\ Len(Tail(s)) = Len(s) - 1 /\ Len(s) \in Nat \ {0}
      /\ \A i \in 1 .. Len(Tail(s)) : Tail(s)[i] = s[i + 1]
      /\ Head(s) = s[1] /\ DOMAIN s = 1 .. Len(s) /\ DOMAIN Tail(s) = 1 .. Len(s) - 1
  OBVIOUS 
<1>2. Range(s) = Range(Tail(s)) \cup {Head(s)}
  <2>1. ASSUME NEW x \in Range(s) PROVE x \in Range(Tail(s)) \cup {Head(s)}
    <3>1. PICK i \in 1 .. Len(s) : x = s[i] BY <1>1 DEF Range
    <3>2. CASE i = 1 BY <3>1, <3>2, <1>1
    <3>3. CASE i # 1
      <4>1. i - 1 \in 1 .. Len(s) - 1 /\ (i - 1) + 1 = i BY <3>3, <1>1
      <4>2. Tail(s)[i - 1] = x BY <4>1, <3>1, <1>1
      <4> QED BY <4>1, <4>2, <1>1, ZenonT(20) DEF Range
    <3> QED BY <3>2, <3>3
  <2>2. ASSUME NEW x \in Range(Tail(s)) PROVE x \in Range(s)
    <3>1. PICK i \in 1 .. Len(s) - 1 : x = Tail(s)[i] BY <1>1 DEF Range
    <3>2. i + 1 \in 1 .. Len(s) /\ x = s[i + 1] BY <3>1, <1>1
    <3> QED BY <3>2, <1>1 DEF Range
  <2>3. Head(s) \in Range(s)
    <3>1. 1 \in 1 .. Len(s) BY <1>1
    <3> QED BY <3>1, <1>1 DEF Range
  <2> QED BY <2>1, <2>2, <2>3
<1>3. ASSUME IsInjective(s) PROVE IsInjective(Tail(s)) /\ Head(s) \notin Range(Tail(s))
  <2>0. \A i \in 1 .. Len(s) - 1 : i + 1 \in 1 .. Len(s) /\ Tail(s)[i] = s[i + 1] BY <1>1
  <2>1. IsInjective(Tail(s))
    <3>1. SUFFICES ASSUME NEW i \in 1 .. Len(s) - 1, NEW j \in 1 .. Len(s) - 1,
                          Tail(s)[i] = Tail(s)[j]
                   PROVE  i = j
      BY <1>1 DEF IsInjective
    <3>2. i + 1 = j + 1 BY <3>1, <2>0, <1>1, <1>3 DEF IsInjective
    <3> QED BY <3>2, <1>1
  <2>2. ASSUME Head(s) \in Range(Tail(s)) PROVE FALSE
    <3>1. PICK i \in 1 .. Len(s) - 1 : s[1] = Tail(s)[i] BY <2>2, <1>1 DEF Range
    <3>2. s[1] = s[i + 1] /\ i + 1 \in 1 .. Len(s) /\ 1 \in 1 .. Len(s) BY <3>1, <2>0, <1>1
    <3>3. i + 1 = 1 BY <3>2, <1>1, <1>3 DEF IsInjective
    <3> QED BY <3>3, <1>1
  <2> QED BY <2>1, <2>2
<1> QED BY <1>1, <1>2, <1>3

\* An empty queue.
LEMMA EmptyQueue ==
  /\ Range(<<>>) = {} /\ IsInjective(<<>>) /\ Len(<<>>) = 0 /\ \A S : <<>> \in Seq(S)
BY DEF Range, IsInjective

-------------------------------------------------------------------------------
(* The invariant, action by action. *)

\* A pipeline that has just been started.
LEMMA PipeInit == Init => PipeInv
<1> SUFFICES ASSUME Init PROVE PipeInv OBVIOUS
<1>1. /\ Range(ingress) = {} /\ Range(commits) = {} /\ Range(details) = {}
      /\ IsInjective(ingress) /\ IsInjective(commits) /\ IsInjective(details)
      /\ ingress \in Seq(Requests) /\ commits \in Seq(Commits) /\ details \in Seq(Requests)
      /\ commits \in Seq(Requests)
      /\ Len(ingress) = 0 /\ Len(commits) = 0 /\ Len(details) = 0
  BY EmptyQueue DEF Init
<1>2. Cardinality({}) = 0 BY FS_EmptySet
<1>3. QueueTypes
  <2>1. /\ IngressCapacity \in Nat /\ CommitCapacity \in Nat /\ DetailCapacity \in Nat
        /\ Projections \in Nat
    BY PipelineAssumption, SMTT(20)
  <2>2. /\ Len(ingress) <= IngressCapacity /\ Len(commits) <= CommitCapacity
        /\ Len(details) <= DetailCapacity /\ Cardinality(projecting) <= Projections
    BY <1>1, <1>2, <2>1 DEF Init
  <2>3. /\ task \in [Tasks -> {"none", "running", "done", "aborting", "dead"}]
        /\ count \in [Counters -> Nat]
    BY DEF Init
  <2>4. /\ {closed, accepting, cancelled, down.expired, down.completed} \subseteq BOOLEAN
        /\ health \in [reported : Nat, degraded : BOOLEAN]
        /\ down \in [step : Tasks \cup {"up", "stopped", "down"}, expired : BOOLEAN,
                     completed : BOOLEAN]
    BY ZenonT(20) DEF Init
  <2> QED BY <1>1, <2>2, <2>3, <2>4 DEF Init, QueueTypes, PipelineTypeOK
<1>4. EnvelopesApart BY <1>1 DEF Init, EnvelopesApart, Held
<1>5. TasksInOrder BY DEF Init, TasksInOrder, Tasks, Alive
<1>6. NothingUncounted
  <2>1. Offered = {} BY PipelineAssumption DEF Init, Offered
  <2> QED BY <2>1, <1>1, <1>2 DEF Init, NothingUncounted, InHand, Counters
<1>7. PassedIsDone BY DEF Init, PassedIsDone
<1> QED BY <1>3, <1>4, <1>5, <1>6, <1>7 DEF PipeInv

\* Envelopes are known by their request, and a candidate by the request that carries it.
LEMMA HeldAreRequests ==
  ASSUME QueueTypes
  PROVE  /\ Range(ingress) \subseteq Requests /\ Range(commits) \subseteq Commits
         /\ Range(details) \subseteq Requests /\ Held \subseteq Requests
         /\ Offered \subseteq Commits /\ IsFiniteSet(Offered) /\ IsFiniteSet(projecting)
         /\ Cardinality(projecting) \in Nat
<1>1. /\ Range(ingress) \subseteq Requests /\ Range(commits) \subseteq Commits
      /\ Range(details) \subseteq Requests
  BY DEF QueueTypes, Range
<1>2. Held \subseteq Requests
  BY <1>1, PipelineAssumption DEF QueueTypes, PipelineTypeOK, Held
<1>3. Offered \subseteq Commits /\ Offered \subseteq Requests
  BY PipelineAssumption DEF Offered
<1>4. IsFiniteSet(Offered) /\ IsFiniteSet(projecting)
  BY <1>3, PipelineAssumption, FS_Subset DEF QueueTypes, PipelineTypeOK
<1> QED BY <1>1, <1>2, <1>3, <1>4, FS_CardinalityType

\* The steps that touch no queue, no task and no counter.
QueuesStay == UNCHANGED <<ingress, commits, details, committing, projecting, task, count, settled>>

\* Such a step keeps what is said of envelopes, tasks and counts.
LEMMA QueuesFrame ==
  ASSUME PipeInv, QueuesStay, UNCHANGED sent
  PROVE  EnvelopesApart' /\ TasksInOrder' /\ NothingUncounted'
<1>1. EnvelopesApart' BY DEF PipeInv, QueuesStay, EnvelopesApart, Held
<1>2. TasksInOrder' BY DEF PipeInv, QueuesStay, TasksInOrder, Alive
<1>3. Offered' = Offered BY DEF Offered
<1>4. NothingUncounted' BY <1>3 DEF PipeInv, QueuesStay, NothingUncounted, InHand
<1> QED BY <1>1, <1>2, <1>4

\* A request that reads the flag.
LEMMA InvCheckAccepting ==
  ASSUME PipeInv, NEW r \in Requests, CheckAccepting(r)
  PROVE  PipeInv'
<1> USE DEF PipeInv
<1>1. /\ sent[r] = "resolving" /\ QueuesStay /\ UNCHANGED <<down, health>>
      /\ UNCHANGED <<closed, accepting, cancelled, panics>>
      /\ sent' \in [Requests -> {"resolving", "checked", "disabled", "accepted", "full", "closed"}]
      /\ sent'[r] \in {"checked", "disabled"}
      /\ \A q \in Requests \ {r} : sent'[q] = sent[q]
  BY DEF CheckAccepting, QueuesStay, QueueTypes, PipelineTypeOK
<1>2. QueueTypes' BY <1>1 DEF QueuesStay, QueueTypes, PipelineTypeOK
<1>3. Held' = Held BY <1>1 DEF QueuesStay, Held
<1>4. Held \subseteq Requests BY HeldAreRequests
<1>5. EnvelopesApart'
  BY <1>1, <1>3, <1>4 DEF QueuesStay, EnvelopesApart
<1>6. TasksInOrder' BY <1>1 DEF QueuesStay, TasksInOrder, Alive
<1>7. Offered' = Offered BY <1>1, PipelineAssumption DEF Offered
<1>8. NothingUncounted' BY <1>1, <1>7 DEF QueuesStay, NothingUncounted, InHand
<1>9. PassedIsDone' BY <1>1 DEF QueuesStay, PassedIsDone
<1> QED BY <1>2, <1>5, <1>6, <1>8, <1>9

\* A request that is accepted joins the ingress, one that finds it full is counted,
\* and one that comes too late leaves nothing behind.
LEMMA InvTrySend ==
  ASSUME PipeInv, NEW r \in Requests, TrySend(r)
  PROVE  PipeInv'
<1> USE DEF PipeInv
<1>1. /\ sent[r] = "checked" /\ UNCHANGED <<commits, details, committing, projecting, task, settled>>
      /\ UNCHANGED <<down, health, closed, accepting, cancelled, panics>>
      /\ sent' \in [Requests -> {"resolving", "checked", "disabled", "accepted", "full", "closed"}]
      /\ \A q \in Requests \ {r} : sent'[q] = sent[q]
  BY ZenonT(20) DEF TrySend, QueueTypes, PipelineTypeOK
<1>2. /\ Range(ingress) \subseteq Requests /\ Held \subseteq Requests /\ Commits \subseteq Requests
      /\ Offered \subseteq Commits /\ IsFiniteSet(Offered) /\ IsFiniteSet(Offered \ Range(ingress))
  BY HeldAreRequests, PipelineAssumption, FS_Subset, SMTT(20)
<1>3. r \notin Held BY <1>1, SMTT(20) DEF EnvelopesApart
<1>4. r \notin Range(ingress) \cup Range(commits) \cup Range(details) \cup projecting \cup settled
      /\ r # committing
  BY <1>3, PipelineAssumption DEF Held
<1>5. TasksInOrder' /\ PassedIsDone'
  <2>1. PassedIsDone' BY <1>1 DEF PassedIsDone
  <2>2. Alive("dispatcher") \/ ingress' = ingress BY DEF TrySend, IngressOpen
  <2>3. TasksInOrder' BY <1>1, <2>2 DEF TasksInOrder, Alive
  <2> QED BY <2>1, <2>3
<1>6. count \in [Counters -> Nat] BY DEF QueueTypes, PipelineTypeOK
<1>7. CASE ingress' = Append(ingress, r) /\ sent'[r] = "accepted" /\ count' = Plus(count, "accepted")
           /\ Len(ingress) < IngressCapacity
  <2>1. /\ ingress' \in Seq(Requests) /\ Len(ingress') = Len(ingress) + 1
        /\ Range(ingress') = Range(ingress) \cup {r} /\ IsInjective(ingress')
    <3>1. ingress \in Seq(Requests) /\ IsInjective(ingress) BY DEF QueueTypes, EnvelopesApart
    <3> QED BY <3>1, <1>4, <1>7, Joined
  <2>2. /\ count' \in [Counters -> Nat] /\ count'.accepted = count.accepted + 1
        /\ \A c \in Counters \ {"accepted"} : count'[c] = count[c]
    BY <1>6, <1>7, SMTT(20) DEF Plus, Counters
  <2>3. QueueTypes'
    <3>1. Len(ingress') <= IngressCapacity
      <4>1. IngressCapacity \in Nat /\ Len(ingress) \in Nat
        BY PipelineAssumption DEF QueueTypes
      <4> QED BY <4>1, <2>1, <1>7
    <3> QED BY <3>1, <2>1, <2>2, <1>1 DEF QueueTypes, PipelineTypeOK
  <2>4. EnvelopesApart'
    <3>1. Held' = Held \cup {r} BY <2>1, <1>1 DEF Held
    <3>2. \A q \in Held' : sent'[q] = "accepted" BY <3>1, <1>1, <1>2, <1>7 DEF EnvelopesApart
    <3> QED BY <3>2, <2>1, <1>1, <1>4 DEF EnvelopesApart
  <2>5. Offered' \ Range(ingress') = Offered \ Range(ingress)
    BY <2>1, <1>1, <1>2 DEF Offered
  <2>6. NothingUncounted'
    <3>1. Len(ingress) \in Nat BY DEF QueueTypes
    <3>2. count'.accepted = count'.stats + Len(ingress') \/ task["dispatcher"] = "dead"
      <4>1. count'.stats = count.stats /\ count.stats \in Nat BY <2>2, <1>6 DEF Counters
      <4>2. CASE task["dispatcher"] # "dead"
        <5>1. count.accepted = count.stats + Len(ingress) BY <4>2 DEF NothingUncounted
        <5> HIDE DEF PipeInv
        <5> QED BY <5>1, <4>1, <3>1, <2>1, <2>2
      <4> QED BY <4>2
    <3> QED BY <3>2, <2>2, <2>5, <1>1, ZenonT(20) DEF NothingUncounted, InHand, Counters
  <2> QED BY <2>3, <2>4, <2>6, <1>5, SMTT(20)
<1>8. CASE /\ ingress' = ingress /\ sent'[r] = "full"
           /\ count' = IF r \in Commits THEN Plus(Plus(count, "dropped"), "commitDropped")
                                        ELSE Plus(count, "dropped")
  <2>1. /\ count' \in [Counters -> Nat]
        /\ count'.commitDropped = count.commitDropped + (IF r \in Commits THEN 1 ELSE 0)
        /\ \A c \in Counters \ {"dropped", "commitDropped"} : count'[c] = count[c]
    BY <1>6, <1>8 DEF Plus, Counters
  <2>2. QueueTypes' BY <2>1, <1>1, <1>8, SMTT(20) DEF QueueTypes, PipelineTypeOK
  <2>3. Held' = Held BY <1>1, <1>8 DEF Held
  <2>4. EnvelopesApart' BY <2>3, <1>1, <1>2, <1>3, <1>8 DEF EnvelopesApart
  <2>5. Cardinality(Offered' \ Range(ingress'))
          = Cardinality(Offered \ Range(ingress)) + (IF r \in Commits THEN 1 ELSE 0)
    <3>1. CASE r \in Commits
      <4>1. Offered' \ Range(ingress') = (Offered \ Range(ingress)) \cup {r}
        BY <3>1, <1>1, <1>2, <1>4, <1>8, SMTT(20) DEF Offered
      <4>2. r \notin Offered BY <1>1 DEF Offered
      <4> QED BY <3>1, <4>1, <4>2, <1>2, FS_AddElement, ZenonT(20)
    <3>2. CASE r \notin Commits
      <4>1. Offered' = Offered BY <3>2, <1>1, <1>2, SMTT(20) DEF Offered
      <4>2. Cardinality(Offered \ Range(ingress)) \in Nat BY <1>2, FS_CardinalityType, SMTT(20)
      <4> QED BY <3>2, <4>1, <4>2, <1>8
    <3> QED BY <3>1, <3>2
  <2>6. NothingUncounted'
    <3>1. /\ count'.accepted = count.accepted /\ count'.stats = count.stats
          /\ count'.committed = count.committed /\ count'.projected = count.projected
          /\ count'.detailDropped = count.detailDropped
      BY <2>1 DEF Counters
    <3>2. /\ count.committed \in Nat /\ count.commitDropped \in Nat /\ Len(commits) \in Nat
          /\ InHand \in Nat /\ InHand' = InHand
          /\ Cardinality(Offered \ Range(ingress)) \in Nat
      <4>1. count.committed \in Nat /\ count.commitDropped \in Nat BY <1>6 DEF Counters
      <4>2. Len(commits) \in Nat BY DEF QueueTypes
      <4>3. InHand \in Nat /\ InHand' = InHand BY <1>1, SMTT(20) DEF InHand
      <4>4. Cardinality(Offered \ Range(ingress)) \in Nat BY <1>2, FS_CardinalityType
      <4> QED BY <4>1, <4>2, <4>3, <4>4
    <3>3. task["dispatcher"] # "dead" /\ task["cache"] # "dead" =>
            count'.committed + count'.commitDropped + Len(commits) + InHand
              = Cardinality(Offered' \ Range(ingress'))
      BY <2>1, <2>5, <3>1, <3>2 DEF NothingUncounted
    <3> QED BY <3>1, <3>2, <3>3, <1>1, <1>8 DEF NothingUncounted
  <2> QED BY <2>2, <2>4, <2>6, <1>5
<1>9. CASE ingress' = ingress /\ count' = count /\ sent'[r] = "closed"
  <2>1. QueueTypes' BY <1>1, <1>9, SMTT(20) DEF QueueTypes, PipelineTypeOK
  <2>2. Held' = Held BY <1>1, <1>9 DEF Held
  <2>3. EnvelopesApart' BY <2>2, <1>1, <1>2, <1>3, <1>9, SMTT(20) DEF EnvelopesApart
  <2>4. Offered' = Offered BY <1>1, <1>2, <1>9 DEF Offered
  <2>5. NothingUncounted' BY <2>4, <1>1, <1>9 DEF NothingUncounted, InHand
  <2> QED BY <2>1, <2>3, <2>5, <1>5
<1>10. \/ /\ ingress' = Append(ingress, r) /\ Len(ingress) < IngressCapacity
          /\ sent' = [sent EXCEPT ![r] = "accepted"] /\ count' = Plus(count, "accepted")
       \/ /\ ingress' = ingress /\ sent' = [sent EXCEPT ![r] = "full"]
          /\ count' = IF r \in Commits THEN Plus(Plus(count, "dropped"), "commitDropped")
                                       ELSE Plus(count, "dropped")
       \/ /\ ingress' = ingress /\ count' = count /\ sent' = [sent EXCEPT ![r] = "closed"]
  BY SMTT(20) DEF TrySend, Bump
<1>11. sent \in [Requests -> {"resolving", "checked", "disabled", "accepted", "full", "closed"}]
  BY DEF QueueTypes, PipelineTypeOK
<1> QED BY <1>7, <1>8, <1>9, <1>10, <1>11

\* The dispatcher: the envelope leaves the ingress, and its two halves go on or are counted.
LEMMA InvDispatch ==
  ASSUME PipeInv, Dispatch
  PROVE  PipeInv'
<1> USE DEF PipeInv
<1>0. PICK r : r = Head(ingress) OBVIOUS
<1>1. /\ Alive("dispatcher") /\ ingress # <<>> /\ ingress' = Tail(ingress)
      /\ commits' = (IF r \in Commits /\ CommitFits(r) THEN Append(commits, r) ELSE commits)
      /\ details' = (IF DetailEnabled /\ DetailFits(r) THEN Append(details, r) ELSE details)
      /\ count' = Dispatched(r)
      /\ UNCHANGED <<sent, closed, committing, projecting, accepting, cancelled, task, down,
                     panics, settled>>
      /\ health' \in [reported : Nat, degraded : BOOLEAN]
  <2>1. count.dropped \in Nat /\ health.reported \in Nat
    BY DEF QueueTypes, PipelineTypeOK, Counters
  <2>2. health' = [reported |-> count.dropped, degraded |-> count.dropped > health.reported]
    BY DEF Dispatch
  <2>3. health' \in [reported : Nat, degraded : BOOLEAN] BY <2>1, <2>2
  <2> HIDE DEF PipeInv
  <2> QED BY <2>3, <1>0, ZenonT(20) DEF Dispatch
<1>2. /\ r \in Requests /\ ingress' \in Seq(Requests) /\ Len(ingress') = Len(ingress) - 1
      /\ Len(ingress) >= 1 /\ Range(ingress) = Range(ingress') \cup {r}
      /\ IsInjective(ingress') /\ r \notin Range(ingress')
  <2>1. ingress \in Seq(Requests) /\ IsInjective(ingress) BY DEF QueueTypes, EnvelopesApart
  <2> QED BY <2>1, <1>0, <1>1, Taken, SMTT(20)
<1>3. /\ sent[r] = "accepted"
      /\ r \notin Range(commits) \cup Range(details) \cup projecting \cup settled
      /\ r # committing
  BY <1>2 DEF EnvelopesApart, Held
<1>4. /\ commits' \in Seq(Commits) /\ IsInjective(commits')
      /\ Range(commits') = Range(commits) \cup (IF r \in Commits /\ CommitFits(r) THEN {r} ELSE {})
      /\ Len(commits') = Len(commits) + (IF r \in Commits /\ CommitFits(r) THEN 1 ELSE 0)
  <2>1. commits \in Seq(Commits) /\ IsInjective(commits) /\ Len(commits) \in Nat
    BY DEF QueueTypes, EnvelopesApart
  <2> QED BY <2>1, <1>1, <1>3, Joined
<1>5. /\ details' \in Seq(Requests) /\ IsInjective(details')
      /\ Range(details') = Range(details) \cup (IF DetailEnabled /\ DetailFits(r) THEN {r} ELSE {})
      /\ Len(details') = Len(details) + (IF DetailEnabled /\ DetailFits(r) THEN 1 ELSE 0)
  <2>1. details \in Seq(Requests) /\ IsInjective(details) /\ Len(details) \in Nat
    BY DEF QueueTypes, EnvelopesApart
  <2> QED BY <2>1, <1>1, <1>2, <1>3, Joined, SMTT(20)
<1>6. /\ count \in [Counters -> Nat] /\ count' \in [Counters -> Nat]
      /\ count'.accepted = count.accepted /\ count'.stats = count.stats + 1
      /\ count'.committed = count.committed /\ count'.projected = count.projected
      /\ count'.commitDropped = count.commitDropped + (IF r \in Commits /\ ~CommitFits(r) THEN 1 ELSE 0)
      /\ count'.detailDropped = count.detailDropped + (IF DetailEnabled /\ ~DetailFits(r) THEN 1 ELSE 0)
  <2>1. count \in [Counters -> Nat] BY DEF QueueTypes, PipelineTypeOK
  <2>2. count' = Dispatched(r) BY <1>1
  <2>3. count' \in [Counters -> Nat] BY <2>1, <2>2 DEF Dispatched
  <2>4. /\ count'.accepted = count.accepted + 0 /\ count'.stats = count.stats + 1
        /\ count'.committed = count.committed + 0 /\ count'.projected = count.projected + 0
        /\ count'.commitDropped = count.commitDropped + (IF r \in Commits /\ ~CommitFits(r) THEN 1 ELSE 0)
        /\ count'.detailDropped = count.detailDropped + (IF DetailEnabled /\ ~DetailFits(r) THEN 1 ELSE 0)
    BY <2>2 DEF Dispatched, Counters
  <2>5. count.accepted \in Nat /\ count.committed \in Nat /\ count.projected \in Nat
    BY <2>1 DEF Counters
  <2> QED BY <2>1, <2>3, <2>4, <2>5, SMTT(20)
<1>7. QueueTypes'
  <2>1. /\ Len(ingress) \in Nat /\ Len(commits) \in Nat /\ Len(details) \in Nat
        /\ IngressCapacity \in Nat /\ CommitCapacity \in Nat /\ DetailCapacity \in Nat
        /\ Len(ingress) <= IngressCapacity /\ Len(commits) <= CommitCapacity
        /\ Len(details) <= DetailCapacity
    BY PipelineAssumption DEF QueueTypes, PipelineTypeOK
  <2>2. Len(ingress') <= IngressCapacity BY <2>1, <1>2
  <2>3. Len(commits') <= CommitCapacity BY <2>1, <1>4 DEF CommitFits
  <2>4. Len(details') <= DetailCapacity BY <2>1, <1>5 DEF DetailFits
  <2>5. commits' \in Seq(Requests)
    <3>1. Seq(Commits) \subseteq Seq(Requests) BY PipelineAssumption
    <3> QED BY <3>1, <1>4
  <2> QED
    BY <2>2, <2>3, <2>4, <2>5, <1>1, <1>2, <1>4, <1>5, <1>6, ZenonT(20) DEF QueueTypes, PipelineTypeOK
<1>8. EnvelopesApart'
  <2>1. Held' \subseteq Held BY <1>1, <1>2, <1>4, <1>5 DEF Held
  <2>2. \A q \in Held' : sent'[q] = "accepted" BY <2>1, <1>1, SMTT(20) DEF EnvelopesApart
  <2>3. Range(ingress') \cap (Range(commits') \cup Range(details') \cup projecting' \cup settled') = {}
    BY <1>1, <1>2, <1>4, <1>5 DEF EnvelopesApart
  <2>4. /\ committing' \notin Range(ingress') \cup Range(commits')
        /\ settled' \cap (Range(commits') \cup {committing'}) = {}
        /\ Range(details') \cap projecting' = {}
    BY <1>1, <1>2, <1>3, <1>4, <1>5, ZenonT(20) DEF EnvelopesApart
  <2> QED BY <2>2, <2>3, <2>4, <1>2, <1>4, <1>5, SMTT(20) DEF EnvelopesApart
<1>9. TasksInOrder'
  BY <1>1, SMTT(20) DEF TasksInOrder, Alive, CommitFits, DetailFits
<1>10. NothingUncounted'
  <2>1. /\ Len(ingress) \in Nat /\ Len(commits) \in Nat /\ Len(details) \in Nat
        /\ InHand \in Nat /\ InHand' = InHand /\ Cardinality(projecting) \in Nat
        /\ count.accepted \in Nat /\ count.stats \in Nat /\ count.committed \in Nat
        /\ count.commitDropped \in Nat /\ count.projected \in Nat /\ count.detailDropped \in Nat
    <3>1. Len(ingress) \in Nat /\ Len(commits) \in Nat /\ Len(details) \in Nat
      BY DEF QueueTypes
    <3>2. InHand \in Nat /\ InHand' = InHand /\ Cardinality(projecting) \in Nat
      BY <1>1, HeldAreRequests DEF InHand
    <3> QED BY <3>1, <3>2, <1>6 DEF Counters
  <2>2. Cardinality((Offered \ Range(ingress))')
          = Cardinality(Offered \ Range(ingress)) + (IF r \in Commits THEN 1 ELSE 0)
        /\ Cardinality(Offered \ Range(ingress)) \in Nat
    <3>1. IsFiniteSet(Offered \ Range(ingress)) BY HeldAreRequests, FS_Subset
    <3>2. Offered' = Offered BY <1>1 DEF Offered
    <3>3. CASE r \in Commits
      <4>1. r \in Offered BY <3>3, <1>3 DEF Offered
      <4>2. Offered' \ Range(ingress') = (Offered \ Range(ingress)) \cup {r}
        BY <4>1, <3>2, <1>2
      <4> QED BY <4>2, <3>1, <3>3, <1>2, FS_AddElement, FS_CardinalityType, ZenonT(20)
    <3>4. CASE r \notin Commits
      <4>1. Offered' \ Range(ingress') = Offered \ Range(ingress)
        BY <3>2, <3>4, <1>2, SMTT(20) DEF Offered
      <4>2. Cardinality(Offered \ Range(ingress)) \in Nat BY <3>1, FS_CardinalityType
      <4> QED BY <4>1, <4>2, <3>4, SMTT(30)
    <3> QED BY <3>3, <3>4
  <2>3. task["dispatcher"] # "dead" => count'.accepted = count'.stats + Len(ingress')
    BY <2>1, <1>2, <1>6, SMTT(20) DEF NothingUncounted
  <2>4. task["dispatcher"] # "dead" /\ task["cache"] # "dead" =>
          count'.committed + count'.commitDropped + Len(commits') + InHand'
            = Cardinality((Offered \ Range(ingress))')
    <3> DEFINE a == count.committed  b == count.commitDropped  l == Len(commits)  h == InHand
               b1 == count'.commitDropped  l1 == Len(commits')  one == IF r \in Commits THEN 1 ELSE 0
               n == Cardinality(Offered \ Range(ingress))
    <3>1. /\ a \in Nat /\ b \in Nat /\ l \in Nat /\ h \in Nat /\ b1 \in Nat /\ l1 \in Nat
          /\ one \in Nat /\ n \in Nat
      BY <2>1, <2>2, <1>4, <1>6
    <3>2. b1 + l1 = b + l + one
      <4>1. CASE r \in Commits /\ CommitFits(r)
        <5>1. l1 = l + 1 /\ one = 1 BY <4>1, <1>4
        <5>2. b1 = b BY <4>1, <1>6, <3>1, SMTT(20)
        <5> HIDE DEF b, l, b1, l1, one
        <5> QED BY <5>1, <5>2, <3>1
      <4>2. CASE r \in Commits /\ ~CommitFits(r) BY <4>2, <2>1, <1>4, <1>6, SMTT(20)
      <4>3. CASE r \notin Commits BY <4>3, <2>1, <1>4, <1>6, SMTT(20)
      <4> QED BY <4>1, <4>2, <4>3
    <3>3. task["dispatcher"] # "dead" /\ task["cache"] # "dead" => a + b + l + h = n
      BY DEF NothingUncounted
    <3>4. /\ Cardinality((Offered \ Range(ingress))') = n + one
          /\ count'.committed = a /\ InHand' = h
      BY <2>1, <2>2, <1>6
    <3> HIDE DEF a, b, l, h, b1, l1, one, n
    <3>5. task["dispatcher"] # "dead" /\ task["cache"] # "dead" => a + b1 + l1 + h = n + one
      BY <3>1, <3>2, <3>3
    <3> QED BY <3>4, <3>5 DEF b1, l1
  <2>5. DetailEnabled /\ task["dispatcher"] # "dead" /\ task["detail"] # "dead" =>
          count'.projected + count'.detailDropped + Len(details') + Cardinality(projecting')
            = count'.stats
    <3> DEFINE a == count.projected  b == count.detailDropped  l == Len(details)
               h == Cardinality(projecting)  b1 == count'.detailDropped  l1 == Len(details')
               n == count.stats
    <3>1. /\ a \in Nat /\ b \in Nat /\ l \in Nat /\ h \in Nat /\ b1 \in Nat /\ l1 \in Nat
          /\ n \in Nat
      BY <2>1, <1>5, <1>6
    <3>2. DetailEnabled => b1 + l1 = b + l + 1
      <4>1. CASE DetailEnabled /\ DetailFits(r)
        <5>1. l1 = l + 1 BY <4>1, <1>5
        <5>2. b1 = b BY <4>1, <1>6, <3>1, SMTT(20)
        <5> HIDE DEF b, l, b1, l1
        <5> QED BY <5>1, <5>2, <3>1
      <4>2. CASE DetailEnabled /\ ~DetailFits(r) BY <4>2, <2>1, <1>5, <1>6
      <4> QED BY <4>1, <4>2
    <3>3. DetailEnabled /\ task["dispatcher"] # "dead" /\ task["detail"] # "dead" =>
            a + b + l + h = n
      BY SMTT(20) DEF NothingUncounted
    <3>4. count'.projected = a /\ count'.stats = n + 1 /\ Cardinality(projecting') = h
      BY <1>1, <1>6
    <3> HIDE DEF a, b, l, h, b1, l1, n
    <3>5. DetailEnabled /\ task["dispatcher"] # "dead" /\ task["detail"] # "dead" =>
            a + b1 + l1 + h = n + 1
      BY <3>1, <3>2, <3>3
    <3> QED BY <3>4, <3>5, SMTT(20) DEF b1, l1
  <2> QED BY <2>3, <2>4, <2>5, <1>1, SMTT(20) DEF NothingUncounted
<1>11. PassedIsDone' BY <1>1, SMTT(20) DEF PassedIsDone
<1> QED BY <1>7, <1>8, <1>9, <1>10, <1>11, SMTT(20)

\* The cache worker: a candidate goes from the queue into its hands.
LEMMA InvTakeCommit ==
  ASSUME PipeInv, TakeCommit
  PROVE  PipeInv'
<1> USE DEF PipeInv
<1>1. /\ Alive("cache") /\ committing = None /\ commits # <<>>
      /\ committing' = Head(commits) /\ commits' = Tail(commits)
      /\ UNCHANGED <<sent, ingress, details, closed, projecting, accepting, cancelled, task,
                     count, health, down, panics, settled>>
  BY DEF TakeCommit
<1>2. /\ committing' \in Commits /\ commits' \in Seq(Commits) /\ Len(commits') = Len(commits) - 1
      /\ Len(commits) >= 1 /\ Range(commits) = Range(commits') \cup {committing'}
      /\ IsInjective(commits') /\ committing' \notin Range(commits')
  <2>1. commits \in Seq(Commits) /\ IsInjective(commits) BY DEF QueueTypes, EnvelopesApart
  <2> QED BY <2>1, <1>1, Taken
<1>3. committing' # None BY <1>2, PipelineAssumption
<1>4. QueueTypes'
  <2>1. Len(commits) \in Nat /\ CommitCapacity \in Nat /\ Len(commits) <= CommitCapacity
    BY PipelineAssumption DEF QueueTypes, PipelineTypeOK
  <2>2. Len(commits') <= CommitCapacity BY <2>1, <1>2
  <2>3. commits' \in Seq(Requests)
    <3>1. Seq(Commits) \subseteq Seq(Requests) BY PipelineAssumption
    <3> QED BY <3>1, <1>2, SMTT(20)
  <2> QED BY <2>2, <2>3, <1>1, <1>2, ZenonT(20) DEF QueueTypes, PipelineTypeOK
<1>5. EnvelopesApart'
  <2>1. Held' \subseteq Held BY <1>1, <1>2, SMTT(20) DEF Held
  <2>2. \A q \in Held' : sent'[q] = "accepted" BY <2>1, <1>1 DEF EnvelopesApart
  <2> QED BY <2>2, <1>1, <1>2 DEF EnvelopesApart
<1>6. TasksInOrder' BY <1>1 DEF TasksInOrder, Alive
<1>7. NothingUncounted'
  <2>1. /\ Len(commits) \in Nat /\ InHand = 0 /\ InHand' = 1
        /\ count.committed \in Nat /\ count.commitDropped \in Nat
    BY <1>1, <1>3 DEF QueueTypes, PipelineTypeOK, InHand, Counters
  <2>2. count.committed + count.commitDropped + Len(commits') + InHand'
          = count.committed + count.commitDropped + Len(commits) + InHand
    BY <2>1, <1>2
  <2>3. Offered' = Offered BY <1>1 DEF Offered
  <2> QED BY <2>2, <2>3, <1>1, SMTT(20) DEF NothingUncounted
<1>8. PassedIsDone' BY <1>1 DEF PassedIsDone
<1> QED BY <1>4, <1>5, <1>6, <1>7, <1>8

\* The commit in the worker's hands ends, and its outcome is counted.
LEMMA InvFinishCommit ==
  ASSUME PipeInv, FinishCommit
  PROVE  PipeInv'
<1> USE DEF PipeInv
<1>1. /\ Alive("cache") /\ committing # None /\ committing' = None
      /\ settled' = settled \cup {committing} /\ count' = Plus(count, "committed")
      /\ UNCHANGED <<sent, ingress, commits, details, closed, projecting, accepting, cancelled,
                     task, health, down, panics>>
  BY DEF FinishCommit, Bump
<1>2. /\ count \in [Counters -> Nat] /\ count' \in [Counters -> Nat]
      /\ count'.committed = count.committed + 1
      /\ \A c \in Counters \ {"committed"} : count'[c] = count[c]
  <2>1. count \in [Counters -> Nat] BY DEF QueueTypes, PipelineTypeOK
  <2> QED BY <2>1, <1>1 DEF Plus, Counters
<1>3. committing \in Commits BY <1>1, SMTT(20) DEF QueueTypes, PipelineTypeOK
<1>4. QueueTypes' BY <1>1, <1>2, <1>3, SMTT(20) DEF QueueTypes, PipelineTypeOK
<1>5. EnvelopesApart'
  <2>1. Held' = Held BY <1>1, SMTT(20) DEF Held
  <2>2. None \notin Range(ingress) \cup Range(commits) \cup settled'
    BY <1>1, <1>3, PipelineAssumption, HeldAreRequests DEF QueueTypes
  <2> QED BY <2>1, <2>2, <1>1 DEF EnvelopesApart
<1>6. TasksInOrder' BY <1>1, SMTT(20) DEF TasksInOrder, Alive
<1>7. NothingUncounted'
  <2>1. /\ Len(commits) \in Nat /\ InHand = 1 /\ InHand' = 0
        /\ count.committed \in Nat /\ count.commitDropped \in Nat
    BY <1>1, <1>2 DEF QueueTypes, InHand, Counters
  <2>2. /\ count'.committed + count'.commitDropped + Len(commits) + InHand'
             = count.committed + count.commitDropped + Len(commits) + InHand
        /\ count'.accepted = count.accepted /\ count'.stats = count.stats
        /\ count'.projected = count.projected /\ count'.detailDropped = count.detailDropped
    BY <2>1, <1>2 DEF Counters
  <2>3. Offered' = Offered BY <1>1 DEF Offered
  <2> QED BY <2>2, <2>3, <1>1 DEF NothingUncounted
<1>8. PassedIsDone' BY <1>1 DEF PassedIsDone
<1> QED BY <1>4, <1>5, <1>6, <1>7, <1>8

\* The projector: a detail goes from the queue into the pending set.
LEMMA InvTakeDetail ==
  ASSUME PipeInv, TakeDetail
  PROVE  PipeInv'
<1> USE DEF PipeInv
<1>1. /\ Alive("detail") /\ details # <<>> /\ Cardinality(projecting) < Projections
      /\ projecting' = projecting \cup {Head(details)} /\ details' = Tail(details)
      /\ UNCHANGED <<sent, ingress, commits, closed, committing, accepting, cancelled, task,
                     count, health, down, panics, settled>>
  BY DEF TakeDetail
<1>2. /\ Head(details) \in Requests /\ details' \in Seq(Requests)
      /\ Len(details') = Len(details) - 1 /\ Len(details) >= 1
      /\ Range(details) = Range(details') \cup {Head(details)}
      /\ IsInjective(details') /\ Head(details) \notin Range(details')
  <2>1. details \in Seq(Requests) /\ IsInjective(details) BY DEF QueueTypes, EnvelopesApart
  <2> QED BY <2>1, <1>1, Taken
<1>3. /\ Cardinality(projecting') = Cardinality(projecting) + 1
      /\ Cardinality(projecting) \in Nat
  <2>1. Head(details) \notin projecting BY <1>2 DEF EnvelopesApart
  <2> QED BY <2>1, <1>1, HeldAreRequests, FS_AddElement, ZenonT(20)
<1>4. QueueTypes'
  <2>1. /\ Len(details) \in Nat /\ DetailCapacity \in Nat /\ Len(details) <= DetailCapacity
        /\ Projections \in Nat
    BY PipelineAssumption DEF QueueTypes, PipelineTypeOK
  <2>2. Len(details') <= DetailCapacity /\ Cardinality(projecting') <= Projections
    BY <2>1, <1>1, <1>2, <1>3, SMTT(20)
  <2>3. projecting' \subseteq Requests BY <1>1, <1>2 DEF QueueTypes, PipelineTypeOK
  <2> QED BY <2>2, <2>3, <1>1, <1>2 DEF QueueTypes, PipelineTypeOK
<1>5. EnvelopesApart'
  <2>1. Held' = Held BY <1>1, <1>2 DEF Held
  <2> QED BY <2>1, <1>1, <1>2 DEF EnvelopesApart
<1>6. TasksInOrder' BY <1>1 DEF TasksInOrder, Alive
<1>7. NothingUncounted'
  <2>1. Len(details) \in Nat /\ count.projected \in Nat /\ count.detailDropped \in Nat
    BY DEF QueueTypes, PipelineTypeOK, Counters
  <2>2. count.projected + count.detailDropped + Len(details') + Cardinality(projecting')
          = count.projected + count.detailDropped + Len(details) + Cardinality(projecting)
    <3> DEFINE l == Len(details)  l1 == Len(details')
               n == Cardinality(projecting)  n1 == Cardinality(projecting')
               a == count.projected  b == count.detailDropped
    <3>1. /\ l \in Nat /\ n \in Nat /\ a \in Nat /\ b \in Nat /\ l1 = l - 1 /\ l >= 1 /\ n1 = n + 1
      BY <2>1, <1>2, <1>3
    <3> HIDE DEF l, l1, n, n1, a, b
    <3>2. a + b + l1 + n1 = a + b + l + n BY <3>1
    <3> QED BY <3>2 DEF l, l1, n, n1, a, b
  <2>3. Offered' = Offered /\ InHand' = InHand BY <1>1 DEF Offered, InHand
  <2> QED BY <2>2, <2>3, <1>1, SMTT(20) DEF NothingUncounted
<1>8. PassedIsDone' BY <1>1 DEF PassedIsDone
<1> QED BY <1>4, <1>5, <1>6, <1>7, <1>8

\* A pending projection ends, and its outcome is counted.
LEMMA InvProjectDetail ==
  ASSUME PipeInv, NEW r \in Requests, ProjectDetail(r)
  PROVE  PipeInv'
<1> USE DEF PipeInv
<1>1. /\ Alive("detail") /\ r \in projecting /\ projecting' = projecting \ {r}
      /\ count' = Plus(count, "projected")
      /\ UNCHANGED <<sent, ingress, commits, details, closed, committing, accepting, cancelled,
                     task, health, down, panics, settled>>
  BY DEF ProjectDetail, Bump
<1>2. /\ count \in [Counters -> Nat] /\ count' \in [Counters -> Nat]
      /\ count'.projected = count.projected + 1
      /\ \A c \in Counters \ {"projected"} : count'[c] = count[c]
  <2>1. count \in [Counters -> Nat] BY DEF QueueTypes, PipelineTypeOK
  <2> QED BY <2>1, <1>1 DEF Plus, Counters
<1>3. /\ Cardinality(projecting') = Cardinality(projecting) - 1
      /\ Cardinality(projecting) \in Nat
  BY <1>1, HeldAreRequests, FS_RemoveElement, ZenonT(20)
<1>4. QueueTypes'
  <2>1. Projections \in Nat /\ Cardinality(projecting) <= Projections
    BY PipelineAssumption DEF QueueTypes, PipelineTypeOK
  <2>2. Cardinality(projecting') <= Projections BY <2>1, <1>3
  <2> QED BY <2>2, <1>1, <1>2 DEF QueueTypes, PipelineTypeOK
<1>5. EnvelopesApart'
  <2>1. Held' \subseteq Held BY <1>1 DEF Held
  <2> QED BY <2>1, <1>1 DEF EnvelopesApart
<1>6. TasksInOrder' BY <1>1 DEF TasksInOrder, Alive
<1>7. NothingUncounted'
  <2>1. /\ Len(details) \in Nat /\ count.projected \in Nat /\ count.detailDropped \in Nat
    BY <1>2 DEF QueueTypes, Counters
  <2>2. /\ count'.projected + count'.detailDropped + Len(details) + Cardinality(projecting')
             = count.projected + count.detailDropped + Len(details) + Cardinality(projecting)
        /\ count'.accepted = count.accepted /\ count'.stats = count.stats
        /\ count'.committed = count.committed /\ count'.commitDropped = count.commitDropped
    BY <2>1, <1>2, <1>3 DEF Counters
  <2>3. Offered' = Offered /\ InHand' = InHand BY <1>1 DEF Offered, InHand
  <2> QED BY <2>2, <2>3, <1>1 DEF NothingUncounted
<1>8. PassedIsDone' BY <1>1 DEF PassedIsDone
<1> QED BY <1>4, <1>5, <1>6, <1>7, <1>8

\* The dispatcher closes the ingress, or a task that has run out of work ends.
LEMMA InvTaskEnds ==
  ASSUME PipeInv, \/ CloseIngress \/ DispatcherEnds \/ CacheWorkerEnds \/ ProjectorEnds
  PROVE  PipeInv'
<1> USE DEF PipeInv
<1>1. CASE CloseIngress
  <2>1. /\ UNCHANGED <<sent, ingress, commits, details, committing, projecting, accepting,
                       cancelled, task, count, health, down, panics, settled>>
        /\ closed' = TRUE
    BY <1>1, SMTT(20) DEF CloseIngress
  <2>2. QueueTypes' /\ PassedIsDone' BY <2>1 DEF QueueTypes, PipelineTypeOK, PassedIsDone
  <2>3. QueuesStay BY <2>1 DEF QueuesStay
  <2> QED BY <2>1, <2>2, <2>3, QueuesFrame
<1>2. ASSUME NEW t \in Tasks, Alive(t), EndTask(t),
             UNCHANGED <<sent, ingress, commits, details, closed, committing, projecting,
                         accepting, cancelled, count, health, down, panics, settled>>,
             t = "dispatcher" => ingress = <<>>,
             t = "cache" => commits = <<>> /\ committing = None,
             t = "detail" => details = <<>> /\ projecting = {}
      PROVE  PipeInv'
  <2>1. /\ task \in [Tasks -> {"none", "running", "done", "aborting", "dead"}]
        /\ task' \in [Tasks -> {"none", "running", "done", "aborting", "dead"}]
        /\ task'[t] = "done" /\ \A u \in Tasks \ {t} : task'[u] = task[u]
        /\ task[t] \in {"running", "aborting"}
    BY <1>2, SMTT(20) DEF QueueTypes, PipelineTypeOK, EndTask, Alive
  <2>2. QueueTypes' BY <1>2, <2>1, SMTT(20) DEF QueueTypes, PipelineTypeOK
  <2>3. EnvelopesApart' BY <1>2 DEF EnvelopesApart, Held
  <2>4. TasksInOrder' BY <1>2, <2>1 DEF TasksInOrder, Alive, Tasks
  <2>5. Offered' = Offered /\ InHand' = InHand BY <1>2 DEF Offered, InHand
  <2>6. NothingUncounted' BY <1>2, <2>1, <2>5 DEF NothingUncounted, Tasks
  <2>7. PassedIsDone' BY <1>2, <2>1 DEF PassedIsDone, Tasks
  <2> QED BY <2>2, <2>3, <2>4, <2>6, <2>7, SMTT(20)
<1>3. CASE DispatcherEnds
  <2>1. "dispatcher" \in Tasks BY DEF Tasks
  <2> QED BY <1>2, <1>3, <2>1 DEF DispatcherEnds
<1>4. CASE CacheWorkerEnds
  <2>1. "cache" \in Tasks BY DEF Tasks
  <2> QED BY <1>2, <1>4, <2>1 DEF CacheWorkerEnds
<1>5. CASE ProjectorEnds
  <2>1. "detail" \in Tasks BY DEF Tasks
  <2> QED BY <1>2, <1>5, <2>1 DEF ProjectorEnds
<1> QED BY <1>1, <1>3, <1>4, <1>5

\* A task dies: what it held is gone, and shutdown will not call that a completion.
LEMMA InvDies ==
  ASSUME PipeInv, NEW t \in Tasks, Alive(t), Dies(t), panics' \in Nat,
         UNCHANGED <<sent, closed, accepting, cancelled, count, health, down, settled>>
  PROVE  PipeInv'
<1> USE DEF PipeInv
<1>1. /\ task \in [Tasks -> {"none", "running", "done", "aborting", "dead"}]
      /\ task' \in [Tasks -> {"none", "running", "done", "aborting", "dead"}]
      /\ task'[t] = "dead" /\ \A u \in Tasks \ {t} : task'[u] = task[u]
      /\ task[t] \in {"running", "aborting"}
  BY DEF QueueTypes, PipelineTypeOK, Dies, Alive
<1>2. /\ ingress' = IF t = "dispatcher" THEN <<>> ELSE ingress
      /\ commits' = IF t = "cache" THEN <<>> ELSE commits
      /\ committing' = IF t = "cache" THEN None ELSE committing
      /\ details' = IF t = "detail" THEN <<>> ELSE details
      /\ projecting' = IF t = "detail" THEN {} ELSE projecting
  BY DEF Dies
<1>3. /\ ingress' \in Seq(Requests) /\ Len(ingress') <= IngressCapacity /\ IsInjective(ingress')
      /\ Range(ingress') \subseteq Range(ingress)
  <2>1. /\ ingress \in Seq(Requests) /\ Len(ingress) <= IngressCapacity /\ IsInjective(ingress)
        /\ IngressCapacity \in Nat
    BY PipelineAssumption DEF QueueTypes, PipelineTypeOK, EnvelopesApart
  <2> QED BY <2>1, <1>2, EmptyQueue, SMTT(20)
<1>4. /\ commits' \in Seq(Commits) /\ commits' \in Seq(Requests)
      /\ Len(commits') <= CommitCapacity /\ IsInjective(commits')
      /\ Range(commits') \subseteq Range(commits)
  <2>1. /\ commits \in Seq(Commits) /\ Len(commits) <= CommitCapacity /\ IsInjective(commits)
        /\ commits \in Seq(Requests) /\ CommitCapacity \in Nat
    BY PipelineAssumption DEF QueueTypes, PipelineTypeOK, EnvelopesApart
  <2> QED BY <2>1, <1>2, EmptyQueue
<1>5. /\ details' \in Seq(Requests) /\ Len(details') <= DetailCapacity /\ IsInjective(details')
      /\ Range(details') \subseteq Range(details)
  <2>1. /\ details \in Seq(Requests) /\ Len(details) <= DetailCapacity /\ IsInjective(details)
        /\ DetailCapacity \in Nat
    BY PipelineAssumption DEF QueueTypes, PipelineTypeOK, EnvelopesApart
  <2> QED BY <2>1, <1>2, EmptyQueue, SMTT(20)
<1>6. /\ projecting' \subseteq projecting /\ Cardinality(projecting') <= Projections
      /\ committing' \in {committing, None}
  <2>1. Cardinality(projecting) <= Projections /\ Projections \in Nat
    BY PipelineAssumption, SMTT(20) DEF QueueTypes, PipelineTypeOK
  <2> QED BY <2>1, <1>2, FS_EmptySet
<1>7. QueueTypes'
  BY <1>1, <1>3, <1>4, <1>5, <1>6, SMTT(20) DEF QueueTypes, PipelineTypeOK
<1>8. EnvelopesApart'
  <2>1. Held' \subseteq Held BY <1>3, <1>4, <1>5, <1>6, SMTT(20) DEF Held
  <2>2. None \notin Range(ingress) \cup Range(commits) \cup settled
    BY PipelineAssumption, HeldAreRequests DEF QueueTypes
  <2>3. \A q \in Held' : sent'[q] = "accepted" BY <2>1 DEF EnvelopesApart
  <2> QED BY <2>2, <2>3, <1>3, <1>4, <1>5, <1>6, SMTT(20) DEF EnvelopesApart
<1>9. TasksInOrder' BY <1>1, <1>2 DEF TasksInOrder, Alive, Tasks
<1>10. NothingUncounted'
  <2>1. Offered' = Offered BY DEF Offered
  <2>2. CASE t = "dispatcher" BY <2>2, <1>1 DEF NothingUncounted
  <2>3. CASE t = "cache" BY <2>1, <2>3, <1>1, <1>2 DEF NothingUncounted, Tasks
  <2>4. CASE t = "detail"
    <3>1. InHand' = InHand BY <2>4, <1>2 DEF InHand
    <3> QED BY <2>1, <3>1, <2>4, <1>1, <1>2 DEF NothingUncounted, Tasks
  <2> QED BY <2>2, <2>3, <2>4 DEF Tasks
<1>11. PassedIsDone' BY <1>1 DEF PassedIsDone, Tasks
<1> QED BY <1>7, <1>8, <1>9, <1>10, <1>11

\* shutdown: the flag, the token, the deadline and the three handles.
LEMMA InvShutdown ==
  ASSUME PipeInv, \/ Stop \/ Cancel \/ DeadlineExpires \/ Await
  PROVE  PipeInv'
<1> USE DEF PipeInv
<1>0. /\ down \in [step : Tasks \cup {"up", "stopped", "down"}, expired : BOOLEAN, completed : BOOLEAN]
  BY DEF QueueTypes
<1>1. CASE Stop \/ Cancel \/ DeadlineExpires
  <2>1. QueuesStay /\ UNCHANGED <<sent, health, panics>> /\ closed' \in BOOLEAN
        /\ accepting' \in BOOLEAN /\ cancelled' \in BOOLEAN
    BY <1>1, ZenonT(20) DEF Stop, Cancel, DeadlineExpires, QueuesStay, QueueTypes, PipelineTypeOK
  <2>2. /\ down' \in [step : Tasks \cup {"up", "stopped", "down"}, expired : BOOLEAN, completed : BOOLEAN]
        /\ down'.completed = down.completed
        /\ down'.step \in {"stopped", "dispatcher"} \/ down'.step = down.step
    BY <1>0, <1>1, ZenonT(20) DEF Stop, Cancel, DeadlineExpires, Tasks
  <2>3. QueueTypes' BY <2>1, <2>2 DEF QueuesStay, QueueTypes, PipelineTypeOK
  <2>4. PassedIsDone' BY <2>1, <2>2 DEF QueuesStay, PassedIsDone
  <2> QED BY <2>1, <2>3, <2>4, QueuesFrame
<1>2. CASE Await
  <2>1. PICK t \in Tasks : AwaitTask(t) BY <1>2 DEF Await
  <2>2. /\ down.step = t
        /\ task' = IF Alive(t) THEN [task EXCEPT ![t] = "aborting"] ELSE task
        /\ down' = [down EXCEPT !.step = After(t),
                                !.completed = down.completed /\ task[t] \in {"none", "done"}]
        /\ UNCHANGED <<sent, ingress, commits, details, closed, committing, projecting, accepting,
                       cancelled, count, health, panics, settled>>
    BY <2>1 DEF AwaitTask
  <2>3. /\ task \in [Tasks -> {"none", "running", "done", "aborting", "dead"}]
        /\ task' \in [Tasks -> {"none", "running", "done", "aborting", "dead"}]
        /\ \A u \in Tasks : \/ task'[u] = task[u]
                            \/ task[u] \in {"running", "aborting"} /\ task'[u] = "aborting"
        /\ ~Alive(t) => task' = task
    BY <2>2 DEF QueueTypes, PipelineTypeOK, Alive
  <2>4. /\ After("dispatcher") = "cache" /\ After("cache") = "detail" /\ After("detail") = "down"
    BY DEF After
  <2>5. /\ down' \in [step : Tasks \cup {"up", "stopped", "down"}, expired : BOOLEAN, completed : BOOLEAN]
        /\ down'.completed = (down.completed /\ task[t] \in {"none", "done"})
        /\ down'.step = After(t)
    BY <1>0, <2>2, <2>4, ZenonT(20) DEF Tasks
  <2>6. QueueTypes' BY <2>2, <2>3, <2>5, ZenonT(20) DEF QueueTypes, PipelineTypeOK
  <2>7. EnvelopesApart' BY <2>2 DEF EnvelopesApart, Held
  <2>8. TasksInOrder' BY <2>2, <2>3 DEF TasksInOrder, Alive, Tasks
  <2>9. NothingUncounted'
    <3>1. Offered' = Offered /\ InHand' = InHand BY <2>2 DEF Offered, InHand
    <3> QED BY <3>1, <2>2, <2>3 DEF NothingUncounted, Tasks
  <2>10. PassedIsDone'
    <3>1. SUFFICES ASSUME down'.completed PROVE PassedIsDone' BY DEF PassedIsDone
    <3>2. down.completed /\ task[t] \in {"none", "done"} /\ task' = task
      BY <3>1, <2>3, <2>5 DEF Alive
    <3> QED BY <3>2, <2>2, <2>4, <2>5 DEF PassedIsDone, TasksInOrder, Tasks
  <2> QED BY <2>6, <2>7, <2>8, <2>9, <2>10
<1> QED BY <1>1, <1>2

\* A step of the pipeline keeps the invariant.
LEMMA PipeNext ==
  ASSUME PipeInv, [Next]_pipe
  PROVE  PipeInv'
<1>1. CASE UNCHANGED pipe
  <2>1. QueuesStay /\ UNCHANGED <<sent, closed, accepting, cancelled, health, down, panics>>
    BY <1>1 DEF pipe, QueuesStay
  <2>2. QueueTypes' BY <2>1 DEF PipeInv, QueuesStay, QueueTypes, PipelineTypeOK
  <2>3. PassedIsDone' BY <2>1 DEF PipeInv, QueuesStay, PassedIsDone
  <2> QED BY <2>1, <2>2, <2>3, QueuesFrame DEF PipeInv
<1>2. ASSUME NEW r \in Requests, Publish(r) PROVE PipeInv'
  BY <1>2, InvCheckAccepting, InvTrySend DEF Publish
<1>3. CASE Work
  BY <1>3, InvDispatch, InvTaskEnds, InvTakeCommit, InvTakeDetail DEF Work
<1>4. CASE FinishCommit BY <1>4, InvFinishCommit
<1>5. ASSUME NEW r \in Requests, ProjectDetail(r) PROVE PipeInv' BY <1>5, InvProjectDetail
<1>6. ASSUME NEW t \in Tasks, TaskPanics(t) \/ AbortTakesEffect(t) PROVE PipeInv'
  <2>1. panics \in Nat BY DEF PipeInv, QueueTypes, PipelineTypeOK
  <2>2. /\ Alive(t) /\ Dies(t) /\ panics' \in Nat
        /\ UNCHANGED <<sent, closed, accepting, cancelled, count, health, down, settled>>
    BY <1>6, <2>1 DEF TaskPanics, AbortTakesEffect, Alive
  <2> QED BY <2>2, InvDies
<1>7. CASE Stop \/ Cancel \/ DeadlineExpires \/ Await BY <1>7, InvShutdown
<1> QED BY <1>1, <1>2, <1>3, <1>4, <1>5, <1>6, <1>7 DEF Next

\* ResolutionRuntime keeps its inductive invariant: the queues stay within their
\* capacity, an envelope and each half of it are in one place, and every counter of
\* ResolutionPipelineMetrics agrees with what is waiting, lost or done.
THEOREM PipeInvariant == Spec => []PipeInv
<1>1. Init => PipeInv BY PipeInit
<1>2. PipeInv /\ [Next]_pipe => PipeInv' BY PipeNext
<1> QED BY <1>1, <1>2, PTL DEF Spec

\* The queues, tasks and counters keep their types and the queues their capacities.
THEOREM PipeTypes == Spec => []PipelineTypeOK
<1>1. PipeInv => PipelineTypeOK BY DEF PipeInv, QueueTypes
<1> QED BY <1>1, PipeInvariant, PTL

\* A shutdown (resolution.rs, shutdown) that reports "completed" has lost no envelope, no
\* cache commit and no detail, for any number of requests and any capacities.
THEOREM ShutdownLosesNothing == Spec => []CompletedLosesNothing
<1>1. ASSUME PipeInv, down.step = "down", down.completed
      PROVE  /\ count.stats = count.accepted
             /\ count.committed + count.commitDropped = Cardinality(Offered)
             /\ DetailEnabled => count.projected + count.detailDropped = count.accepted
  <2>1. /\ task["dispatcher"] = "done" /\ task["cache"] = "done"
        /\ task["detail"] \in {"none", "done"}
    BY <1>1 DEF PipeInv, PassedIsDone
  <2>2. ingress = <<>> /\ commits = <<>> /\ committing = None /\ details = <<>> /\ projecting = {}
    BY <1>1, <2>1 DEF PipeInv, TasksInOrder, Alive
  <2>3. /\ Len(ingress) = 0 /\ Len(commits) = 0 /\ Len(details) = 0 /\ Cardinality(projecting) = 0
        /\ InHand = 0 /\ Offered \ Range(ingress) = Offered
    BY <2>2, EmptyQueue, FS_EmptySet, SMTT(20) DEF InHand
  <2>4. /\ count.accepted \in Nat /\ count.stats \in Nat /\ count.committed \in Nat
        /\ count.commitDropped \in Nat /\ count.projected \in Nat /\ count.detailDropped \in Nat
    BY <1>1 DEF PipeInv, QueueTypes, PipelineTypeOK, Counters
  <2>5. count.accepted = count.stats + 0
    BY <1>1, <2>1, <2>3 DEF PipeInv, NothingUncounted
  <2>6. count.committed + count.commitDropped + 0 + 0 = Cardinality(Offered)
    BY <1>1, <2>1, <2>3, ZenonT(20) DEF PipeInv, NothingUncounted
  <2>7. DetailEnabled => count.projected + count.detailDropped + 0 + 0 = count.stats
    BY <1>1, <2>1, <2>3 DEF PipeInv, NothingUncounted
  <2> QED BY <2>4, <2>5, <2>6, <2>7
<1>2. PipeInv => CompletedLosesNothing BY <1>1 DEF CompletedLosesNothing
<1> QED BY <1>2, PipeInvariant, PTL

-------------------------------------------------------------------------------
(* The pipeline is a hand-off. *)

\* The refinement mapping, as IsHandoff has it.
PlaceMap == [r \in Commits |-> PlaceOf(r)]

\* The marks of a candidate that PlaceOf reads.
Waiting(r) == r \in Range(ingress) \cup Range(commits)
Unoffered(r) == sent[r] \in {"resolving", "checked"}

\* The places of a candidate exclude each other, so the order PlaceOf tries them in
\* does not matter.
PlacesKnown ==
  \A r \in Commits :
    /\ Waiting(r) => PlaceOf(r) = "queued"
    /\ r = committing => PlaceOf(r) = "working"
    /\ Unoffered(r) => PlaceOf(r) = "none"
    /\ r \in settled => PlaceOf(r) = "settled"
    /\ ~Waiting(r) /\ r # committing /\ ~Unoffered(r) /\ r \notin settled =>
         PlaceOf(r) = "dropped"

\* The invariant places every candidate.
LEMMA PlacesHold == PipeInv => PlacesKnown
<1> SUFFICES ASSUME PipeInv, NEW r \in Commits
             PROVE  /\ Waiting(r) => PlaceOf(r) = "queued"
                    /\ r = committing => PlaceOf(r) = "working"
                    /\ Unoffered(r) => PlaceOf(r) = "none"
                    /\ r \in settled => PlaceOf(r) = "settled"
                    /\ ~Waiting(r) /\ r # committing /\ ~Unoffered(r) /\ r \notin settled =>
                         PlaceOf(r) = "dropped"
  BY DEF PlacesKnown
<1>1. r # None BY PipelineAssumption
<1>2. Waiting(r) => r # committing /\ ~Unoffered(r) /\ r \notin settled
  BY DEF PipeInv, EnvelopesApart, Held, Waiting, Unoffered
<1>3. r = committing => ~Unoffered(r) /\ r \notin settled
  BY <1>1 DEF PipeInv, EnvelopesApart, Held, Unoffered
<1>4. r \in settled => ~Unoffered(r)
  BY DEF PipeInv, EnvelopesApart, Held, Unoffered
<1> QED BY <1>2, <1>3, <1>4 DEF PlaceOf, Waiting, Unoffered

\* A candidate all of whose marks stay is where it was.
LEMMA StaysPut ==
  ASSUME PlacesKnown, PlacesKnown', NEW q \in Commits,
         Waiting(q)' <=> Waiting(q), (q = committing)' <=> q = committing,
         Unoffered(q)' <=> Unoffered(q), (q \in settled)' <=> q \in settled
  PROVE  PlaceOf(q)' = PlaceOf(q)
<1>1. CASE Waiting(q) BY <1>1 DEF PlacesKnown
<1>2. CASE q = committing BY <1>2 DEF PlacesKnown
<1>3. CASE Unoffered(q) BY <1>3 DEF PlacesKnown
<1>4. CASE q \in settled BY <1>4 DEF PlacesKnown
<1>5. CASE ~Waiting(q) /\ q # committing /\ ~Unoffered(q) /\ q \notin settled
  <2>1. ~Waiting(q)' /\ q # committing' /\ ~Unoffered(q)' /\ q \notin settled' BY <1>5
  <2> QED BY <1>5, <2>1 DEF PlacesKnown
<1> QED BY <1>1, <1>2, <1>3, <1>4, <1>5

\* A step that moves one candidate, or none.
LEMMA OnePlace ==
  ASSUME NEW r \in Commits, NEW v, PlaceOf(r)' = v,
         \A q \in Commits \ {r} : PlaceOf(q)' = PlaceOf(q)
  PROVE  PlaceMap' = [PlaceMap EXCEPT ![r] = v] /\ PlaceMap[r] = PlaceOf(r)
BY ZenonT(20) DEF PlaceMap

\* A step that moves no candidate stutters.
LEMMA NoPlace ==
  ASSUME \A q \in Commits : PlaceOf(q)' = PlaceOf(q)
  PROVE  PlaceMap' = PlaceMap
BY DEF PlaceMap

\* What a step of the pipeline is to the hand-off.
HandsOver == Handoff!Next \/ UNCHANGED PlaceMap

\* A candidate that moves on by one place takes a step of the hand-off.
LEMMA MovesOne ==
  ASSUME NEW r \in Commits, NEW v, PlaceOf(r)' = v,
         \A q \in Commits \ {r} : PlaceOf(q)' = PlaceOf(q),
         \/ PlaceOf(r) = "none" /\ v = "queued"
         \/ PlaceOf(r) = "queued" /\ v = "working"
         \/ PlaceOf(r) = "working" /\ v = "settled"
  PROVE  HandsOver
<1>1. PlaceMap' = [PlaceMap EXCEPT ![r] = v] /\ PlaceMap[r] = PlaceOf(r) BY OnePlace
<1>2. Handoff!Offer(r) \/ Handoff!Take(r) \/ Handoff!Settle(r)
  BY <1>1, ZenonT(20) DEF PlaceMap, Handoff!Offer, Handoff!Take, Handoff!Settle, Handoff!Move
<1> QED BY <1>2 DEF HandsOver, Handoff!Next

\* Candidates lost together, by an abort or a full queue, are one step of the hand-off.
LEMMA DropsSome ==
  ASSUME NEW D \in SUBSET Commits,
         \A q \in D : PlaceOf(q) \in {"none", "queued", "working"} /\ PlaceOf(q)' = "dropped",
         \A q \in Commits \ D : PlaceOf(q)' = PlaceOf(q)
  PROVE  HandsOver
<1>1. CASE D = {} BY <1>1, NoPlace DEF HandsOver
<1>2. CASE D # {}
  <2>1. PlaceMap' = [c \in Commits |-> IF c \in D THEN "dropped" ELSE PlaceMap[c]] BY DEF PlaceMap
  <2>2. \A c \in D : PlaceMap[c] \notin {"settled", "dropped"} BY DEF PlaceMap
  <2>3. Handoff!Drop(D) BY <1>2, <2>1, <2>2 DEF PlaceMap, Handoff!Drop, Handoff!Ended
  <2> QED BY <2>3 DEF HandsOver, Handoff!Next
<1> QED BY <1>1, <1>2

\* A request that sees the pipeline closed or full gives its candidate up, and one that
\* is accepted hands it over.
LEMMA HandPublish ==
  ASSUME PipeInv, PlacesKnown, PlacesKnown', NEW r \in Requests, Publish(r)
  PROVE  HandsOver
<1>1. /\ sent \in [Requests -> {"resolving", "checked", "disabled", "accepted", "full", "closed"}]
      /\ Commits \subseteq Requests
  BY PipelineAssumption, ZenonT(20) DEF PipeInv, QueueTypes, PipelineTypeOK
<1>2. /\ Unoffered(r) /\ UNCHANGED <<commits, committing, settled>>
      /\ \A q \in Commits \ {r} : sent'[q] = sent[q]
      /\ ingress' = ingress \/ (ingress' = Append(ingress, r) /\ sent'[r] = "accepted")
  BY <1>1 DEF Publish, CheckAccepting, TrySend, Unoffered
<1>3. /\ Range(ingress') = Range(ingress) \/ Range(ingress') = Range(ingress) \cup {r}
      /\ ingress' = Append(ingress, r) => r \in Range(ingress')
  <2>1. ingress \in Seq(Requests) BY DEF PipeInv, QueueTypes
  <2>2. Range(Append(ingress, r)) = Range(ingress) \cup {r} BY <2>1, Joined
  <2> QED BY <1>2, <2>2, ZenonT(20)
<1>4. \A q \in Commits \ {r} : PlaceOf(q)' = PlaceOf(q)
  <2> SUFFICES ASSUME NEW q \in Commits \ {r} PROVE PlaceOf(q)' = PlaceOf(q) OBVIOUS
  <2>1. /\ (Waiting(q)' <=> Waiting(q)) /\ ((q = committing)' <=> q = committing)
        /\ (Unoffered(q)' <=> Unoffered(q)) /\ ((q \in settled)' <=> q \in settled)
    BY <1>2, <1>3 DEF Waiting, Unoffered
  <2> QED BY <2>1, StaysPut
<1>5. CASE r \notin Commits
  <2>1. Commits \ {r} = Commits BY <1>5, SMTT(20)
  <2> QED BY <2>1, <1>4, NoPlace DEF HandsOver
<1>6. CASE r \in Commits
  <2>1. PlaceOf(r) = "none" BY <1>2, <1>6, ZenonT(20) DEF PlacesKnown
  <2>2. CASE ingress' = Append(ingress, r)
    <3>1. PlaceOf(r)' = "queued" BY <1>3, <1>6, <2>2 DEF PlacesKnown, Waiting
    <3> QED BY <2>1, <3>1, <1>4, <1>6, MovesOne, SMTT(20)
  <2>3. CASE ingress' = ingress /\ Unoffered(r)'
    <3>1. PlaceOf(r)' = "none" BY <1>6, <2>3 DEF PlacesKnown
    <3> QED BY <2>1, <3>1, <1>4, NoPlace DEF HandsOver
  <2>4. CASE ingress' = ingress /\ ~Unoffered(r)'
    <3>1. ~Waiting(r) /\ r # committing /\ r \notin settled
      BY <2>1, <1>6 DEF PlacesKnown
    <3>2. ~Waiting(r)' /\ r # committing' /\ r \notin settled'
      BY <3>1, <2>4, <1>2, ZenonT(20) DEF Waiting
    <3>3. PlaceOf(r)' = "dropped" BY <3>2, <2>4, <1>6 DEF PlacesKnown
    <3> QED BY <2>1, <3>3, <1>4, <1>6, DropsSome, ZenonT(20)
  <2> QED BY <2>2, <2>3, <2>4, <1>2
<1> QED BY <1>5, <1>6

\* The dispatcher passes the candidate on, or drops it in front of a full commit queue.
LEMMA HandDispatch ==
  ASSUME PipeInv, PlacesKnown, PlacesKnown', Dispatch
  PROVE  HandsOver
<1>0. PICK r : r = Head(ingress) OBVIOUS
<1>1. /\ ingress # <<>> /\ ingress' = Tail(ingress)
      /\ commits' = (IF r \in Commits /\ CommitFits(r) THEN Append(commits, r) ELSE commits)
      /\ UNCHANGED <<sent, committing, settled>>
  BY <1>0 DEF Dispatch
<1>2. Range(ingress) = Range(ingress') \cup {r} /\ r \notin Range(ingress')
  <2>1. ingress \in Seq(Requests) /\ IsInjective(ingress)
    BY DEF PipeInv, QueueTypes, EnvelopesApart
  <2> QED BY <2>1, <1>0, <1>1, Taken
<1>3. Range(commits') = Range(commits) \cup (IF r \in Commits /\ CommitFits(r) THEN {r} ELSE {})
  <2>1. commits \in Seq(Commits) BY DEF PipeInv, QueueTypes
  <2> QED BY <2>1, <1>1, Joined, SMTT(20)
<1>4. /\ sent[r] = "accepted" /\ r \notin Range(commits) /\ r \notin settled /\ r # committing
  BY <1>2 DEF PipeInv, EnvelopesApart, Held
<1>5. ASSUME NEW q \in Commits, q # r \/ CommitFits(r) PROVE PlaceOf(q)' = PlaceOf(q)
  <2>1. Waiting(q)' <=> Waiting(q)
    <3>1. CASE q # r BY <3>1, <1>2, <1>3 DEF Waiting
    <3>2. CASE q = r /\ CommitFits(r) BY <3>2, <1>2, <1>3 DEF Waiting
    <3> QED BY <3>1, <3>2, <1>5
  <2>2. /\ ((q = committing)' <=> q = committing)
        /\ (Unoffered(q)' <=> Unoffered(q)) /\ ((q \in settled)' <=> q \in settled)
    BY <1>1 DEF Unoffered
  <2> QED BY <2>1, <2>2, StaysPut
<1>6. CASE CommitFits(r) \/ r \notin Commits BY <1>5, <1>6, NoPlace DEF HandsOver
<1>7. CASE r \in Commits /\ ~CommitFits(r)
  <2>1. PlaceOf(r) = "queued" BY <1>2, <1>7 DEF PlacesKnown, Waiting
  <2>2. ~Waiting(r)' /\ r # committing' /\ ~Unoffered(r)' /\ r \notin settled'
    BY <1>1, <1>2, <1>3, <1>4, <1>7 DEF Waiting, Unoffered
  <2>3. PlaceOf(r)' = "dropped" BY <1>7, <2>2 DEF PlacesKnown
  <2>4. \A q \in Commits \ {r} : PlaceOf(q)' = PlaceOf(q) BY <1>5
  <2>5. {r} \in SUBSET Commits BY <1>7
  <2>6. \A q \in {r} : PlaceOf(q) \in {"none", "queued", "working"} /\ PlaceOf(q)' = "dropped"
    BY <2>1, <2>3
  <2> QED BY <2>4, <2>5, <2>6, DropsSome, ZenonT(20)
<1> QED BY <1>6, <1>7

\* The cache worker takes a candidate, and its commit ends.
LEMMA HandCommit ==
  ASSUME PipeInv, PlacesKnown, PlacesKnown', TakeCommit \/ FinishCommit
  PROVE  HandsOver
<1>1. CASE TakeCommit
  <2>0. PICK r : r = Head(commits) OBVIOUS
  <2>1. /\ commits # <<>> /\ commits' = Tail(commits) /\ committing = None /\ committing' = r
        /\ UNCHANGED <<sent, ingress, settled>>
    BY <1>1, <2>0 DEF TakeCommit
  <2>2. r \in Commits /\ Range(commits) = Range(commits') \cup {r}
    <3>1. commits \in Seq(Commits) BY DEF PipeInv, QueueTypes
    <3> QED BY <3>1, <2>0, <2>1, Taken
  <2>3. ASSUME NEW q \in Commits \ {r} PROVE PlaceOf(q)' = PlaceOf(q)
    <3>1. q # None BY PipelineAssumption, ZenonT(20)
    <3>2. /\ (Waiting(q)' <=> Waiting(q)) /\ ((q = committing)' <=> q = committing)
          /\ (Unoffered(q)' <=> Unoffered(q)) /\ ((q \in settled)' <=> q \in settled)
      BY <2>1, <2>2, <2>3, <3>1 DEF Waiting, Unoffered
    <3> QED BY <3>2, StaysPut
  <2>4. PlaceOf(r) = "queued" BY <2>2 DEF PlacesKnown, Waiting
  <2>5. PlaceOf(r)' = "working" BY <2>1, <2>2 DEF PlacesKnown
  <2> QED BY <2>2, <2>3, <2>4, <2>5, MovesOne
<1>2. CASE FinishCommit
  <2>0. PICK r : r = committing OBVIOUS
  <2>1. /\ r # None /\ committing' = None /\ settled' = settled \cup {r}
        /\ UNCHANGED <<sent, ingress, commits>>
    BY <1>2, <2>0, SMTT(20) DEF FinishCommit
  <2>2. r \in Commits BY <2>0, <2>1 DEF PipeInv, QueueTypes, PipelineTypeOK
  <2>3. ASSUME NEW q \in Commits \ {r} PROVE PlaceOf(q)' = PlaceOf(q)
    <3>1. q # None BY PipelineAssumption
    <3>2. /\ (Waiting(q)' <=> Waiting(q)) /\ ((q = committing)' <=> q = committing)
          /\ (Unoffered(q)' <=> Unoffered(q)) /\ ((q \in settled)' <=> q \in settled)
      BY <2>0, <2>1, <2>3, <3>1 DEF Waiting, Unoffered
    <3> QED BY <3>2, StaysPut
  <2>4. PlaceOf(r) = "working" BY <2>0, <2>2, SMTT(20) DEF PlacesKnown
  <2>5. PlaceOf(r)' = "settled" BY <2>1, <2>2 DEF PlacesKnown
  <2> QED BY <2>2, <2>3, <2>4, <2>5, MovesOne
<1> QED BY <1>1, <1>2

\* A task that dies drops what it held.
LEMMA HandDies ==
  ASSUME PipeInv, PlacesKnown, PlacesKnown', NEW t \in Tasks, Dies(t), UNCHANGED <<sent, settled>>
  PROVE  HandsOver
<1>1. /\ ingress' = IF t = "dispatcher" THEN <<>> ELSE ingress
      /\ commits' = IF t = "cache" THEN <<>> ELSE commits
      /\ committing' = IF t = "cache" THEN None ELSE committing
  BY DEF Dies
<1>2. \A q \in Commits : q # None BY PipelineAssumption
<1>3. CASE t = "dispatcher"
  <2>1. Range(ingress') = {} /\ UNCHANGED <<commits, committing>> BY <1>1, <1>3, EmptyQueue, SMTT(20)
  <2>2. ASSUME NEW q \in Range(ingress) \cap Commits
        PROVE  PlaceOf(q) = "queued" /\ PlaceOf(q)' = "dropped"
    <3>1. /\ sent[q] = "accepted" /\ q \notin Range(commits) /\ q \notin settled /\ q # committing
      BY <2>2 DEF PipeInv, EnvelopesApart, Held
    <3>2. ~Waiting(q)' /\ q # committing' /\ ~Unoffered(q)' /\ q \notin settled'
      BY <2>1, <3>1 DEF Waiting, Unoffered
    <3> QED BY <2>2, <3>2 DEF PlacesKnown, Waiting
  <2>3. ASSUME NEW q \in Commits \ (Range(ingress) \cap Commits) PROVE PlaceOf(q)' = PlaceOf(q)
    <3>1. /\ (Waiting(q)' <=> Waiting(q)) /\ ((q = committing)' <=> q = committing)
          /\ (Unoffered(q)' <=> Unoffered(q)) /\ ((q \in settled)' <=> q \in settled)
      BY <2>1, <2>3 DEF Waiting, Unoffered
    <3> QED BY <3>1, StaysPut, SMTT(20)
  <2> QED BY <2>2, <2>3, DropsSome, ZenonT(20)
<1>4. CASE t = "cache"
  <2> DEFINE D == {q \in Commits : q \in Range(commits) \/ q = committing}
  <2>1. Range(commits') = {} /\ committing' = None /\ ingress' = ingress BY <1>1, <1>4, EmptyQueue, SMTT(20)
  <2>2. ASSUME NEW q \in D
        PROVE  PlaceOf(q) \in {"queued", "working"} /\ PlaceOf(q)' = "dropped"
    <3>1. sent[q] = "accepted" /\ q \notin Range(ingress) /\ q \notin settled
      BY <1>2, <2>2 DEF PipeInv, EnvelopesApart, Held
    <3>2. ~Waiting(q)' /\ q # committing' /\ ~Unoffered(q)' /\ q \notin settled'
      BY <1>2, <2>1, <3>1 DEF Waiting, Unoffered
    <3> QED BY <2>2, <3>2, SMTT(20) DEF PlacesKnown, Waiting
  <2>3. ASSUME NEW q \in Commits \ D PROVE PlaceOf(q)' = PlaceOf(q)
    <3>1. /\ (Waiting(q)' <=> Waiting(q)) /\ ((q = committing)' <=> q = committing)
          /\ (Unoffered(q)' <=> Unoffered(q)) /\ ((q \in settled)' <=> q \in settled)
      BY <1>2, <2>1, <2>3 DEF Waiting, Unoffered
    <3> QED BY <3>1, StaysPut
  <2> QED BY <2>2, <2>3, DropsSome, ZenonT(20)
<1>5. CASE t = "detail"
  <2>1. UNCHANGED <<ingress, commits, committing>> BY <1>1, <1>5
  <2>2. ASSUME NEW q \in Commits PROVE PlaceOf(q)' = PlaceOf(q)
    <3>1. /\ (Waiting(q)' <=> Waiting(q)) /\ ((q = committing)' <=> q = committing)
          /\ (Unoffered(q)' <=> Unoffered(q)) /\ ((q \in settled)' <=> q \in settled)
      BY <2>1 DEF Waiting, Unoffered
    <3> QED BY <3>1, StaysPut
  <2> QED BY <2>2, NoPlace DEF HandsOver
<1> QED BY <1>3, <1>4, <1>5 DEF Tasks

\* The other steps move no candidate.
LEMMA HandRest ==
  ASSUME UNCHANGED <<sent, ingress, commits, committing, settled>>
  PROVE  HandsOver
<1>1. \A q \in Commits : PlaceOf(q)' = PlaceOf(q) BY DEF PlaceOf
<1> QED BY <1>1, NoPlace DEF HandsOver

\* A step of the pipeline is a step of the hand-off, or none.
LEMMA HandNext ==
  ASSUME PipeInv, PlacesKnown, PlacesKnown', [Next]_pipe
  PROVE  HandsOver
<1>1. CASE UNCHANGED pipe BY <1>1, HandRest DEF pipe
<1>2. ASSUME NEW r \in Requests, Publish(r) PROVE HandsOver BY <1>2, HandPublish
<1>3. CASE Dispatch BY <1>3, HandDispatch
<1>4. CASE TakeCommit \/ FinishCommit BY <1>4, HandCommit
<1>5. CASE CloseIngress \/ DispatcherEnds \/ CacheWorkerEnds \/ TakeDetail \/ ProjectorEnds
  BY <1>5, HandRest, ZenonT(20) DEF CloseIngress, DispatcherEnds, CacheWorkerEnds, TakeDetail, ProjectorEnds
<1>6. ASSUME NEW r \in Requests, ProjectDetail(r) PROVE HandsOver
  BY <1>6, HandRest DEF ProjectDetail
<1>7. ASSUME NEW t \in Tasks, TaskPanics(t) \/ AbortTakesEffect(t) PROVE HandsOver
  BY <1>7, HandDies DEF TaskPanics, AbortTakesEffect
<1>8. CASE Stop \/ Cancel \/ DeadlineExpires
  BY <1>8, HandRest DEF Stop, Cancel, DeadlineExpires
<1>9. ASSUME NEW t \in Tasks, AwaitTask(t) PROVE HandsOver BY <1>9, HandRest DEF AwaitTask
<1> QED BY <1>1, <1>2, <1>3, <1>4, <1>5, <1>6, <1>7, <1>8, <1>9, SMTT(20) DEF Next, Work, Await

\* ResolutionRuntime implements the hand-off that the cache relies on (CommitHandoff):
\* a candidate moves forward only, is committed at most once, and is otherwise
\* dropped, whatever the queues, aborts and panics do.
THEOREM PipelineIsHandoff == Spec => IsHandoff
<1>1. Init => Handoff!Init
  <2> SUFFICES ASSUME Init PROVE Handoff!Init OBVIOUS
  <2>1. PipeInv /\ PlacesKnown BY PipeInit, PlacesHold
  <2>2. \A r \in Commits : PlaceOf(r) = "none"
    BY <2>1, PipelineAssumption, ZenonT(20) DEF Init, PlacesKnown, Unoffered
  <2> QED BY <2>2 DEF Handoff!Init
<1>2. PipeInv /\ PlacesKnown /\ PlacesKnown' /\ [Next]_pipe
        => [Handoff!Next]_([r \in Commits |-> PlaceOf(r)])
  BY HandNext DEF HandsOver, PlaceMap
<1> QED BY <1>1, <1>2, PipeInvariant, PlacesHold, PTL DEF Spec, IsHandoff, Handoff!Spec
===============================================================================
