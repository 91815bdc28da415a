---------------------------- MODULE ServingProofs ----------------------------
(***************************************************************************)
(* The properties of Serving for any number of connections, slots, sources *)
(* and tokens, in both deployments.                                        *)
(***************************************************************************)
EXTENDS Serving, FiniteSetTheorems, TLAPS

USE DEF program, limiter, lookup, saving, window, Rest, Others, Unmoved

LEMMA LevelType ==
    /\ Capacity \in Nat /\ Cost <= Capacity
    /\ \A n \in Nat : n * Rate \in Nat /\ Rate * n = n * Rate /\ n * Cost \in Nat
BY RateAssumption DEF Capacity

LEMMA RefilledType ==
    ASSUME TypeOK
    PROVE  /\ Refilled \in 0..Capacity
           /\ Refilled <= tokens + Rate * (clock - last)
<1>1. /\ clock - last \in Nat /\ tokens \in Nat /\ Capacity \in Nat
      /\ (clock - last) * Rate \in Nat /\ Rate * (clock - last) = (clock - last) * Rate
  <2>1. clock \in Nat /\ last \in Nat /\ last <= clock /\ tokens \in Nat
    BY LevelType, TimeAssumption DEF TypeOK
  <2>2. clock - last \in Nat
    BY <2>1
  <2> QED BY <2>1, <2>2, LevelType
<1> DEFINE gain == (clock - last) * Rate
           full == Capacity
           room == tokens
<1>2. gain \in Nat /\ full \in Nat /\ room \in Nat
  BY <1>1
<1>3. Refilled = (IF room + gain < full THEN room + gain ELSE full)
  BY DEF Refilled, Least
<1> HIDE DEF gain, full, room
<1>4. Refilled \in 0..full /\ Refilled <= room + gain
  BY <1>2, <1>3
<1> QED BY <1>1, <1>4 DEF gain, full, room

LEMMA CloseOrderType ==
    /\ \A d \in Deployments : Len(CloseOrder(d)) \in {3, 6}
    /\ Len(CloseOrder("selfhost")) = 6
BY DEF CloseOrder, Deployments

LEMMA TypeInit == Init => TypeOK
<1> SUFFICES ASSUME Init PROVE TypeOK
  OBVIOUS
<1>1. Capacity \in 0..Capacity /\ Capacity \in Nat
  BY LevelType
<1>2. <<>> \in Seq(SUBSET Sources) /\ Len(<<>>) <= QueueSize
  BY LimitAssumption
<1>3. 0 \in 0..6 /\ 0 <= Len(CloseOrder(deployment))
  BY CloseOrderType DEF Init
<1> QED BY <1>1, <1>2, <1>3, TimeAssumption DEF Init, TypeOK, Phases, States, Origins, Nothing

LEMMA GoesType ==
    ASSUME TypeOK, NEW r \in Requests, NEW from, NEW to \in States, Goes(r, from, to)
    PROVE  pc' \in [Requests -> States]
BY DEF TypeOK, Goes

LEMMA DecideType ==
    ASSUME TypeOK, NEW r \in Requests, NEW from, NEW records \in [Sources -> Origins],
           Decide(r, from, records)
    PROVE  TypeOK'
<1>1. {"answered", "upstream"} \subseteq States
  BY DEF States
<1>2. pc' \in [Requests -> States]
  BY <1>1, GoesType DEF Decide
<1>3. found' \in [Requests -> [Sources -> Origins]] /\ based' \in [Requests -> SUBSET Sources]
  BY DEF TypeOK, Decide
<1> QED BY <1>2, <1>3 DEF TypeOK, Decide

LEMMA SaveType ==
    ASSUME TypeOK, NEW batch \in SUBSET Sources, SaveBatch(batch)
    PROVE  stored' \in SUBSET Sources
BY DEF TypeOK, SaveBatch

LEMMA EnqueueType ==
    ASSUME TypeOK, NEW batch \in SUBSET Sources, Enqueue(batch)
    PROVE  queue' \in Seq(SUBSET Sources) /\ Len(queue') <= QueueSize
<1>1. queue \in Seq(SUBSET Sources) /\ Len(queue) <= QueueSize /\ Len(queue) \in Nat
  BY DEF TypeOK
<1>2. CASE UNCHANGED queue
  BY <1>1, <1>2
<1>3. CASE Len(queue) # QueueSize /\ queue' = Append(queue, batch)
  <2>1. queue' \in Seq(SUBSET Sources) /\ Len(queue') = Len(queue) + 1
    BY <1>1, <1>3
  <2> QED BY <1>1, <1>3, <2>1, LimitAssumption
<1> QED BY <1>2, <1>3 DEF Enqueue

LEMMA TypeKeeps ==
    ASSUME TypeOK, [Next]_vars
    PROVE  TypeOK'
<1> USE DEF TypeOK
<1>1. ASSUME NEW r \in Requests, Allow(r) PROVE TypeOK'
  <2>1. Refilled \in 0..Capacity /\ Capacity \in Nat /\ Cost \in Nat /\ Cost <= Capacity
    BY RefilledType, LevelType, RateAssumption
  <2>2. tokens' \in 0..Capacity
    <3> DEFINE full == Capacity
               now  == Refilled
    <3> HIDE DEF full, now
    <3>1. now \in 0..full /\ full \in Nat
      BY <2>1 DEF full, now
    <3>2. IF now < Cost THEN tokens' = now ELSE tokens' = now - Cost
      BY <1>1 DEF Allow, now
    <3> QED BY <3>1, <3>2, <2>1 DEF full
  <2>3. "allowed" \in States
    BY DEF States
  <2>4. pc' \in [Requests -> States] /\ known' \in [Requests -> SUBSET Sources]
    <3> HIDE DEF States
    <3>1. known' = [known EXCEPT ![r] = stored] \/ known' = known
      BY <1>1 DEF Allow
    <3>2. stored \in SUBSET Sources /\ known \in [Requests -> SUBSET Sources]
      OBVIOUS
    <3>3. known' \in [Requests -> SUBSET Sources]
      BY <3>1, <3>2, Zenon
    <3>4. pc' \in [Requests -> States]
      BY <1>1, <2>3 DEF Allow
    <3> QED BY <3>3, <3>4
  <2>5. count' \in Nat /\ last' = clock /\ clock' = clock
    BY <1>1 DEF Allow
  <2> QED BY <1>1, <2>2, <2>4, <2>5, TimeAssumption DEF Allow
<1>2. ASSUME NEW r \in Requests, Enter(r) PROVE TypeOK'
  <2>1. pc' \in [Requests -> States] /\ slots' \subseteq Requests /\ known' \in [Requests -> SUBSET Sources]
    BY <1>2 DEF Enter, Goes, States
  <2> QED BY <1>2, <2>1 DEF Enter
<1>3. ASSUME NEW r \in Requests, Release(r) PROVE TypeOK'
  BY <1>3 DEF Release, Goes, States, Nothing, Origins
<1>4. ASSUME NEW r \in Requests, ReadBody(r) PROVE TypeOK'
  BY <1>4 DEF ReadBody, Goes, States
<1>5. ASSUME NEW r \in Requests, ReadBaseline(r) PROVE TypeOK'
  <2>1. CASE Decide(r, "base", Nothing)
    <3>1. Nothing \in [Sources -> Origins]
      BY DEF Nothing, Origins
    <3> QED BY <2>1, <3>1, DecideType
  <2>2. CASE Goes(r, "base", "stored") /\ based' = [based EXCEPT ![r] = baseline]
             /\ UNCHANGED <<Rest, found, spam, stored, saving>>
    BY <2>2 DEF Goes, States
  <2> QED BY <1>5, <2>1, <2>2 DEF ReadBaseline
<1>6. ASSUME NEW r \in Requests, ReadStored(r) PROVE TypeOK'
  <2>1. Nothing \in [Sources -> Origins] /\ Merged(r) \in [Sources -> Origins]
    BY DEF Nothing, Merged, Origins
  <2> QED BY <1>6, <2>1, DecideType DEF ReadStored
<1>7. ASSUME NEW r \in Requests, AskUpstream(r) PROVE TypeOK'
  <2>1. PICK answers \in SUBSET {s \in Sources : found[r][s] = "none"}, bad \in SUBSET Sources :
          /\ Goes(r, "upstream", "save")
          /\ found' = [found EXCEPT ![r] = [s \in Sources |-> IF s \in answers THEN "fresh" ELSE @[s]]]
          /\ spam' = [spam EXCEPT ![r] = bad]
          /\ UNCHANGED <<Rest, based, stored, saving>>
    BY <1>7 DEF AskUpstream
  <2>2. found' \in [Requests -> [Sources -> Origins]]
    BY <2>1 DEF Origins
  <2>3. pc' \in [Requests -> States] /\ spam' \in [Requests -> SUBSET Sources]
    BY <2>1 DEF Goes, States
  <2> QED BY <2>1, <2>2, <2>3
<1>8. ASSUME NEW r \in Requests, SaveAndAnswer(r) PROVE TypeOK'
  <2>1. spam[r] \in SUBSET Sources
    OBVIOUS
  <2>2. /\ stored' \in SUBSET Sources
        /\ queue' \in Seq(SUBSET Sources) /\ Len(queue') <= QueueSize
    BY <1>8, <2>1, SaveType, EnqueueType DEF SaveAndAnswer
  <2>3. pc' \in [Requests -> States] /\ spam' \in [Requests -> SUBSET Sources]
    BY <1>8 DEF SaveAndAnswer, Goes, States
  <2> QED BY <1>8, <2>2, <2>3 DEF SaveAndAnswer
<1>9. CASE Receive
  <2>1. Head(queue) \in SUBSET Sources /\ Tail(queue) \in Seq(SUBSET Sources)
        /\ Len(Tail(queue)) <= QueueSize
    BY <1>9, LimitAssumption DEF Receive
  <2> QED BY <1>9, <2>1 DEF Receive
<1>10. CASE WriteBatch
  <2>1. stored' \in SUBSET Sources
    BY <1>10, SaveType DEF WriteBatch
  <2> QED BY <1>10, <2>1 DEF WriteBatch
<1>11. CASE ReplaceBaseline
  BY <1>11 DEF ReplaceBaseline
<1>12. CASE Start \/ LoseListener \/ Signal \/ Exit
  BY <1>12 DEF Start, LoseListener, Signal, Exit, Phase, Phases
<1>13. CASE ClosePart
  <2>1. closed \in Nat /\ closed' = closed + 1 /\ closed < Len(CloseOrder(deployment))
        /\ Len(CloseOrder(deployment)) \in {3, 6}
    BY <1>13, CloseOrderType DEF ClosePart
  <2>2. closed' \in 0..6 /\ closed' <= Len(CloseOrder(deployment))
    <3> DEFINE n == Len(CloseOrder(deployment))
    <3> HIDE DEF TypeOK, n
    <3>1. closed \in Nat /\ closed' = closed + 1 /\ closed < n /\ (n = 3 \/ n = 6)
      BY <2>1 DEF n
    <3>2. closed' \in 0..6 /\ closed' <= n
      BY <3>1
    <3> QED BY <3>2 DEF n
  <2>3. /\ deployment' = deployment /\ phase' = phase
        /\ UNCHANGED <<clock, limiter, pc, lookup, baseline, stored, saving, window, known>>
    BY <1>13 DEF ClosePart
  <2>4. closed' \in 0..6 /\ closed' <= Len(CloseOrder(deployment'))
    <3>1. CloseOrder(deployment') = CloseOrder(deployment)
      BY <2>3
    <3> QED BY <2>2, <3>1
  <2>5. /\ deployment' \in Deployments /\ phase' \in Phases
        /\ clock' \in 0..MaxTime /\ last' \in 0..clock' /\ mark' \in 0..clock'
        /\ tokens' \in 0..Capacity /\ count' \in Nat
    BY <2>3
  <2>6. /\ pc' \in [Requests -> States] /\ slots' \subseteq Requests
        /\ based' \in [Requests -> SUBSET Sources]
        /\ found' \in [Requests -> [Sources -> Origins]]
        /\ spam' \in [Requests -> SUBSET Sources]
        /\ {baseline', stored', inHand'} \subseteq SUBSET Sources
        /\ queue' \in Seq(SUBSET Sources) /\ Len(queue') <= QueueSize
        /\ known' \in [Requests -> SUBSET Sources]
    BY <2>3
  <2> QED BY <2>4, <2>5, <2>6
<1>14. CASE Tick
  BY <1>14, TimeAssumption DEF Tick
<1>15. CASE Watch
  BY <1>15, TimeAssumption DEF Watch
<1>16. CASE UNCHANGED vars
  BY <1>16 DEF vars
<1> QED BY <1>1, <1>2, <1>3, <1>4, <1>5, <1>6, <1>7, <1>8, <1>9, <1>10, <1>11, <1>12, <1>13,
           <1>14, <1>15, <1>16 DEF Next, Step, Handler, Writer

----------------------------------------------------------------------------
(* The bucket: from the moment `mark` on, what was let through and what is *)
(* left come out of a full bucket and what it gained up to `last`.         *)
WindowInv ==
    count # 0 => /\ mark <= last
                 /\ count * Cost + tokens <= Capacity + Rate * (last - mark)

LEMMA GainAdds ==
    ASSUME NEW a \in Nat, NEW b \in Nat
    PROVE  /\ Rate * a \in Nat
           /\ Rate * (a + b) = Rate * a + Rate * b
BY RateAssumption

LEMMA CountGrows ==
    ASSUME NEW n \in Nat
    PROVE  n * Cost \in Nat /\ (n + 1) * Cost = n * Cost + Cost
BY RateAssumption

LEMMA WindowGivesBound == TypeOK /\ WindowInv => RateBound
<1> SUFFICES ASSUME TypeOK, WindowInv PROVE RateBound
  OBVIOUS
<1>1. /\ clock \in Nat /\ last \in Nat /\ mark \in Nat /\ tokens \in Nat /\ count \in Nat
      /\ last <= clock /\ mark <= clock /\ Capacity \in Nat
  BY LevelType, TimeAssumption DEF TypeOK
<1>2. Rate * (clock - mark) \in Nat
  <2>1. clock - mark \in Nat
    BY <1>1
  <2> QED BY <2>1, GainAdds
<1>3. CASE count = 0
  <2>1. count * Cost = 0
    BY <1>3, RateAssumption
  <2> QED BY <2>1, <1>1, <1>2 DEF RateBound
<1>4. CASE count # 0
  <2>1. /\ last - mark \in Nat /\ clock - last \in Nat
        /\ (last - mark) + (clock - last) = clock - mark
    BY <1>1, <1>4 DEF WindowInv
  <2>2. /\ Rate * (last - mark) \in Nat /\ Rate * (clock - last) \in Nat
        /\ Rate * (clock - mark) = Rate * (last - mark) + Rate * (clock - last)
    <3> DEFINE a == last - mark
               b == clock - last
    <3>1. a \in Nat /\ b \in Nat /\ a + b = clock - mark
      BY <2>1
    <3> HIDE DEF a, b
    <3>2. Rate * a \in Nat /\ Rate * b \in Nat /\ Rate * (a + b) = Rate * a + Rate * b
      BY <3>1, GainAdds
    <3> QED BY <3>1, <3>2 DEF a, b
  <2>3. count * Cost \in Nat
    BY <1>1, CountGrows
  <2> DEFINE c == count * Cost
             x == Rate * (last - mark)
             y == Rate * (clock - last)
             z == Rate * (clock - mark)
  <2>4. c + tokens <= Capacity + x
    BY <1>4 DEF WindowInv
  <2>5. c \in Nat /\ x \in Nat /\ y \in Nat /\ z = x + y
    BY <2>2, <2>3
  <2> HIDE DEF c, x, y, z
  <2>6. c <= Capacity + z
    BY <1>1, <2>4, <2>5
  <2> QED BY <2>6 DEF c, z, RateBound
<1> QED BY <1>3, <1>4

(* The one step that spends the bucket. *)
LEMMA AllowKeepsWindow ==
    ASSUME TypeOK, WindowInv, NEW r \in Requests, Allow(r)
    PROVE  WindowInv'
<1>1. /\ clock \in Nat /\ last \in Nat /\ mark \in Nat /\ tokens \in Nat /\ count \in Nat
      /\ last <= clock /\ mark <= clock /\ Capacity \in Nat /\ Cost \in Nat
  BY LevelType, TimeAssumption, RateAssumption DEF TypeOK
<1>2. Refilled \in Nat /\ Refilled <= Capacity /\ Refilled <= tokens + Rate * (clock - last)
  <2>1. Refilled \in 0..Capacity
    BY RefilledType
  <2> QED BY <2>1, <1>1, RefilledType
<1>3. /\ last' = clock /\ mark' = mark
      /\ \/ tokens' = Refilled /\ count' = count
         \/ tokens' = Refilled - Cost /\ count' = count + 1
  BY DEF Allow
<1>4. /\ Rate * (clock - mark) \in Nat /\ Rate * (clock - last) \in Nat
      /\ mark <= last =>
             /\ Rate * (last - mark) \in Nat
             /\ Rate * (clock - mark) = Rate * (last - mark) + Rate * (clock - last)
  <2>1. clock - mark \in Nat /\ clock - last \in Nat
    BY <1>1
  <2>2. ASSUME mark <= last
        PROVE  /\ Rate * (last - mark) \in Nat
               /\ Rate * (clock - mark) = Rate * (last - mark) + Rate * (clock - last)
    <3> DEFINE a == last - mark
               b == clock - last
    <3>1. a \in Nat /\ b \in Nat /\ a + b = clock - mark
      BY <1>1, <2>2
    <3> HIDE DEF a, b
    <3>2. Rate * a \in Nat /\ Rate * b \in Nat /\ Rate * (a + b) = Rate * a + Rate * b
      BY <3>1, GainAdds
    <3> QED BY <3>1, <3>2 DEF a, b
  <2> QED BY <2>1, <2>2, GainAdds
<1> DEFINE c == count * Cost
           x == Rate * (last - mark)
           y == Rate * (clock - last)
           z == Rate * (clock - mark)
           now == Refilled
<1>5. c \in Nat /\ (count + 1) * Cost = c + Cost
  BY <1>1, CountGrows
(* What has been let through, with what is left, before the step. *)
<1>6. c + now <= Capacity + z
  <2>1. y \in Nat /\ z \in Nat /\ (mark <= last => x \in Nat /\ z = x + y)
        /\ now \in Nat /\ now <= Capacity /\ now <= tokens + y
    BY <1>2, <1>4
  <2>2. count = 0 => c = 0
    BY RateAssumption
  <2>3. count # 0 => mark <= last /\ c + tokens <= Capacity + x
    BY DEF WindowInv
  <2> HIDE DEF c, x, y, z, now
  <2> QED BY <1>1, <1>5, <2>1, <2>2, <2>3
<1>7. now \in Nat /\ z \in Nat
  BY <1>2, <1>4
<1>8. CASE tokens' = Refilled /\ count' = count
  <2>1. count' * Cost + tokens' <= Capacity + Rate * (last' - mark')
    BY <1>3, <1>6, <1>8
  <2> QED BY <2>1, <1>1, <1>3 DEF WindowInv
<1>9. CASE tokens' = Refilled - Cost /\ count' = count + 1
  <2>1. count' * Cost = c + Cost /\ tokens' = now - Cost
    BY <1>5, <1>9
  <2>2. (c + Cost) + (now - Cost) = c + now
    <3> HIDE DEF c, now
    <3> QED BY <1>1, <1>5, <1>7
  <2>3. count' * Cost + tokens' <= Capacity + Rate * (last' - mark')
    BY <1>3, <1>6, <2>1, <2>2
  <2> QED BY <2>3, <1>1, <1>3 DEF WindowInv
<1> QED BY <1>3, <1>8, <1>9

LEMMA WindowKeeps ==
    ASSUME TypeOK, WindowInv, [Next]_vars
    PROVE  WindowInv'
<1>1. ASSUME NEW r \in Requests, Allow(r) PROVE WindowInv'
  BY <1>1, AllowKeepsWindow
<1>2. CASE Watch
  BY <1>2 DEF Watch, WindowInv
<1>3. CASE UNCHANGED <<tokens, last, window>>
  BY <1>3 DEF WindowInv
<1>4. ASSUME NEW r \in Requests, ReadBody(r) \/ Step(r)
      PROVE  UNCHANGED <<tokens, last, window>>
  BY <1>4 DEF ReadBody, Step, Enter, Release, Handler, ReadBaseline, ReadStored, Decide,
              AskUpstream, SaveAndAnswer
<1>5. ASSUME Writer \/ ReplaceBaseline \/ Start \/ LoseListener \/ Signal \/ ClosePart \/ Exit
             \/ Tick \/ UNCHANGED vars
      PROVE  UNCHANGED <<tokens, last, window>>
  BY <1>5 DEF Writer, Receive, WriteBatch, ReplaceBaseline, Start, LoseListener, Signal, Phase,
              ClosePart, Exit, Tick, vars
<1> QED BY <1>1, <1>2, <1>3, <1>4, <1>5 DEF Next

----------------------------------------------------------------------------
(* The semaphore. *)
SlotInv ==
    /\ Cardinality(slots) <= MaxConcurrent
    /\ slots = {r \in Requests : InHandler(r)}

LEMMA SlotsGiveLimit == TypeOK /\ SlotInv => SlotLimit
BY DEF SlotInv, SlotLimit

LEMMA SlotKeeps ==
    ASSUME TypeOK, SlotInv, [Next]_vars
    PROVE  SlotInv'
<1>1. IsFiniteSet(slots) /\ Cardinality(slots) \in Nat
  BY RequestsAssumption, FS_Subset, FS_CardinalityType DEF TypeOK
<1>2. pc \in [Requests -> States]
  BY DEF TypeOK
<1>3. ASSUME NEW r \in Requests, Enter(r) PROVE SlotInv'
  <2>1. CASE SlotFree /\ Goes(r, "allowed", "body") /\ slots' = slots \cup {r}
    <3>1. Cardinality(slots') <= Cardinality(slots) + 1
      BY <1>1, <2>1, FS_AddElement
    <3>2. Cardinality(slots') <= MaxConcurrent
      <4>1. Cardinality(slots') \in Nat
        BY <1>1, <2>1, FS_AddElement, FS_CardinalityType
      <4> QED BY <1>1, <2>1, <3>1, <4>1, LimitAssumption DEF SlotFree
    <3>3. slots' = {o \in Requests : InHandler(o)}'
      BY <1>2, <2>1 DEF SlotInv, InHandler, Goes
    <3> QED BY <3>2, <3>3 DEF SlotInv
  <2>2. CASE Goes(r, "allowed", "idle") /\ UNCHANGED slots
    BY <1>2, <2>2 DEF SlotInv, InHandler, Goes
  <2> QED BY <1>3, <2>1, <2>2 DEF Enter
<1>4. ASSUME NEW r \in Requests, Release(r) PROVE SlotInv'
  <2>1. Cardinality(slots') <= Cardinality(slots) /\ Cardinality(slots') \in Nat
    <3>1. slots' = slots \ {r}
      BY <1>4 DEF Release
    <3>2. IsFiniteSet(slots \ {r}) /\ Cardinality(slots \ {r}) \in Nat
      BY <1>1, FS_RemoveElement, FS_CardinalityType
    <3>3. Cardinality(slots \ {r}) = IF r \in slots THEN Cardinality(slots) - 1 ELSE Cardinality(slots)
      BY <1>1, FS_RemoveElement
    <3> QED BY <1>1, <3>1, <3>2, <3>3
  <2>2. Cardinality(slots') <= MaxConcurrent
    BY <1>1, <2>1, LimitAssumption DEF SlotInv
  <2>3. slots' = {o \in Requests : InHandler(o)}'
    <3>1. \A o \in Requests : InHandler(o)' <=> InHandler(o) /\ o # r
      BY <1>2, <1>4 DEF InHandler, Release, Goes
    <3> QED BY <1>4, <3>1 DEF SlotInv, Release
  <2> QED BY <2>2, <2>3 DEF SlotInv
(* Every other step of a request stays on its side of the semaphore. *)
<1>5. ASSUME NEW r \in Requests, NEW from, NEW to, pc[r] = from, pc' = [pc EXCEPT ![r] = to],
             slots' = slots, from \in {"idle", "allowed"} <=> to \in {"idle", "allowed"}
      PROVE  SlotInv'
  <2>1. \A o \in Requests : InHandler(o)' <=> InHandler(o)
    BY <1>2, <1>5 DEF InHandler
  <2> QED BY <1>5, <2>1 DEF SlotInv
<1>6. ASSUME NEW r \in Requests, Allow(r) PROVE SlotInv'
  BY <1>2, <1>6 DEF Allow, SlotInv, InHandler
<1>7. ASSUME NEW r \in Requests, ReadBody(r) PROVE SlotInv'
  BY <1>5, <1>7 DEF ReadBody, Goes
<1>8. ASSUME NEW r \in Requests, Handler(r) PROVE SlotInv'
  BY <1>5, <1>8 DEF Handler, ReadBaseline, ReadStored, Decide, AskUpstream, SaveAndAnswer, Goes
<1>9. ASSUME UNCHANGED <<pc, slots>> PROVE SlotInv'
  BY <1>9 DEF SlotInv, InHandler
<1>10. ASSUME Writer \/ ReplaceBaseline \/ Start \/ LoseListener \/ Signal \/ ClosePart \/ Exit
              \/ Tick \/ Watch \/ UNCHANGED vars
       PROVE  UNCHANGED <<pc, slots>>
  BY <1>10 DEF Writer, Receive, WriteBatch, ReplaceBaseline, Start, LoseListener, Signal, Phase,
               ClosePart, Exit, Tick, Watch, vars
<1> QED BY <1>3, <1>4, <1>6, <1>7, <1>8, <1>9, <1>10 DEF Next, Step

----------------------------------------------------------------------------
(* The records of a lookup. *)
FoundInv ==
    \A r \in Requests :
        /\ pc[r] \in {"idle", "allowed", "body", "base", "stored"} => found[r] = Nothing
        /\ known[r] \subseteq stored
        /\ \A s \in known[r] : found[r][s] # "base"

LEMMA FoundGives == FoundInv => StoredWins
BY DEF FoundInv, StoredWins

LEMMA NothingIsNone == \A s \in Sources : Nothing[s] = "none"
BY DEF Nothing

LEMMA DecideKeepsFound ==
    ASSUME TypeOK, FoundInv, NEW r \in Requests, NEW from, NEW records \in [Sources -> Origins],
           Decide(r, from, records), \A s \in known[r] : records[s] # "base"
    PROVE  FoundInv'
<1>1. /\ found' = [found EXCEPT ![r] = records]
      /\ known' = known /\ stored' = stored /\ known \in [Requests -> SUBSET Sources]
      /\ \/ pc' = [pc EXCEPT ![r] = "answered"]
         \/ pc' = [pc EXCEPT ![r] = "upstream"]
      /\ pc \in [Requests -> States]
      /\ found \in [Requests -> [Sources -> Origins]]
  BY DEF Decide, Goes, TypeOK
<1> QED BY <1>1 DEF FoundInv

LEMMA FoundKeeps ==
    ASSUME TypeOK, FoundInv, [Next]_vars
    PROVE  FoundInv'
<1>0. /\ pc \in [Requests -> States]
      /\ found \in [Requests -> [Sources -> Origins]]
      /\ known \in [Requests -> SUBSET Sources] /\ stored \subseteq Sources
  BY DEF TypeOK
<1>1. ASSUME NEW r \in Requests, Allow(r) PROVE FoundInv'
  <2>1. /\ UNCHANGED <<found, stored>> /\ pc[r] = "idle"
        /\ \/ UNCHANGED <<pc, known>>
           \/ pc' = [pc EXCEPT ![r] = "allowed"] /\ known' = [known EXCEPT ![r] = stored]
    BY <1>1 DEF Allow
  <2> QED BY <1>0, <2>1, NothingIsNone DEF FoundInv
<1>2. ASSUME NEW r \in Requests, Enter(r) PROVE FoundInv'
  BY <1>0, <1>2 DEF Enter, Goes, FoundInv
<1>3. ASSUME NEW r \in Requests, Release(r) PROVE FoundInv'
  <2>1. /\ pc' = [pc EXCEPT ![r] = "idle"] /\ found' = [found EXCEPT ![r] = Nothing]
        /\ known' = [known EXCEPT ![r] = {}] /\ UNCHANGED stored
    BY <1>3 DEF Release, Goes
  <2> QED BY <1>0, <2>1 DEF FoundInv
<1>4. ASSUME NEW r \in Requests, ReadBody(r) PROVE FoundInv'
  <2>1. /\ UNCHANGED <<found, stored, known>> /\ found[r] = Nothing /\ pc[r] = "body"
        /\ \/ pc' = [pc EXCEPT ![r] = IF deployment = "selfhost" THEN "base" ELSE "stored"]
           \/ pc' = [pc EXCEPT ![r] = "answered"]
    BY <1>4 DEF ReadBody, Goes, FoundInv
  <2> QED BY <1>0, <2>1, NothingIsNone DEF FoundInv
<1>5. ASSUME NEW r \in Requests, ReadBaseline(r) PROVE FoundInv'
  <2>1. CASE Decide(r, "base", Nothing)
    <3>1. Nothing \in [Sources -> Origins] /\ \A s \in known[r] : Nothing[s] # "base"
      BY <1>0 DEF Nothing, Origins
    <3> QED BY <2>1, <3>1, DecideKeepsFound
  <2>2. CASE Goes(r, "base", "stored") /\ UNCHANGED <<Rest, found, stored>>
    BY <1>0, <2>2 DEF Goes, FoundInv
  <2> QED BY <1>5, <2>1, <2>2 DEF ReadBaseline
<1>6. ASSUME NEW r \in Requests, ReadStored(r) PROVE FoundInv'
  <2>1. /\ Nothing \in [Sources -> Origins] /\ \A s \in known[r] : Nothing[s] # "base"
        /\ Merged(r) \in [Sources -> Origins]
    BY <1>0 DEF Nothing, Merged, Origins
  <2>2. \A s \in known[r] : Merged(r)[s] # "base"
    BY <1>0 DEF FoundInv, Merged
  <2> QED BY <1>6, <2>1, <2>2, DecideKeepsFound DEF ReadStored
<1>7. ASSUME NEW r \in Requests, AskUpstream(r) PROVE FoundInv'
  <2>1. PICK answers \in SUBSET {s \in Sources : found[r][s] = "none"} :
          /\ Goes(r, "upstream", "save")
          /\ found' = [found EXCEPT ![r] = [s \in Sources |-> IF s \in answers THEN "fresh" ELSE @[s]]]
          /\ UNCHANGED <<known, stored>>
    BY <1>7 DEF AskUpstream
  <2> QED BY <1>0, <2>1 DEF Goes, FoundInv
<1>8. ASSUME NEW r \in Requests, SaveAndAnswer(r) PROVE FoundInv'
  <2>1. /\ UNCHANGED <<found, known>> /\ stored \subseteq stored' /\ pc[r] = "save"
        /\ pc' = [pc EXCEPT ![r] = "answered"]
    BY <1>8 DEF SaveAndAnswer, Goes, SaveBatch
  <2> QED BY <1>0, <2>1 DEF FoundInv
<1>9. ASSUME UNCHANGED <<pc, found, known>>, stored \subseteq stored' PROVE FoundInv'
  BY <1>9 DEF FoundInv
<1>10. ASSUME Writer \/ ReplaceBaseline \/ Start \/ LoseListener \/ Signal \/ ClosePart \/ Exit
              \/ Tick \/ Watch \/ UNCHANGED vars
       PROVE  UNCHANGED <<pc, found, known>> /\ stored \subseteq stored'
  BY <1>10 DEF Writer, Receive, WriteBatch, SaveBatch, ReplaceBaseline, Start, LoseListener, Signal,
               Phase, ClosePart, Exit, Tick, Watch, vars
<1> QED BY <1>1, <1>2, <1>3, <1>4, <1>5, <1>6, <1>7, <1>8, <1>9, <1>10 DEF Next, Step, Handler

----------------------------------------------------------------------------
(* The order of closing: what a part that is closed has left behind. *)
CloseInv ==
    /\ closed # 0 => phase \in {"stopping", "ended"}
    /\ deployment = "selfhost" =>
           /\ closed # 0 => AllIdle
           /\ closed \in 4..6 => Drained

LEMMA ClosedParts ==
    ASSUME TypeOK, deployment = "selfhost"
    PROVE  /\ IsClosed("baseline") => closed \in 5..6
           /\ IsClosed("runtime") => closed = 6
BY DEF TypeOK, IsClosed, CloseOrder

LEMMA CloseGives == TypeOK /\ CloseInv => NoUseAfterClose
BY ClosedParts DEF CloseInv, NoUseAfterClose

LEMMA CloseKeeps ==
    ASSUME TypeOK, CloseInv, [Next]_vars
    PROVE  CloseInv'
<1>0. pc \in [Requests -> States] /\ closed \in 0..6
  BY DEF TypeOK
<1>1. ASSUME NEW r \in Requests, Allow(r) PROVE CloseInv'
  BY <1>0, <1>1 DEF Allow, CloseInv
(* No handler runs once the server is closed. *)
<1>2. ASSUME NEW r \in Requests, pc[r] # "idle", UNCHANGED program
      PROVE  CloseInv'
  BY <1>0, <1>2 DEF CloseInv, AllIdle
<1>3. ASSUME NEW r \in Requests, ReadBody(r) \/ Step(r) PROVE CloseInv'
  <2>1. pc[r] # "idle" /\ UNCHANGED program
    BY <1>3 DEF ReadBody, Step, Enter, Release, Handler, ReadBaseline, ReadStored, Decide,
                AskUpstream, SaveAndAnswer, Goes
  <2> QED BY <2>1, <1>2
<1>4. CASE Writer
  BY <1>4 DEF Writer, Receive, WriteBatch, CloseInv, AllIdle, Drained
<1>5. CASE ClosePart
  <2>1. /\ phase = "stopping" /\ closed' = closed + 1
        /\ UNCHANGED <<phase, deployment, pc, queue, inHand>>
        /\ MayClose(CloseOrder(deployment)[closed + 1])
    BY <1>5 DEF ClosePart
  <2>2. ASSUME deployment = "selfhost"
        PROVE  (closed = 0 => AllIdle) /\ (closed = 3 => Drained)
    BY <2>1, <2>2 DEF MayClose, CloseOrder
  <2>3. ASSUME deployment = "selfhost"
        PROVE  (closed' # 0 => AllIdle') /\ (closed' \in 4..6 => Drained')
    <3>1. AllIdle' <=> AllIdle
      BY <2>1 DEF AllIdle
    <3>2. Drained' <=> Drained
      BY <2>1 DEF Drained
    <3> QED BY <1>0, <2>1, <2>2, <2>3, <3>1, <3>2 DEF CloseInv
  <2> QED BY <2>1, <2>3 DEF CloseInv
<1>6. CASE Start \/ LoseListener \/ Signal \/ Exit
  BY <1>6 DEF Start, LoseListener, Signal, Exit, Phase, CloseInv, AllIdle, Drained
<1>7. CASE ReplaceBaseline \/ Tick \/ Watch \/ UNCHANGED vars
  BY <1>7 DEF ReplaceBaseline, Tick, Watch, vars, CloseInv, AllIdle, Drained
<1> QED BY <1>1, <1>3, <1>4, <1>5, <1>6, <1>7 DEF Next

----------------------------------------------------------------------------
IInv == TypeOK /\ WindowInv /\ SlotInv /\ FoundInv /\ CloseInv

THEOREM Invariance == Spec => []IInv
<1>1. Init => IInv
  <2> SUFFICES ASSUME Init PROVE IInv
    OBVIOUS
  <2>1. TypeOK
    BY TypeInit
  <2>2. WindowInv
    BY DEF Init, WindowInv
  <2>3. SlotInv
    BY FS_EmptySet, LimitAssumption DEF Init, SlotInv, InHandler
  <2>4. FoundInv
    BY DEF Init, FoundInv, Nothing
  <2>5. CloseInv
    BY DEF Init, CloseInv
  <2> QED BY <2>1, <2>2, <2>3, <2>4, <2>5 DEF IInv
<1>2. IInv /\ [Next]_vars => IInv'
  BY TypeKeeps, WindowKeeps, SlotKeeps, FoundKeeps, CloseKeeps DEF IInv
<1> QED BY <1>1, <1>2, PTL DEF Spec

(* Types (Serving's variables). *)
THEOREM TypeCorrect == Spec => []TypeOK
BY Invariance, PTL DEF IInv

(* The bucket bounds what it lets through, from any moment on, for every   *)
(* rate and burst (ratelimit.go allow).                                    *)
THEOREM RateIsBounded == Spec => []RateBound
<1>1. IInv => RateBound
  BY WindowGivesBound DEF IInv
<1> QED BY <1>1, Invariance, PTL

(* The semaphore bounds the handlers and leaks no slot (ratelimit.go       *)
(* Middleware).                                                            *)
THEOREM SlotsAreLimited == Spec => []SlotLimit
<1>1. IInv => SlotLimit
  BY SlotsGiveLimit DEF IInv
<1> QED BY <1>1, Invariance, PTL

(* A stored record wins over the baseline (overlay.go mergeResults).       *)
THEOREM StoredRecordWins == Spec => []StoredWins
<1>1. IInv => StoredWins
  BY FoundGives DEF IInv
<1> QED BY <1>1, Invariance, PTL

(* The order of App.Close leaves no handler and no batch that uses a       *)
(* closed database.                                                        *)
THEOREM ClosesInOrder == Spec => []NoUseAfterClose
<1>1. IInv => NoUseAfterClose
  BY CloseGives DEF IInv
<1> QED BY <1>1, Invariance, PTL
=============================================================================
