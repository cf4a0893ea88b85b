----------------------- MODULE SnapshotProvidersProofs -----------------------
(* Proofs about SnapshotProviders, for every value of its constants.        *)
EXTENDS SnapshotProviders, SequenceTheorems, TLAPS

----------------------------------------------------------------------------
(* Datasets, and the data of a call.                                        *)

LEMMA WholeType == ASSUME NEW n \in 0..Points PROVE Whole(n) \in Dataset
  BY DEF Whole, Dataset

LEMMA DatasetOfIntegers == ASSUME NEW d \in Dataset PROVE \A a \in 1..Arrays : d[a] \in Int
  BY DEF Dataset

LEMMA DatasetIsSequence ==
  ASSUME NEW d \in Dataset
  PROVE  d \in Seq(0..Points) /\ Len(d) = Arrays
  BY SizesAssumption DEF Dataset

LEMMA WholeFirst == ASSUME NEW n PROVE Whole(n)[1] = n
  BY SizesAssumption DEF Whole

LEMMA SequenceIsDataset ==
  ASSUME NEW d \in Seq(0..Points), Len(d) = Arrays
  PROVE  d \in Dataset
  BY LenProperties DEF Dataset

LEMMA Reading ==
  ASSUME TypeOK, CallsAreShaped, NEW w \in Workers, pc[w] = "reading"
  PROVE  LET read == Append(loaded[w], stored[Len(loaded[w]) + 1])
         IN  /\ read \in Seq(0..Points) /\ Len(read) = Len(loaded[w]) + 1 /\ Len(read) <= Arrays
             /\ \A a \in 1..Len(loaded[w]) : read[a] = loaded[w][a]
             /\ read[Len(read)] = stored[Len(read)]
             /\ Len(read) = Arrays => read \in Dataset
  <1> DEFINE read == Append(loaded[w], stored[Len(loaded[w]) + 1])
  <1>1. loaded[w] \in Seq(0..Points) /\ Len(loaded[w]) \in Nat /\ Len(loaded[w]) + 1 \in 1..Arrays
    BY SizesAssumption DEF TypeOK, CallsAreShaped
  <1>2. stored[Len(loaded[w]) + 1] \in 0..Points
    BY <1>1 DEF TypeOK, Dataset
  <1>3. read \in Seq(0..Points) /\ Len(read) = Len(loaded[w]) + 1
    BY <1>1, <1>2
  <1>4. \A a \in 1..Len(loaded[w]) : read[a] = loaded[w][a]
    BY <1>1, <1>2
  <1>5. read[Len(read)] = stored[Len(read)]
    BY <1>1, <1>2, <1>3
  <1>6. Len(read) = Arrays => read \in Dataset
    BY <1>3, SequenceIsDataset
  <1> QED BY <1>1, <1>3, <1>4, <1>5, <1>6

----------------------------------------------------------------------------
(* Type correctness, with what a call has read at each place.               *)

LEMMA InitShaped == Init => Shaped
  <1> SUFFICES ASSUME Init PROVE Shaped
    OBVIOUS
  <1>1. Whole(0) \in Dataset /\ stored \in Dataset
    BY WholeType, SizesAssumption DEF Init
  <1>2. stored = Whole(stored[1])
    BY WholeFirst DEF Init
  <1>3. \A w \in Workers : loaded[w] = <<>> /\ pc[w] = "idle"
    BY DEF Init
  <1>4. /\ now \in Clock /\ lastAdd \in Clock /\ asOf \in Clock
        /\ refresh \in [now : Clock, snapshot : Dataset, asOf : Clock]
    BY <1>1, SizesAssumption DEF Init, Clock, NoRefresh
  <1>5. loaded \in [Workers -> Seq(0..Points)] /\ \A w \in Workers : Len(loaded[w]) <= Arrays
    BY SizesAssumption DEF Init
  <1>6. TypeOK
    BY <1>1, <1>4, <1>5, SizesAssumption DEF Init, TypeOK
  <1> QED
    BY <1>2, <1>3, <1>6 DEF Shaped, CallsAreShaped

LEMMA MeasureShaped ==
  ASSUME Shaped, Measure PROVE Shaped'
  <1> USE SizesAssumption DEF Shaped, TypeOK, CallsAreShaped, Clock
  <1>1. CASE prepare
    BY <1>1 DEF prepare, Refresh, run, cache, course, calls
  <1>2. CASE add_result
    <2>1. stored[1] + 1 \in 0..Points
      <3>1. stored[1] \in 0..Points
        BY DEF Dataset
      <3>2. stored = Whole(stored[1]) /\ stored # Whole(Points)
        BY <1>2 DEF add_result
      <3> QED BY <3>1, <3>2
    <2>2. stored' \in Dataset /\ stored' = Whole(stored'[1])
      BY <1>2, <2>1, WholeType, WholeFirst DEF add_result
    <2> QED BY <1>2, <2>2 DEF add_result, Refresh, cache, course, calls
  <1>3. CASE Finish
    BY <1>3 DEF Finish, Refresh, run, cache, calls
  <1>4. CASE FlushAndRead
    BY <1>4 DEF FlushAndRead, run, cache, course, calls
  <1>5. CASE Publish
    <2>1. /\ snapshot' \in Dataset /\ last_refresh' \in Clock /\ asOf' \in Clock
          /\ refresh' = NoRefresh /\ published' = TRUE /\ failed' = FALSE
          /\ at' \in {"measuring", "done"} /\ UNCHANGED <<run, now, ending, calls>>
      BY <1>5 DEF Publish, Stamp
    <2>2. NoRefresh \in [now : Clock, snapshot : Dataset, asOf : Clock]
      BY WholeType DEF NoRefresh
    <2> QED BY <2>1, <2>2 DEF run, calls
  <1>6. CASE Rewrite
    <2>1. stored' \in Dataset /\ stored' = Whole(stored'[1])
      <3>1. CASE readable
        <4>1. stored' = stored
          BY <1>6, <3>1 DEF Rewrite
        <4>2. stored \in Dataset /\ stored = Whole(stored[1])
          BY <1>6 DEF Rewrite
        <4> QED BY <4>1, <4>2
      <3>2. CASE ~readable
        <4>1. PICK n \in stored[1]..Points : stored' = Whole(n)
          BY <1>6, <3>2 DEF Rewrite
        <4>2. n \in 0..Points
          <5>1. stored[1] \in 0..Points
            BY DEF Dataset
          <5> QED BY <5>1
        <4> QED BY <4>1, <4>2, WholeType, WholeFirst
      <3> QED BY <3>1, <3>2
    <2> QED BY <1>6, <2>1 DEF Rewrite, cache, measuring, course, calls
  <1>7. ASSUME NEW a \in 1..Arrays, WriteArray(a) PROVE Shaped'
    <2>1. stored' \in Dataset
      <3>1. stored[a] + 1 \in 0..Points
        <4>1. stored[a] \in 0..Points
          BY DEF Dataset
        <4>2. stored[a] < Points
          BY <1>7 DEF WriteArray
        <4> QED BY <4>1, <4>2
      <3> QED BY <1>7, <3>1 DEF WriteArray, Dataset
    <2> QED BY <1>7, <2>1 DEF WriteArray, cache, measuring, course, calls
  <1>8. CASE add_resultRaises
    BY <1>8 DEF add_resultRaises, run, cache, course, calls
  <1>9. CASE FlushRaises
    <2>1. NoRefresh \in [now : Clock, snapshot : Dataset, asOf : Clock]
      BY WholeType DEF NoRefresh
    <2> QED BY <1>9, <2>1 DEF FlushRaises, run, cache, calls
  <1> QED BY <1>1, <1>2, <1>3, <1>4, <1>5, <1>6, <1>7, <1>8, <1>9 DEF Measure

LEMMA ProvideShaped ==
  ASSUME Shaped, NEW w \in Workers, Provide(w) PROVE Shaped'
  <1> USE SizesAssumption DEF Shaped
  <1>1. CASE Call(w)
    BY <1>1 DEF Call, TypeOK, CallsAreShaped, Clock, run, cache, measuring, course
  <1>2. CASE Load(w)
    <2>1. stored \in Seq(0..Points) /\ Len(stored) = Arrays
      BY DatasetIsSequence DEF TypeOK
    <2>2. /\ kind = "quantify" /\ snapshot' = snapshot
          /\ Go(w, "assigning", stored) \/ Go(w, "returning", <<>>)
      BY <1>2 DEF Load
    <2>3. CASE Go(w, "assigning", stored)
      BY <2>1, <2>2, <2>3 DEF Go, TypeOK, CallsAreShaped, Clock, run, measuring, course
    <2>4. CASE Go(w, "returning", <<>>)
      BY <2>2, <2>4 DEF Go, TypeOK, CallsAreShaped, Clock, run, measuring, course
    <2> QED BY <2>2, <2>3, <2>4
  <1>3. CASE Assign(w)
    BY <1>3 DEF Assign, Go, TypeOK, CallsAreShaped, Clock, run, measuring, course
  <1>4. CASE LoadArray(w)
    <2> DEFINE read == Append(loaded[w], stored[Len(loaded[w]) + 1])
    <2>1. pc[w] = "reading" /\ kind = "qanary"
      BY <1>4 DEF LoadArray
    <2>2. /\ read \in Seq(0..Points) /\ Len(read) <= Arrays
          /\ Len(read) = Arrays => read \in Dataset
      BY <2>1, Reading
    <2>3. Len(read) \in Nat
      BY <2>2
    <2>4. Go(w, IF Len(read) = Arrays THEN "returning" ELSE "reading", read)
          /\ snapshot' = snapshot
      BY <1>4 DEF LoadArray
    <2> HIDE DEF read
    <2> QED BY <2>1, <2>2, <2>3, <2>4 DEF Go, TypeOK, CallsAreShaped, Clock, run, measuring, course
  <1>5. CASE Return(w)
    <2>1. Answer(w) \in Dataset
      BY <1>5 DEF Return, Answer, TypeOK, CallsAreShaped
    <2>2. newest' \in Dataset
      BY <1>5, <2>1 DEF Return, TypeOK, Dataset
    <2> QED
      BY <1>5, <2>1, <2>2 DEF Return, TypeOK, CallsAreShaped, Clock, run, cache, measuring, course
  <1> QED BY <1>1, <1>2, <1>3, <1>4, <1>5 DEF Provide

LEMMA StepShaped == Shaped /\ [Next]_vars => Shaped'
  <1> SUFFICES ASSUME Shaped, [Next]_vars PROVE Shaped'
    OBVIOUS
  <1>1. CASE Measure
    BY <1>1, MeasureShaped
  <1>2. CASE Tick
    BY <1>2, SizesAssumption
       DEF Shaped, TypeOK, CallsAreShaped, Clock, Tick, run, cache, measuring, course, calls
  <1>3. ASSUME NEW w \in Workers, Provide(w) PROVE Shaped'
    BY <1>3, ProvideShaped
  <1>4. CASE UNCHANGED vars
    BY <1>4 DEF Shaped, TypeOK, CallsAreShaped, vars, run, cache, measuring, course, calls
  <1> QED BY <1>1, <1>2, <1>3, <1>4 DEF Next

(* Every variable has its type in every behaviour: a provider only caches   *)
(* and returns whole datasets.                                              *)
THEOREM TypeCorrect == Spec => []TypeOK
  <1>1. Spec => []Shaped
    BY InitShaped, StepShaped, PTL DEF Spec
  <1> QED BY <1>1, PTL DEF Shaped

----------------------------------------------------------------------------
(* What is cached, read and returned.                                       *)

LEMMA AtLeastSelf == ASSUME NEW d \in Dataset PROVE AtLeast(d, d)
  BY DEF AtLeast, Dataset

LEMMA AtLeastTransitive ==
  ASSUME NEW d \in Dataset, NEW e \in Dataset, NEW f \in Dataset, AtLeast(d, e), AtLeast(e, f)
  PROVE  AtLeast(d, f)
  <1>1. \A a \in 1..Arrays : d[a] \in Int /\ e[a] \in Int /\ f[a] \in Int
    BY DEF Dataset
  <1> QED BY <1>1 DEF AtLeast

LEMMA StoredGrows == ASSUME Shaped, Measure PROVE AtLeast(stored', stored)
  <1> USE DEF Shaped, TypeOK
  <1>1. CASE stored' = stored
    BY <1>1, AtLeastSelf
  <1>2. CASE add_result
    <2>1. PICK n \in Int : stored = Whole(n) /\ stored' = Whole(n + 1)
      BY <1>2, SizesAssumption DEF add_result, Dataset
    <2> QED BY <2>1 DEF Whole, AtLeast
  <1>3. CASE Rewrite
    <2>1. CASE readable
      <3>1. stored' = stored
        BY <1>3, <2>1 DEF Rewrite
      <3> QED BY <3>1, AtLeastSelf
    <2>2. CASE ~readable
      <3>1. PICK n \in stored[1]..Points : stored' = Whole(n)
        BY <1>3, <2>2 DEF Rewrite
      <3>2. PICK m \in Int : stored = Whole(m) /\ n \in Int /\ n >= m
        BY <1>3, <3>1, SizesAssumption DEF Rewrite, Dataset
      <3> QED BY <3>1, <3>2 DEF Whole, AtLeast
    <2> QED BY <2>1, <2>2
  <1>4. ASSUME NEW a \in 1..Arrays, WriteArray(a) PROVE AtLeast(stored', stored)
    <2>1. stored' = [stored EXCEPT ![a] = stored[a] + 1]
      BY <1>4 DEF WriteArray
    <2>2. stored \in Dataset /\ \A b \in 1..Arrays : stored[b] \in Int
      BY DatasetOfIntegers
    <2> HIDE DEF Shaped, TypeOK
    <2> QED BY <2>1, <2>2 DEF AtLeast, Dataset
  <1> QED
    BY <1>1, <1>2, <1>3, <1>4
       DEF Measure, prepare, add_resultRaises, Finish, FlushAndRead, FlushRaises, Publish, run

LEMMA InitRecorded == Init => ProvidersInvariant
  <1> SUFFICES ASSUME Init PROVE ProvidersInvariant
    OBVIOUS
  <1>1. Shaped
    BY InitShaped
  <1>2. /\ \A d \in Dataset : AtLeast(d, Whole(0))
        /\ \A w \in Workers : Len(loaded[w]) = 0
    <2>1. ASSUME NEW d \in Dataset, NEW a \in 1..Arrays PROVE d[a] >= Whole(0)[a]
      BY DEF Dataset, Whole
    <2>2. ASSUME NEW w \in Workers PROVE Len(loaded[w]) = 0
      BY DEF Init
    <2> QED BY <2>1, <2>2 DEF AtLeast
  <1>3. Whole(0) \in Dataset
    BY WholeType, SizesAssumption
  <1>4. OnlyRecorded
    BY <1>1, <1>2, <1>3 DEF Init, OnlyRecorded, Shaped, TypeOK
  <1>5. NothingIsLost /\ NeverGoesBack
    BY <1>2, <1>3 DEF Init, NothingIsLost, NeverGoesBack
  <1>6. RefreshIsRecent
    <2>1. /\ at = (IF kind = "qcodes" THEN "unpublished" ELSE "measuring")
          /\ published <=> kind # "qcodes"
          /\ ~ending /\ now = 0 /\ asOf = 0 /\ refresh.now = 0
      BY DEF Init, NoRefresh
    <2>2. last_refresh <= 0
      BY SizesAssumption DEF Init, Never
    <2> QED BY <2>1, <2>2 DEF RefreshIsRecent
  <1> QED BY <1>1, <1>4, <1>5, <1>6 DEF ProvidersInvariant

LEMMA MeasureRecorded ==
  ASSUME ProvidersInvariant, Measure, Shaped'
  PROVE  OnlyRecorded' /\ NothingIsLost' /\ NeverGoesBack'
  <1> USE DEF ProvidersInvariant
  <1>1. AtLeast(stored', stored) /\ stored \in Dataset /\ stored' \in Dataset
    BY StoredGrows DEF Shaped, TypeOK
  <1>2. UNCHANGED <<kind, calls>>
    BY DEF Measure, prepare, add_result, add_resultRaises, Finish, FlushAndRead, FlushRaises,
           Publish, Rewrite, WriteArray, run
  <1>3. /\ AtLeast(stored', snapshot') /\ AtLeast(snapshot', snapshot)
        /\ kind # "qcodes" => snapshot' = snapshot
    <2>1. CASE snapshot' = snapshot
      BY <1>1, <2>1, AtLeastSelf, AtLeastTransitive DEF OnlyRecorded, Shaped, TypeOK
    <2>2. CASE Publish
      <3>1. snapshot' = stored /\ stored' = stored /\ kind = "qcodes"
        BY <2>2 DEF Publish, RefreshIsRecent, run
      <3> QED BY <1>1, <3>1 DEF OnlyRecorded
    <2> QED
      BY <2>1, <2>2 DEF Measure, prepare, add_result, add_resultRaises, Finish, FlushAndRead,
                        FlushRaises, Rewrite, WriteArray, cache
  <1>4. /\ AtLeast(stored', newest)
        /\ AtLeast(snapshot, newest) => AtLeast(snapshot', newest)
    BY <1>1, <1>3, AtLeastTransitive DEF OnlyRecorded, Shaped, TypeOK
  <1>5. \A w \in Workers : \A a \in 1..Len(loaded[w]) : loaded[w][a] <= stored'[a]
    <2> SUFFICES ASSUME NEW w \in Workers, NEW a \in 1..Len(loaded[w])
                 PROVE  loaded[w][a] <= stored'[a]
      OBVIOUS
    <2>1. a \in 1..Arrays /\ loaded[w][a] \in Int
      BY SizesAssumption, LenProperties DEF Shaped, TypeOK
    <2>2. loaded[w][a] <= stored[a] /\ stored[a] <= stored'[a]
      BY <1>1, <2>1 DEF OnlyRecorded, AtLeast
    <2> QED BY <1>1, <2>1, <2>2 DEF Dataset
  <1>6. OnlyRecorded'
    BY <1>2, <1>3, <1>4, <1>5 DEF OnlyRecorded, Shaped, calls
  <1>7. NothingIsLost' /\ NeverGoesBack'
    BY <1>2, <1>3, <1>4 DEF NothingIsLost, NeverGoesBack, calls
  <1> QED BY <1>6, <1>7

LEMMA MeasureRefreshes ==
  ASSUME ProvidersInvariant, Measure, Shaped' PROVE RefreshIsRecent'
  <1> USE SizesAssumption
      DEF ProvidersInvariant, Shaped, TypeOK, Clock, Never, RefreshIsRecent
  <1>1. CASE prepare
    BY <1>1 DEF prepare, Refresh, run, cache, course
  <1>2. CASE add_result
    <2>1. /\ kind' = kind /\ lastAdd' = now /\ at = "measuring" /\ published /\ ~ending
          /\ UNCHANGED <<snapshot, last_refresh, asOf, now, ending, published, failed>>
      BY <1>2 DEF add_result, run, cache, course
    <2>2. CASE at' = "measuring" /\ refresh' = refresh /\ now - last_refresh < RefreshInterval
      BY <2>1, <2>2
    <2>3. CASE at' = "refreshing" /\ refresh' = [refresh EXCEPT !.now = now]
      <3>1. refresh'.now = now /\ now \in Int /\ last_refresh' \in Int /\ asOf \in Int
        BY <2>1, <2>3
      <3>2. last_refresh <= asOf /\ asOf <= now /\ (kind # "qcodes" => at = "measuring")
        OBVIOUS
      <3>3. kind = "qcodes"
        BY <1>2 DEF add_result
      <3> HIDE DEF ProvidersInvariant, Shaped, TypeOK
      <3> QED BY <2>1, <2>3, <3>1, <3>2, <3>3
    <2> QED BY <1>2, <2>2, <2>3 DEF add_result, Refresh, Throttled
  <1>3. CASE Finish
    <2>1. /\ UNCHANGED <<run, cache, now, published, failed>> /\ ending' = TRUE
          /\ at = "measuring" /\ kind = "qcodes" /\ published /\ stored = Whole(Points)
      BY <1>3 DEF Finish
    <2>2. CASE at' = "done" /\ refresh' = refresh /\ ~Final
      BY <2>1, <2>2 DEF run, cache
    <2>3. CASE at' = "refreshing" /\ refresh' = [refresh EXCEPT !.now = now]
      <3>1. refresh'.now = now
        BY <2>3
      <3> QED BY <2>1, <2>3, <3>1 DEF run, cache
    <2> QED BY <1>3, <2>2, <2>3 DEF Finish, Refresh
  <1>4. CASE FlushAndRead
    BY <1>4 DEF FlushAndRead, run, cache, course
  <1>5. CASE Publish
    BY <1>5 DEF Publish, run, NoRefresh, Stamp
  <1>6. CASE Rewrite
    BY <1>6 DEF Rewrite, cache, measuring, course
  <1>7. ASSUME NEW a \in 1..Arrays, WriteArray(a) PROVE RefreshIsRecent'
    BY <1>7 DEF WriteArray, cache, measuring, course
  <1>8. CASE add_resultRaises
    BY <1>8 DEF add_resultRaises, run, cache, course
  <1>9. CASE FlushRaises
    BY <1>9 DEF FlushRaises, run, cache, NoRefresh
  <1> QED BY <1>1, <1>2, <1>3, <1>4, <1>5, <1>6, <1>7, <1>8, <1>9 DEF Measure

LEMMA ProvideRefreshes ==
  ASSUME ProvidersInvariant, NEW w \in Workers, Provide(w) PROVE RefreshIsRecent'
  <1>1. CASE snapshot' = snapshot
    BY <1>1 DEF ProvidersInvariant, RefreshIsRecent, Provide, Call, Load, Assign, LoadArray, Go,
                Return, run, cache, measuring, course
  <1>2. CASE Assign(w)
    BY <1>2 DEF ProvidersInvariant, Shaped, CallsAreShaped, RefreshIsRecent, Assign, Go, run,
                measuring, course
  <1> QED BY <1>1, <1>2 DEF Provide, Call, Load, LoadArray, Return, cache

LEMMA CallRecorded ==
  ASSUME ProvidersInvariant, NEW w \in Workers, Call(w), Shaped'
  PROVE  OnlyRecorded' /\ NothingIsLost' /\ NeverGoesBack'
  <1> USE DEF ProvidersInvariant, Shaped, TypeOK
  <1>1. /\ pc[w] = "idle" /\ pc'[w] # "idle" /\ pc'[w] # "assigning"
        /\ \A v \in Workers \ {w} : pc'[v] = pc[v] /\ floor'[v] = floor[v]
        /\ floor'[w] = newest /\ loaded[w] = <<>>
        /\ kind' = kind /\ stored' = stored /\ snapshot' = snapshot /\ newest' = newest
        /\ loaded' = loaded /\ result' = result
        /\ overlapped' = (overlapped \/ \E v \in Workers : pc[v] # "idle")
    BY DEF Call, CallsAreShaped, run, cache
  <1>2. OnlyRecorded'
    BY <1>1, AtLeastSelf DEF OnlyRecorded
  <1>3. NothingIsLost'
    <2>1. \A v \in Workers : \A a \in 1..Len(loaded'[v]) :
             a \in 1..Len(loaded[v]) /\ v # w
      BY <1>1
    <2>2. kind = "quantify" /\ ~overlapped' => \A v \in Workers \ {w} : pc'[v] = "idle"
      BY <1>1
    <2> QED BY <1>1, <2>1, <2>2 DEF NothingIsLost
  <1>4. NeverGoesBack'
    BY <1>1 DEF NeverGoesBack
  <1> QED BY <1>2, <1>3, <1>4

LEMMA LoadRecorded ==
  ASSUME ProvidersInvariant, NEW w \in Workers, Load(w), Shaped'
  PROVE  OnlyRecorded' /\ NothingIsLost' /\ NeverGoesBack'
  <1> USE DEF ProvidersInvariant, Shaped, TypeOK
  <1>1. /\ kind = "quantify" /\ pc[w] = "reading" /\ pc'[w] # "idle"
        /\ \A v \in Workers \ {w} : pc'[v] = pc[v] /\ loaded'[v] = loaded[v]
        /\ \/ pc'[w] = "assigning" /\ loaded'[w] = stored
           \/ pc'[w] = "returning" /\ loaded'[w] = <<>>
        /\ kind' = kind /\ stored' = stored /\ snapshot' = snapshot /\ newest' = newest
        /\ floor' = floor /\ result' = result /\ overlapped' = overlapped
    BY DEF Load, Go, run
  <1>2. \A a \in 1..Len(loaded'[w]) : loaded'[w][a] <= stored[a]
    <2>1. CASE loaded'[w] = stored
      <3>1. Len(stored) = Arrays
        BY DatasetIsSequence
      <3>2. \A a \in 1..Arrays : stored[a] <= stored[a]
        <4>1. \A a \in 1..Arrays : stored[a] \in Int
          BY DatasetOfIntegers
        <4> QED BY <4>1
      <3> QED BY <2>1, <3>1, <3>2
    <2>2. CASE loaded'[w] = <<>>
      BY <2>2
    <2> QED BY <1>1, <2>1, <2>2
  <1>3. OnlyRecorded'
    BY <1>1, <1>2 DEF OnlyRecorded
  <1>4. NothingIsLost'
    BY <1>1 DEF NothingIsLost, OnlyRecorded
  <1>5. NeverGoesBack'
    BY <1>1 DEF NeverGoesBack
  <1> QED BY <1>3, <1>4, <1>5

LEMMA AssignRecorded ==
  ASSUME ProvidersInvariant, NEW w \in Workers, Assign(w), Shaped'
  PROVE  OnlyRecorded' /\ NothingIsLost' /\ NeverGoesBack'
  <1> USE DEF ProvidersInvariant, Shaped, TypeOK
  <1>1. /\ kind = "quantify" /\ pc[w] = "assigning" /\ pc'[w] = "returning"
        /\ \A v \in Workers \ {w} : pc'[v] = pc[v] /\ loaded'[v] = loaded[v]
        /\ loaded'[w] = <<>> /\ loaded[w] \in Dataset
        /\ kind' = kind /\ stored' = stored /\ snapshot' = loaded[w] /\ newest' = newest
        /\ floor' = floor /\ result' = result /\ overlapped' = overlapped
    BY DEF Assign, Go, run, CallsAreShaped
  <1>2. AtLeast(stored, snapshot')
    <2>1. Len(loaded[w]) = Arrays
      BY <1>1, DatasetIsSequence
    <2> QED BY <1>1, <2>1 DEF OnlyRecorded, AtLeast, Dataset
  <1>3. OnlyRecorded'
    <2>1. \A v \in Workers : \A a \in 1..Len(loaded'[v]) : loaded'[v][a] <= stored[a]
      <3> SUFFICES ASSUME NEW v \in Workers
                   PROVE  \A a \in 1..Len(loaded'[v]) : loaded'[v][a] <= stored[a]
        OBVIOUS
      <3>1. CASE v = w
        BY <1>1, <3>1
      <3>2. CASE v # w
        BY <1>1, <3>2 DEF OnlyRecorded
      <3> QED BY <3>1, <3>2
    <2> QED BY <1>1, <1>2, <2>1 DEF OnlyRecorded
  <1>4. NothingIsLost'
    <2> SUFFICES ASSUME ~overlapped PROVE NothingIsLost'
      BY <1>1 DEF NothingIsLost
    <2>1. AtLeast(snapshot', newest)
      BY <1>1, AtLeastTransitive DEF NothingIsLost
    <2>2. \A v \in Workers : pc'[v] # "assigning"
      BY <1>1 DEF NothingIsLost
    <2> QED BY <1>1, <2>1, <2>2 DEF NothingIsLost
  <1>5. NeverGoesBack'
    BY <1>1 DEF NeverGoesBack
  <1> QED BY <1>3, <1>4, <1>5

LEMMA LoadArrayRecorded ==
  ASSUME ProvidersInvariant, NEW w \in Workers, LoadArray(w), Shaped'
  PROVE  OnlyRecorded' /\ NothingIsLost' /\ NeverGoesBack'
  <1> USE DEF ProvidersInvariant, Shaped, TypeOK
  <1> DEFINE read == Append(loaded[w], stored[Len(loaded[w]) + 1])
  <1>1. /\ kind = "qanary" /\ pc[w] = "reading" /\ pc'[w] \in {"reading", "returning"}
        /\ \A v \in Workers \ {w} : pc'[v] = pc[v] /\ loaded'[v] = loaded[v]
        /\ loaded'[w] = read
        /\ kind' = kind /\ stored' = stored /\ snapshot' = snapshot /\ newest' = newest
        /\ floor' = floor /\ result' = result /\ overlapped' = overlapped
    BY DEF LoadArray, Go, run
  <1>2. /\ Len(read) = Len(loaded[w]) + 1 /\ Len(read) \in 1..Arrays
        /\ \A a \in 1..Len(loaded[w]) : read[a] = loaded[w][a]
        /\ read[Len(read)] = stored[Len(read)]
    BY <1>1, Reading, LenProperties, SizesAssumption
  <1> HIDE DEF read
  <1>3. \A a \in 1..Len(read) : a \in 1..Len(loaded[w]) \/ a = Len(read)
    BY <1>2, LenProperties
  <1>4. floor[w][Len(read)] <= stored[Len(read)]
    BY <1>2, AtLeastTransitive DEF OnlyRecorded, AtLeast
  <1>5. \A a \in 1..Len(read) : floor[w][a] <= read[a] /\ read[a] <= stored[a]
    <2> SUFFICES ASSUME NEW a \in 1..Len(read)
                 PROVE  floor[w][a] <= read[a] /\ read[a] <= stored[a]
      OBVIOUS
    <2>1. CASE a \in 1..Len(loaded[w])
      BY <1>1, <1>2, <2>1 DEF OnlyRecorded, NothingIsLost
    <2>2. CASE a = Len(read)
      <3>1. stored[a] \in Int
        BY <1>2, <2>2, DatasetOfIntegers
      <3> QED BY <1>2, <1>4, <2>2, <3>1
    <2> QED BY <1>3, <2>1, <2>2
  <1>6. OnlyRecorded'
    BY <1>1, <1>5 DEF OnlyRecorded
  <1>7. NothingIsLost'
    BY <1>1, <1>5 DEF NothingIsLost
  <1>8. NeverGoesBack'
    BY <1>1 DEF NeverGoesBack
  <1> QED BY <1>6, <1>7, <1>8

LEMMA ReturnRecorded ==
  ASSUME ProvidersInvariant, NEW w \in Workers, Return(w), Shaped'
  PROVE  OnlyRecorded' /\ NothingIsLost' /\ NeverGoesBack'
  <1> USE DEF ProvidersInvariant, Shaped, TypeOK
  <1>1. /\ pc[w] = "returning" /\ pc'[w] = "idle"
        /\ \A v \in Workers \ {w} : /\ pc'[v] = pc[v] /\ loaded'[v] = loaded[v]
                                    /\ result'[v] = result[v]
        /\ loaded'[w] = <<>> /\ result'[w] = Answer(w)
        /\ kind' = kind /\ stored' = stored /\ snapshot' = snapshot
        /\ floor' = floor /\ overlapped' = overlapped
    BY DEF Return, run, cache
  <1>2. Answer(w) \in Dataset /\ AtLeast(stored, Answer(w))
    <2>1. CASE kind = "qanary"
      <3>1. loaded[w] \in Dataset /\ Len(loaded[w]) = Arrays
        BY <1>1, <2>1, DatasetIsSequence DEF CallsAreShaped
      <3> QED BY <2>1, <3>1 DEF Answer, OnlyRecorded, AtLeast, Dataset
    <2>2. CASE kind # "qanary"
      BY <2>2 DEF Answer, OnlyRecorded
    <2> QED BY <2>1, <2>2
  <1>3. /\ AtLeast(newest', newest)
        /\ \A d \in Dataset : AtLeast(d, Answer(w)) /\ AtLeast(d, newest) => AtLeast(d, newest')
    <2>1. \A a \in 1..Arrays :
             /\ newest[a] \in Int /\ Answer(w)[a] \in Int
             /\ newest'[a] = IF Answer(w)[a] > newest[a] THEN Answer(w)[a] ELSE newest[a]
      BY <1>2, DatasetOfIntegers DEF Return
    <2>2. \A a \in 1..Arrays :
             newest'[a] >= newest[a] /\ newest'[a] \in {newest[a], Answer(w)[a]}
      BY <2>1
    <2> HIDE DEF Shaped, TypeOK, ProvidersInvariant
    <2> QED BY <2>2 DEF AtLeast
  <1>4. OnlyRecorded'
    <2>1. \A v \in Workers : AtLeast(newest', floor[v])
      BY <1>3, AtLeastTransitive DEF OnlyRecorded
    <2>2. AtLeast(stored', snapshot') /\ AtLeast(stored', newest')
      BY <1>1, <1>2, <1>3 DEF OnlyRecorded
    <2>3. \A v \in Workers : \A a \in 1..Len(loaded'[v]) : loaded'[v][a] <= stored'[a]
      <3> SUFFICES ASSUME NEW v \in Workers, NEW a \in 1..Len(loaded'[v])
                   PROVE  loaded'[v][a] <= stored'[a]
        OBVIOUS
      <3>1. v # w
        BY <1>1
      <3>2. loaded'[v] = loaded[v] /\ stored' = stored
        BY <1>1, <3>1
      <3> QED BY <3>2 DEF OnlyRecorded
    <2>4. floor' = floor
      BY <1>1
    <2> HIDE DEF ProvidersInvariant, Shaped, TypeOK
    <2> QED BY <2>1, <2>2, <2>3, <2>4 DEF OnlyRecorded
  <1>5. NothingIsLost'
    <2>1. kind # "qanary" => Answer(w) = snapshot
      BY DEF Answer
    <2>2. \A v \in Workers : \A a \in 1..Len(loaded'[v]) :
             a \in 1..Len(loaded[v]) /\ loaded'[v] = loaded[v]
      <3> SUFFICES ASSUME NEW v \in Workers, NEW a \in 1..Len(loaded'[v])
                   PROVE  a \in 1..Len(loaded[v]) /\ loaded'[v] = loaded[v]
        OBVIOUS
      <3>1. v # w
        BY <1>1
      <3> QED BY <1>1, <3>1
    <2>3. AtLeast(snapshot, newest) /\ kind # "qanary" => AtLeast(snapshot', newest')
      BY <1>1, <1>3, <2>1, AtLeastSelf
    <2> QED BY <1>1, <2>2, <2>3 DEF NothingIsLost
  <1>6. ~(kind = "quantify" /\ overlapped) => AtLeast(Answer(w), floor[w])
    <2>1. CASE kind = "qanary"
      <3>1. loaded[w] \in Dataset /\ Len(loaded[w]) = Arrays
        BY <1>1, <2>1, DatasetIsSequence DEF CallsAreShaped
      <3> QED BY <2>1, <3>1 DEF Answer, NothingIsLost, AtLeast, Dataset
    <2>2. CASE kind # "qanary"
      BY <2>2, AtLeastTransitive, KindsAssumption DEF Answer, OnlyRecorded, NothingIsLost
    <2> QED BY <2>1, <2>2
  <1>7. NeverGoesBack'
    BY <1>1, <1>6 DEF NeverGoesBack
  <1> QED BY <1>4, <1>5, <1>7

LEMMA StepRecorded == ProvidersInvariant /\ [Next]_vars => ProvidersInvariant'
  <1> SUFFICES ASSUME ProvidersInvariant, [Next]_vars PROVE ProvidersInvariant'
    OBVIOUS
  <1>1. Shaped'
    BY StepShaped DEF ProvidersInvariant
  <1>2. CASE Measure
    BY <1>1, <1>2, MeasureRecorded, MeasureRefreshes DEF ProvidersInvariant
  <1>3. ASSUME NEW w \in Workers, Provide(w) PROVE ProvidersInvariant'
    BY <1>1, <1>3, ProvideRefreshes, CallRecorded, LoadRecorded, AssignRecorded,
       LoadArrayRecorded, ReturnRecorded DEF Provide, ProvidersInvariant
  <1>4. CASE Tick \/ UNCHANGED vars
    <2>1. /\ UNCHANGED <<run, cache, measuring, calls>>
          /\ now <= now' /\ now \in Int /\ now' \in Int
      BY <1>4, SizesAssumption DEF Tick, vars, ProvidersInvariant, Shaped, TypeOK, Clock
    <2> QED
      BY <1>1, <2>1, SizesAssumption
         DEF ProvidersInvariant, OnlyRecorded, NothingIsLost, NeverGoesBack, RefreshIsRecent,
             run, cache, measuring, course, calls, Shaped, TypeOK, Clock, Never
  <1> QED BY <1>2, <1>3, <1>4 DEF Next

LEMMA RecordedHolds == Spec => []ProvidersInvariant
  BY InitRecorded, StepRecorded, PTL DEF Spec

(* What a provider returns never loses points that an earlier call has      *)
(* returned, for any number of workers, arrays and points; for Quantify     *)
(* unless calls overlap.                                                    *)
THEOREM NothingGoesBack == Spec => []NeverGoesBack
  BY RecordedHolds, PTL DEF ProvidersInvariant

(* A refresh that was skipped costs at most the points of one refresh       *)
(* interval, whatever the interval is and however long reading takes.       *)
THEOREM RecentOnly == Spec => []MissesOnlyRecent
  <1>1. ProvidersInvariant => MissesOnlyRecent
    BY SizesAssumption
       DEF ProvidersInvariant, Shaped, TypeOK, Clock, Never, RefreshIsRecent, MissesOnlyRecent
  <1> QED BY <1>1, RecordedHolds, PTL

(* A measurement that forces its last refresh has published every point.    *)
THEOREM EndPublished == Spec => []EndIsPublished
  <1>1. ProvidersInvariant => EndIsPublished
    BY DEF ProvidersInvariant, RefreshIsRecent, EndIsPublished
  <1> QED BY <1>1, RecordedHolds, PTL
=============================================================================
