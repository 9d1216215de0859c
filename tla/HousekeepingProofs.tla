-------------------------- MODULE HousekeepingProofs --------------------------
(* What holds of finished work for any number of callers, maintainers and   *)
(* exporters: the properties of Housekeeping's runs, each from an inductive *)
(* invariant of the one component it is about.                              *)
EXTENDS Housekeeping, FiniteSetTheorems, SequenceTheorems, TLAPS

-----------------------------------------------------------------------------
(* A behaviour exercises one component; the others stay as they began.      *)

\* A behaviour of the copies, and nothing else moves them.
LEMMA CopiesOnly == Spec => CopiesInit /\ [][CopiesNext]_copyVars
<1>1. Init => CopiesInit
  BY DEF Init
<1>2. [Next]_housekeepingVars => [CopiesNext]_copyVars
  BY DEF Next, housekeepingVars
<1>3. QED
  BY <1>1, <1>2, PTL DEF Spec

\* A behaviour of the sessions and their processes.
LEMMA SessionsOnly == Spec => AppServerInit /\ [][AppServerNext]_appServerVars
<1>1. Init => AppServerInit
  BY DEF Init
<1>2. [Next]_housekeepingVars => [AppServerNext]_appServerVars
  BY DEF Next, housekeepingVars
<1>3. QED
  BY <1>1, <1>2, PTL DEF Spec

\* A behaviour of the exports.
LEMMA EvidenceOnly == Spec => EvidenceInit /\ [][EvidenceNext]_evidenceVars
<1>1. Init => EvidenceInit
  BY DEF Init
<1>2. [Next]_housekeepingVars => [EvidenceNext]_evidenceVars
  BY DEF Next, housekeepingVars
<1>3. QED
  BY <1>1, <1>2, PTL DEF Spec

\* A behaviour of the phase deliverables and their readers.
LEMMA DeliverablesOnly == Spec => DeliverablesInit /\ [][DeliverablesNext]_deliverableVars
<1>1. Init => DeliverablesInit
  BY DEF Init
<1>2. [Next]_housekeepingVars => [DeliverablesNext]_deliverableVars
  BY DEF Next, housekeepingVars
<1>3. QED
  BY <1>1, <1>2, PTL DEF Spec

-----------------------------------------------------------------------------
(* Sessions of runners without a memory of their own.                       *)

ThreadIds  == 0..MaxThreads
SessionRow == [status : {"none", "active", "stale"}, thread : ThreadIds, count : Nat,
               version : Versions \cup {"none"}, old : BOOLEAN]
CallerRow  == [pc : {"idle", "mark", "turn", "save"}, thread : ThreadIds,
               version : Versions \cup {"none"}, ok : BOOLEAN, proc : {NoProc}]
Holders(t) == {c \in Callers : caller[c].thread = t}

\* A thread's turns never outnumber those the row counted, nor, with the turns
\* that are still to be saved, the limit and the calls that may be late; a
\* thread nobody opened has neither.
SessionsTyped ==
    /\ session \in SessionRow /\ caller \in [Callers -> CallerRow]
    /\ threads \in ThreadIds /\ turns \in [1..MaxThreads -> Nat]
ThreadsAreCounted ==
    /\ session.thread <= threads
    /\ \A c \in Callers : caller[c].thread <= threads
    /\ \A t \in 1..MaxThreads :
          /\ turns[t] <= session.count
          /\ t > threads => turns[t] = 0
          /\ turns[t] + Cardinality(Holders(t)) <= MaxTurns + Cardinality(Callers) - 1
SessionsInv == runner \in Forgetful => SessionsTyped /\ ThreadsAreCounted

\* What the constants are.
LEMMA SessionNumbers ==
    /\ IsFiniteSet(Callers) /\ Cardinality(Callers) \in Nat
    /\ MaxThreads \in Nat /\ MaxTurns \in Nat /\ MaxTurns >= 1
<1>1. IsFiniteSet(Callers)
  BY SessionsAssumption
<1>2. Cardinality(Callers) \in Nat
  BY <1>1, FS_CardinalityType
<1>3. MaxThreads \in Nat /\ MaxTurns \in Nat
  BY SessionsAssumption
<1>4. MaxTurns > 0
  BY SessionsAssumption
<1>5. QED
  BY <1>1, <1>2, <1>3, <1>4

\* How the holders of a thread change with the record of one call.
LEMMA HoldersMove ==
    ASSUME SessionsTyped, NEW c \in Callers, NEW r, caller' = [caller EXCEPT ![c] = r],
           NEW t \in 1..MaxThreads
    PROVE  /\ Cardinality(Holders(t)) \in Nat /\ Cardinality(Holders(t)') \in Nat
           /\ Cardinality(Holders(t)') <= Cardinality(Callers)
           /\ r.thread \in {0, caller[c].thread} =>
                Cardinality(Holders(t)') <= Cardinality(Holders(t))
           /\ r.thread = 0 /\ caller[c].thread = t =>
                Cardinality(Holders(t)') = Cardinality(Holders(t)) - 1
           /\ r.thread # t => Cardinality(Holders(t)') <= Cardinality(Holders(t))
           /\ Holders(t) = {} => Cardinality(Holders(t)') <= 1
<1>a. c \in Callers /\ 0 \notin 1..MaxThreads
  BY SessionNumbers
<1>1. /\ IsFiniteSet(Callers) /\ IsFiniteSet(Holders(t)) /\ IsFiniteSet(Holders(t)')
      /\ Cardinality(Holders(t)') <= Cardinality(Callers)
  <2>1. IsFiniteSet(Callers) /\ Holders(t) \subseteq Callers /\ Holders(t)' \subseteq Callers
    BY SessionNumbers DEF Holders
  <2>2. QED
    BY <2>1, FS_Subset
<1>2. Cardinality(Holders(t)) \in Nat /\ Cardinality(Holders(t)') \in Nat
  BY <1>1, FS_CardinalityType
<1>3. \A d \in Callers : caller'[d] = IF d = c THEN r ELSE caller[d]
  BY DEF SessionsTyped
<1>4. r.thread # t => Holders(t)' = Holders(t) \ {c}
  BY <1>3 DEF Holders
<1>5. r.thread = t => Holders(t)' = Holders(t) \cup {c}
  BY <1>3 DEF Holders
<1>6. /\ IsFiniteSet(Holders(t) \ {c})
      /\ Cardinality(Holders(t) \ {c}) =
            IF c \in Holders(t) THEN Cardinality(Holders(t)) - 1 ELSE Cardinality(Holders(t))
  BY <1>1, FS_RemoveElement
<1>7. Cardinality(Holders(t) \cup {c}) =
            IF c \in Holders(t) THEN Cardinality(Holders(t)) ELSE Cardinality(Holders(t)) + 1
  BY <1>1, FS_AddElement
<1>8. c \in Holders(t) <=> caller[c].thread = t
  BY DEF Holders
<1>9. Holders(t) = {} => Cardinality(Holders(t)) = 0
  BY FS_EmptySet
<1>10. QED
  <2> DEFINE h == Cardinality(Holders(t))
             k == Cardinality(Holders(t)')
             m == Cardinality(Holders(t) \ {c})
             n == Cardinality(Holders(t) \cup {c})
  <2>1. /\ h \in Nat /\ k \in Nat /\ k <= Cardinality(Callers)
        /\ m = IF c \in Holders(t) THEN h - 1 ELSE h
        /\ n = IF c \in Holders(t) THEN h ELSE h + 1
        /\ r.thread # t => k = m
        /\ r.thread = t => k = n
        /\ c \in Holders(t) <=> caller[c].thread = t
        /\ Holders(t) = {} => h = 0
        /\ t # 0
    BY <1>a, <1>1, <1>2, <1>4, <1>5, <1>6, <1>7, <1>8, <1>9
  <2> HIDE DEF h, k, m, n
  <2>2. /\ r.thread \in {0, caller[c].thread} => k <= h
        /\ r.thread = 0 /\ caller[c].thread = t => k = h - 1
        /\ r.thread # t => k <= h
        /\ h = 0 => k <= 1
    BY <2>1
  <2>3. QED
    BY <2>1, <2>2 DEF h, k
\* A call moves on, keeping its thread or giving it up.
LEMMA KeepsThread ==
    ASSUME SessionsTyped, ThreadsAreCounted, NEW c \in Callers, NEW r \in CallerRow,
           caller' = [caller EXCEPT ![c] = r], r.thread \in {0, caller[c].thread},
           UNCHANGED <<threads, turns>>,
           session' \in SessionRow, session'.count = session.count,
           session'.thread = session.thread
    PROVE  SessionsTyped' /\ ThreadsAreCounted'
<1>1. SessionsTyped'
  BY DEF SessionsTyped
<1>2. \A d \in Callers : caller'[d] = IF d = c THEN r ELSE caller[d]
  BY DEF SessionsTyped
<1>3. \A d \in Callers : caller'[d].thread <= threads'
  BY <1>2 DEF SessionsTyped, ThreadsAreCounted, ThreadIds
<1>4. \A t \in 1..MaxThreads :
        turns[t] + Cardinality(Holders(t)') <= MaxTurns + Cardinality(Callers) - 1
  <2>1. TAKE t \in 1..MaxThreads
  <2>2. /\ Cardinality(Holders(t)) \in Nat /\ Cardinality(Holders(t)') \in Nat
        /\ Cardinality(Holders(t)') <= Cardinality(Holders(t))
    BY HoldersMove
  <2>3. turns[t] \in Nat /\ MaxTurns \in Nat /\ Cardinality(Callers) \in Nat
    BY SessionNumbers DEF SessionsTyped
  <2>4. QED
    BY <2>2, <2>3 DEF ThreadsAreCounted
<1>5. QED
  BY <1>1, <1>3, <1>4 DEF ThreadsAreCounted

\* A call looks at an active row below the limit and takes its thread.
LEMMA TakesThread ==
    ASSUME SessionsTyped, ThreadsAreCounted, NEW c \in Callers, NEW r \in CallerRow,
           caller' = [caller EXCEPT ![c] = r], r.thread = session.thread,
           session.count < MaxTurns, UNCHANGED <<session, threads, turns>>
    PROVE  SessionsTyped' /\ ThreadsAreCounted'
<1>1. SessionsTyped'
  BY DEF SessionsTyped
<1>2. \A d \in Callers : caller'[d] = IF d = c THEN r ELSE caller[d]
  BY DEF SessionsTyped
<1>3. \A d \in Callers : caller'[d].thread <= threads'
  BY <1>2 DEF SessionsTyped, ThreadsAreCounted, ThreadIds
<1>4. \A t \in 1..MaxThreads :
        turns[t] + Cardinality(Holders(t)') <= MaxTurns + Cardinality(Callers) - 1
  <2>1. TAKE t \in 1..MaxThreads
  <2>2. /\ Cardinality(Holders(t)) \in Nat /\ Cardinality(Holders(t)') \in Nat
        /\ Cardinality(Holders(t)') <= Cardinality(Callers)
        /\ r.thread # t => Cardinality(Holders(t)') <= Cardinality(Holders(t))
    BY HoldersMove
  <2>3. turns[t] \in Nat /\ MaxTurns \in Nat /\ Cardinality(Callers) \in Nat
        /\ session.count \in Nat
    BY SessionNumbers DEF SessionsTyped, SessionRow
  <2>4. turns[t] <= session.count
    BY DEF ThreadsAreCounted
  <2>5. turns[t] <= MaxTurns - 1
    BY <2>3, <2>4
  <2>6. QED
    BY <2>2, <2>3, <2>5
<1>5. QED
  BY <1>1, <1>3, <1>4 DEF ThreadsAreCounted

\* A call opens a thread.
LEMMA OpensThread ==
    ASSUME SessionsTyped, ThreadsAreCounted, NEW c \in Callers, NEW r \in CallerRow,
           caller' = [caller EXCEPT ![c] = r], r.thread = threads + 1, NewThread,
           UNCHANGED <<session, turns>>
    PROVE  SessionsTyped' /\ ThreadsAreCounted'
<1>1. SessionsTyped' /\ threads' = threads + 1 /\ threads \in Nat /\ MaxThreads \in Nat
  BY SessionsAssumption DEF SessionsTyped, NewThread, ThreadIds
<1>2. \A d \in Callers : caller'[d] = IF d = c THEN r ELSE caller[d]
  BY DEF SessionsTyped
<1>3. \A d \in Callers : caller'[d].thread <= threads'
  <2>1. \A d \in Callers : caller[d] \in CallerRow
    BY DEF SessionsTyped
  <2>2. \A d \in Callers : caller[d].thread \in Nat
    BY <2>1, SessionsAssumption DEF CallerRow, ThreadIds
  <2>3. QED
    BY <1>1, <1>2, <2>2 DEF ThreadsAreCounted
<1>4. \A t \in 1..MaxThreads :
        turns[t] + Cardinality(Holders(t)') <= MaxTurns + Cardinality(Callers) - 1
  <2>1. TAKE t \in 1..MaxThreads
  <2>2. /\ Cardinality(Holders(t)) \in Nat /\ Cardinality(Holders(t)') \in Nat
        /\ r.thread # t => Cardinality(Holders(t)') <= Cardinality(Holders(t))
        /\ Holders(t) = {} => Cardinality(Holders(t)') <= 1
    BY HoldersMove
  <2>3. turns[t] \in Nat /\ MaxTurns \in Nat /\ MaxTurns >= 1
        /\ Cardinality(Callers) \in Nat
    BY SessionNumbers DEF SessionsTyped
  <2>4. Cardinality(Callers) >= 1
    <3>1. Callers # {} /\ IsFiniteSet(Callers)
      BY SessionNumbers
    <3>2. QED
      BY <2>3, <3>1, FS_EmptySet
  <2>5. CASE r.thread # t
    BY <2>2, <2>3, <2>5 DEF ThreadsAreCounted
  <2>6. CASE r.thread = t
    <3>1. turns[t] = 0
      BY <1>1, <2>6 DEF ThreadsAreCounted
    <3>2. Holders(t) = {}
      BY <1>1, <2>6 DEF ThreadsAreCounted, Holders
    <3>3. QED
      BY <2>2, <2>3, <2>4, <3>1, <3>2
  <2>7. QED
    BY <2>5, <2>6
<1>5. session.thread \in Nat /\ session'.thread <= threads'
  <2>1. session.thread \in Nat
    BY SessionsAssumption DEF SessionsTyped, SessionRow, ThreadIds
  <2>2. QED
    BY <1>1, <2>1 DEF ThreadsAreCounted
<1>6. \A t \in 1..MaxThreads : t > threads' => turns'[t] = 0
  BY <1>1 DEF ThreadsAreCounted
<1>7. QED
  BY <1>1, <1>3, <1>4, <1>5, <1>6 DEF ThreadsAreCounted

\* A turn is saved.
LEMMA SavesTurn ==
    ASSUME SessionsTyped, ThreadsAreCounted, NEW c \in Callers, Save(c)
    PROVE  SessionsTyped' /\ ThreadsAreCounted'
<1>1. /\ caller \in [Callers -> CallerRow] /\ caller[c] \in CallerRow
      /\ session \in SessionRow /\ session.count \in Nat /\ turns \in [1..MaxThreads -> Nat]
      /\ MaxTurns \in Nat /\ MaxThreads \in Nat
  BY SessionsAssumption DEF SessionsTyped, SessionRow
<1>2. IdleCaller \in CallerRow /\ IdleCaller.thread = 0
  BY SessionsAssumption DEF IdleCaller, CallerRow, NoThread, NoProc, ThreadIds
<1>3. /\ caller' = [caller EXCEPT ![c] = IdleCaller] /\ UNCHANGED threads
      /\ turns' = [t \in 1..MaxThreads |->
                     turns[t] + (IF t = caller[c].thread THEN 1 ELSE 0)]
      /\ session' = [status |-> IF caller[c].ok THEN "active" ELSE "stale",
                     thread |-> caller[c].thread, count |-> session.count + 1,
                     version |-> caller[c].version, old |-> FALSE]
  BY <1>1 DEF Save, CountAfter
<1>4. /\ session' \in SessionRow /\ session'.count = session.count + 1
      /\ session'.thread = caller[c].thread
  BY <1>1, <1>3 DEF CallerRow, SessionRow
<1>5. SessionsTyped'
  BY <1>1, <1>2, <1>3, <1>4 DEF SessionsTyped
<1>6. \A d \in Callers : caller'[d] = IF d = c THEN IdleCaller ELSE caller[d]
  BY <1>1, <1>3
<1>7. session'.thread <= threads' /\ \A d \in Callers : caller'[d].thread <= threads'
  <2>1. threads \in Nat
    BY SessionsAssumption DEF SessionsTyped, ThreadIds
  <2>2. QED
    BY <1>2, <1>3, <1>4, <1>6, <2>1 DEF ThreadsAreCounted
<1>8. \A t \in 1..MaxThreads :
        /\ turns'[t] <= session'.count
        /\ t > threads' => turns'[t] = 0
        /\ turns'[t] + Cardinality(Holders(t)') <= MaxTurns + Cardinality(Callers) - 1
  <2>1. TAKE t \in 1..MaxThreads
  <2>2. /\ Cardinality(Holders(t)) \in Nat /\ Cardinality(Holders(t)') \in Nat
        /\ caller[c].thread = t => Cardinality(Holders(t)') = Cardinality(Holders(t)) - 1
        /\ Cardinality(Holders(t)') <= Cardinality(Holders(t))
    BY <1>2, <1>3, HoldersMove
  <2>3. turns[t] \in Nat /\ Cardinality(Callers) \in Nat
    BY <1>1, SessionNumbers
  <2>4. /\ turns[t] <= session.count /\ (t > threads => turns[t] = 0)
        /\ turns[t] + Cardinality(Holders(t)) <= MaxTurns + Cardinality(Callers) - 1
        /\ caller[c].thread <= threads
    BY DEF ThreadsAreCounted
  <2>5. threads \in Nat
    BY SessionsAssumption DEF SessionsTyped, ThreadIds
  <2> DEFINE h == Cardinality(Holders(t))
             k == Cardinality(Holders(t)')
             n == Cardinality(Callers)
  <2>6. CASE t = caller[c].thread
    <3>1. turns'[t] = turns[t] + 1 /\ t <= threads /\ session'.count = session.count + 1
      BY <1>3, <1>4, <2>4, <2>6
    <3>2. h \in Nat /\ k \in Nat /\ k = h - 1 /\ n \in Nat /\ turns[t] + h <= MaxTurns + n - 1
      BY <2>2, <2>3, <2>4, <2>6
    <3> HIDE DEF h, k, n
    <3>3. turns'[t] + k <= MaxTurns + n - 1
      BY <1>1, <2>3, <3>1, <3>2
    <3>4. turns'[t] <= session'.count /\ (t > threads' => turns'[t] = 0)
      BY <1>1, <1>3, <2>3, <2>4, <2>5, <3>1
    <3>5. QED
      BY <3>3, <3>4 DEF k, n
  <2>7. CASE t # caller[c].thread
    BY <1>1, <1>3, <1>4, <2>2, <2>3, <2>4, <2>5, <2>7, SMTT(30)
  <2>8. QED
    BY <2>6, <2>7
<1>9. QED
  BY <1>5, <1>7, <1>8 DEF ThreadsAreCounted

\* What a call's record becomes.
LEMMA CallerFacts ==
    /\ IdleCaller \in CallerRow /\ IdleCaller.thread = 0
    /\ \A r \in CallerRow : r.thread \in ThreadIds
    /\ \A r \in CallerRow : \A pc \in {"mark", "turn", "save"} :
          /\ [r EXCEPT !.pc = pc] \in CallerRow
          /\ [r EXCEPT !.pc = pc].thread = r.thread
    /\ \A r \in CallerRow, v \in Versions : \A pc \in {"turn"} :
          /\ [r EXCEPT !.pc = pc, !.version = v] \in CallerRow
          /\ [r EXCEPT !.pc = pc, !.version = v].thread = r.thread
    /\ \A r \in CallerRow, t \in ThreadIds :
          [r EXCEPT !.thread = t] \in CallerRow /\ [r EXCEPT !.thread = t].thread = t
<1>1. IdleCaller \in CallerRow /\ IdleCaller.thread = 0
  BY SessionNumbers DEF IdleCaller, CallerRow, NoThread, NoProc, ThreadIds
<1>2. QED
  BY <1>1 DEF CallerRow

\* Calls of these runners, the limits of the row's life, and nothing else, move.
LEMMA SessionsMove ==
    ASSUME SessionsTyped, runner \in Forgetful, AppServerNext
    PROVE  \/ \E c \in Callers : \/ \E v \in Versions : Look(c, v)
                                 \/ MarkStale(c) \/ Save(c) \/ SaveIsLost(c)
                                 \/ \E ok \in BOOLEAN : Turn(c, ok) \/ ExecTurn(c, ok)
           \/ Expire \/ ExpireSessions \/ UNCHANGED sessionVars
<1>1. /\ runner # "app-server" /\ runner # "sdk"
      /\ \A c \in Callers : caller[c].pc \in {"idle", "mark", "turn", "save"}
  BY DEF SessionsTyped, CallerRow, Forgetful
<1>2. \A c \in Callers : ~(\/ Fetch(c) \/ Created(c) \/ CreationFails(c) \/ StartTurn(c)
                           \/ GiveUp(c) \/ Drop(c) \/ Close(c)
                           \/ \E ok \in BOOLEAN : SdkTurn(c, ok))
  BY <1>1 DEF Fetch, Created, CreationFails, StartTurn, GiveUp, Drop, Close, SdkTurn
<1>3. ASSUME NEW p \in Procs, NEW o \in Callers, TurnCompleted(p, o)
      PROVE  UNCHANGED sessionVars
  BY <1>1, <1>3 DEF TurnCompleted, Turning, sessionVars
<1>4. ASSUME NEW p \in Procs, EndedWithRun(p) PROVE UNCHANGED sessionVars
  BY <1>4 DEF EndedWithRun
<1>5. ~RouterDies
  BY DEF RouterDies
<1>6. QED
  BY <1>2, <1>3, <1>4, <1>5 DEF AppServerNext, SessionsNext

\* How a row of the session may change without a turn.
LEMMA RowMoves ==
    \A row \in SessionRow : \A status \in {"stale"} :
        /\ [row EXCEPT !.status = status] \in SessionRow
        /\ [row EXCEPT !.status = status].count = row.count
        /\ [row EXCEPT !.status = status].thread = row.thread
        /\ [row EXCEPT !.old = TRUE] \in SessionRow
        /\ [row EXCEPT !.old = TRUE].count = row.count
        /\ [row EXCEPT !.old = TRUE].thread = row.thread
BY DEF SessionRow

\* Every step of a caller and of a process keeps the count of turns.
LEMMA SessionsStep == SessionsInv /\ [AppServerNext]_appServerVars => SessionsInv'
<1> SUFFICES ASSUME SessionsInv, [AppServerNext]_appServerVars PROVE SessionsInv'
  OBVIOUS
<1>1. UNCHANGED runner
  BY DEF AppServerNext, SessionsNext, Look, MarkStale, Save, SaveIsLost, Turn, ExecTurn,
         Expire, ExpireSessions, Fetch, Created, CreationFails, StartTurn, GiveUp, Drop,
         Close, SdkTurn, EndedWithRun, TurnCompleted, RouterDies, appServerVars, sessionVars
<1> SUFFICES ASSUME runner \in Forgetful PROVE SessionsTyped' /\ ThreadsAreCounted'
  BY <1>1 DEF SessionsInv
<1>2. SessionsTyped /\ ThreadsAreCounted
  BY DEF SessionsInv
<1>3. session \in SessionRow /\ \A c \in Callers : caller[c] \in CallerRow
  BY <1>2 DEF SessionsTyped
<1>4. session.thread \in ThreadIds
  BY <1>3 DEF SessionRow
<1>5. ASSUME UNCHANGED sessionVars PROVE SessionsTyped' /\ ThreadsAreCounted'
  BY <1>2, <1>5 DEF SessionsTyped, ThreadsAreCounted, Holders, sessionVars
<1>6. ASSUME Expire \/ ExpireSessions PROVE SessionsTyped' /\ ThreadsAreCounted'
  <2>1. /\ session' \in SessionRow /\ session'.count = session.count
        /\ session'.thread = session.thread /\ UNCHANGED <<caller, threads, turns>>
    BY <1>3, <1>6, RowMoves DEF Expire, ExpireSessions
  <2>2. QED
    BY <1>2, <2>1 DEF SessionsTyped, ThreadsAreCounted, Holders
<1>7. ASSUME NEW c \in Callers, NEW v \in Versions, Look(c, v)
      PROVE  SessionsTyped' /\ ThreadsAreCounted'
  <2> DEFINE my == [IdleCaller EXCEPT !.pc = "turn", !.version = v]
  <2>1. my \in CallerRow /\ my.thread = 0
    BY CallerFacts
  <2>2. /\ UNCHANGED <<session, threads, turns>>
        /\ \/ caller' = [caller EXCEPT ![c] = my]
           \/ caller' = [caller EXCEPT ![c] = [my EXCEPT !.pc = "mark"]]
           \/ ~Invalid(v) /\ caller' = [caller EXCEPT ![c] = [my EXCEPT !.thread = session.thread]]
    BY <1>7 DEF Look
  <2> HIDE DEF my
  <2>3. [my EXCEPT !.pc = "mark"] \in CallerRow /\ [my EXCEPT !.pc = "mark"].thread = 0
    BY <2>1, CallerFacts
  <2>4. CASE ~Invalid(v) /\ caller' = [caller EXCEPT ![c] = [my EXCEPT !.thread = session.thread]]
    <3>1. session.count < MaxTurns
      BY <1>3, <2>4, SessionNumbers DEF Invalid, SessionRow
    <3>2. /\ [my EXCEPT !.thread = session.thread] \in CallerRow
          /\ [my EXCEPT !.thread = session.thread].thread = session.thread
      BY <1>4, <2>1, CallerFacts
    <3>3. QED
      BY <1>2, <2>2, <2>4, <3>1, <3>2, TakesThread
  <2>5. QED
    BY <1>2, <1>3, <2>1, <2>2, <2>3, <2>4, KeepsThread
<1>8. ASSUME NEW c \in Callers, MarkStale(c) PROVE SessionsTyped' /\ ThreadsAreCounted'
  <2> DEFINE r == [caller[c] EXCEPT !.pc = "turn"]
  <2>1. r \in CallerRow /\ r.thread = caller[c].thread
    BY <1>3, CallerFacts
  <2>2. caller' = [caller EXCEPT ![c] = r] /\ UNCHANGED <<threads, turns>>
    BY <1>8 DEF MarkStale
  <2>3. session' \in SessionRow /\ session'.count = session.count
        /\ session'.thread = session.thread
    BY <1>3, <1>8, RowMoves DEF MarkStale
  <2>4. QED
    BY <1>2, <2>1, <2>2, <2>3, KeepsThread
<1>9. ASSUME NEW c \in Callers, SaveIsLost(c) PROVE SessionsTyped' /\ ThreadsAreCounted'
  BY <1>2, <1>3, <1>9, CallerFacts, KeepsThread DEF SaveIsLost
<1>10. ASSUME NEW c \in Callers, NEW ok \in BOOLEAN, Turn(c, ok) \/ ExecTurn(c, ok)
       PROVE  SessionsTyped' /\ ThreadsAreCounted'
  <2>1. UNCHANGED <<session, turns>>
        /\ \/ NewThread /\ Answered(c, threads + 1, ok)
           \/ UNCHANGED threads /\ Answered(c, caller[c].thread, ok)
    BY <1>10 DEF Turn, ExecTurn
  <2>2. CASE NewThread /\ Answered(c, threads + 1, ok)
    <3> DEFINE r == [caller[c] EXCEPT !.pc = "save", !.thread = threads + 1, !.ok = ok]
    <3>1. threads + 1 \in ThreadIds
      BY <1>2, <2>2, SessionNumbers DEF NewThread, SessionsTyped, ThreadIds
    <3>2. r \in CallerRow /\ r.thread = threads + 1
      BY <1>3, <3>1 DEF CallerRow
    <3>3. caller' = [caller EXCEPT ![c] = r]
      BY <2>2 DEF Answered
    <3> HIDE DEF r
    <3>4. QED
      BY <1>2, <2>1, <2>2, <3>2, <3>3, OpensThread
  <2>3. CASE UNCHANGED threads /\ Answered(c, caller[c].thread, ok)
    <3> DEFINE r == [caller[c] EXCEPT !.pc = "save", !.thread = caller[c].thread, !.ok = ok]
    <3>1. r \in CallerRow /\ r.thread = caller[c].thread
      BY <1>3 DEF CallerRow
    <3>2. caller' = [caller EXCEPT ![c] = r]
      BY <2>3 DEF Answered
    <3> HIDE DEF r
    <3>3. QED
      BY <1>2, <1>3, <2>1, <2>3, <3>1, <3>2, KeepsThread
  <2>4. QED
    BY <2>1, <2>2, <2>3
<1>11. ASSUME NEW c \in Callers, Save(c) PROVE SessionsTyped' /\ ThreadsAreCounted'
  BY <1>2, <1>11, SavesTurn
<1>12. QED
  BY <1>2, <1>5, <1>6, <1>7, <1>8, <1>9, <1>10, <1>11, SessionsMove DEF appServerVars

\* No thread and no turn at first.
LEMMA SessionsStart == AppServerInit => SessionsInv
<1> SUFFICES ASSUME SessionsInit PROVE SessionsTyped /\ ThreadsAreCounted
  BY DEF AppServerInit, SessionsInv
<1>1. SessionsTyped
  <2>1. session \in SessionRow
    BY SessionNumbers DEF SessionsInit, SessionRow, NoThread, ThreadIds
  <2>2. QED
    BY <2>1, CallerFacts, SessionNumbers DEF SessionsInit, SessionsTyped, ThreadIds
<1>2. \A c \in Callers : caller[c].thread = 0
  BY CallerFacts DEF SessionsInit
<1>3. \A t \in 1..MaxThreads :
        turns[t] + Cardinality(Holders(t)) <= MaxTurns + Cardinality(Callers) - 1
  <2>1. TAKE t \in 1..MaxThreads
  <2>2. Holders(t) = {} /\ turns[t] = 0
    BY <1>2, SessionNumbers DEF Holders, SessionsInit
  <2>3. QED
    BY <2>2, SessionNumbers, FS_EmptySet
<1>4. QED
  BY <1>1, <1>2, <1>3 DEF SessionsInit, ThreadsAreCounted, NoThread

\* No thread gathers more turns than the limit, but for those of calls that
\* looked at the row before the limit was reached (get_valid_session).
THEOREM ThreadsStayBounded == Spec => []ThreadsAreBounded
<1>1. SessionsInv => ThreadsAreBounded
  <2> SUFFICES ASSUME SessionsTyped, ThreadsAreCounted, NEW t \in 1..MaxThreads
               PROVE  turns[t] <= MaxTurns + Cardinality(Callers) - 1
    BY DEF SessionsInv, ThreadsAreBounded, ThreadLimitIsKept
  <2>1. Cardinality(Holders(t)) \in Nat
    <3>1. IsFiniteSet(Callers) /\ Holders(t) \subseteq Callers
      BY SessionNumbers DEF Holders
    <3>2. QED
      BY <3>1, FS_Subset, FS_CardinalityType
  <2>2. QED
    BY <2>1, SessionNumbers DEF ThreadsAreCounted, SessionsTyped
<1>2. QED
  BY <1>1, SessionsStart, SessionsStep, SessionsOnly, PTL

-----------------------------------------------------------------------------
(* Sessions in the memory of the router process.                            *)

OnProc  == {"creating", "queued", "turning", "drop", "close"}
OffProc == {"idle", "mark", "turn", "save"}
ServerCall == [pc : OnProc \cup OffProc, thread : Nat, version : Versions \cup {"none"},
               ok : BOOLEAN, proc : Procs \cup {NoProc}]
ServerRow  == [status : {"none", "active", "stale"}, thread : Nat, count : Nat,
               version : Versions \cup {"none"}, old : BOOLEAN]
ServersTyped ==
    /\ caller \in [Callers -> ServerCall] /\ session \in ServerRow /\ threads \in Nat
    /\ cache \in [proc : Procs \cup {NoProc}, thread : Nat]
    /\ procs \in [Procs -> [state : {"none", "live", "dead"}, active : SUBSET Callers]]

Closing(p) == \E d \in Callers : caller[d].pc = "close" /\ caller[d].proc = p
Uses(c, p) == caller[c].pc \in {"queued", "turning", "drop"} /\ caller[c].proc = p

\* Who works on a process has one that was started, and a process that was not
\* or has ended works on nothing.
ProcsAreReal ==
    /\ \A c \in Callers : caller[c].pc \in OnProc =>
          caller[c].proc \in Procs /\ procs[caller[c].proc].state # "none"
    /\ cache # NoEntry => cache.proc \in Procs /\ procs[cache.proc].state # "none"
    /\ \A p \in Procs : ~Live(p) => procs[p].active = {}

\* One call at a time creates, with no entry to replace and a process of its own.
CreatesAlone ==
    \A c \in Callers : caller[c].pc = "creating" =>
        /\ cache = NoEntry /\ procs[caller[c].proc].active = {}
        /\ \A d \in Callers \ {c} :
              /\ caller[d].pc # "creating"
              /\ caller[d].pc \in OnProc => caller[d].proc # caller[c].proc

TurnsAlone ==
    \A c, d \in Callers : caller[c].pc = "turning" /\ caller[d].pc = "turning"
                          /\ caller[c].proc = caller[d].proc => c = d

\* A live process that is used, or at work, is the entry of the key or is
\* about to be closed.
UsedIsKnown ==
    \A p \in Procs : Live(p) /\ (procs[p].active # {} \/ \E c \in Callers : Uses(c, p)) =>
        cache.proc = p \/ Closing(p)

\* A turn nobody waits for any more was given up by somebody who is removing
\* its session.
WorkIsAwaited ==
    \A p \in Procs : \A o \in procs[p].active :
        (caller[o].pc = "turning" /\ caller[o].proc = p) \/ Removing(p)

SharedInv == ProcsAreReal /\ CreatesAlone /\ TurnsAlone /\ UsedIsKnown /\ WorkIsAwaited
ServersInv ==
    /\ ServersTyped
    /\ IF runner = "app-server" THEN SharedInv
       ELSE \A c \in Callers : caller[c].pc \in OffProc

\* What a step may do to the callers: one of them moves.
CallMoves(c, pc, p) ==
    \A d \in Callers : /\ caller'[d].pc = (IF d = c THEN pc ELSE caller[d].pc)
                       /\ caller'[d].proc = (IF d = c THEN p ELSE caller[d].proc)

\* Records with a field or two replaced.
LEMMA ServerFacts ==
    /\ IdleCaller \in ServerCall /\ IdleCaller.pc = "idle" /\ IdleCaller.proc = NoProc
    /\ NoProc \notin Procs /\ NoProc = 0 /\ NoEntry.proc = NoProc
    /\ NoEntry \in [proc : Procs \cup {NoProc}, thread : Nat]
    /\ \A r \in ServerCall : \A pc \in OnProc \cup OffProc :
          /\ [r EXCEPT !.pc = pc] \in ServerCall
          /\ [r EXCEPT !.pc = pc].pc = pc /\ [r EXCEPT !.pc = pc].proc = r.proc
    /\ \A r \in ServerCall, t \in Nat :
          /\ [r EXCEPT !.thread = t] \in ServerCall
          /\ [r EXCEPT !.thread = t].pc = r.pc /\ [r EXCEPT !.thread = t].proc = r.proc
    /\ \A r \in ServerCall, ok \in BOOLEAN :
          /\ [r EXCEPT !.ok = ok] \in ServerCall
          /\ [r EXCEPT !.ok = ok].pc = r.pc /\ [r EXCEPT !.ok = ok].proc = r.proc
    /\ \A r \in ServerCall, p \in Procs :
          /\ [r EXCEPT !.proc = p] \in ServerCall
          /\ [r EXCEPT !.proc = p].pc = r.pc /\ [r EXCEPT !.proc = p].proc = p
    /\ \A r \in ServerCall, v \in Versions :
          /\ [r EXCEPT !.version = v] \in ServerCall
          /\ [r EXCEPT !.version = v].pc = r.pc /\ [r EXCEPT !.version = v].proc = r.proc
<1>1. IdleCaller \in ServerCall /\ IdleCaller.pc = "idle" /\ IdleCaller.proc = NoProc
  BY DEF IdleCaller, ServerCall, NoThread, OffProc
<1>2. NoProc \notin Procs /\ NoProc = 0 /\ NoEntry.proc = NoProc
      /\ NoEntry \in [proc : Procs \cup {NoProc}, thread : Nat]
  BY ProcsAssumption DEF NoProc, Procs, NoEntry, NoThread
<1>3. QED
  BY <1>1, <1>2 DEF ServerCall

\* A caller's record is replaced.
LEMMA CallIsReplaced ==
    ASSUME ServersTyped, NEW c \in Callers, NEW r \in ServerCall,
           caller' = [caller EXCEPT ![c] = r]
    PROVE  caller' \in [Callers -> ServerCall] /\ CallMoves(c, r.pc, r.proc)
BY DEF ServersTyped, CallMoves

\* Nothing but the calls that work on no process moves, and they go nowhere.
QuietStep ==
    /\ UNCHANGED <<cache, procs>> /\ ServersTyped'
    /\ \A d \in Callers :
          \/ caller'[d].pc = caller[d].pc /\ caller'[d].proc = caller[d].proc
          \/ caller[d].pc \in OffProc /\ caller'[d].pc \in OffProc

\* Such a step keeps what holds of the processes.
LEMMA QuietKeeps ==
    ASSUME ServersTyped, SharedInv, QuietStep
    PROVE  SharedInv'
<1> USE DEF QuietStep, SharedInv
<1>1. \A d \in Callers, pc \in OnProc :
         /\ caller'[d].pc = pc <=> caller[d].pc = pc
         /\ caller[d].pc = pc => caller'[d].proc = caller[d].proc
  BY DEF OnProc, OffProc
<1>2. ProcsAreReal' /\ CreatesAlone' /\ TurnsAlone'
  BY <1>1 DEF ProcsAreReal, CreatesAlone, TurnsAlone, OnProc, Live
<1>3. \A p \in Procs : Closing(p) => Closing(p)'
  BY <1>1 DEF Closing, OnProc
<1>4. \A p \in Procs, d \in Callers : Uses(d, p)' => Uses(d, p)
  BY <1>1 DEF Uses, OnProc
<1>5. UsedIsKnown'
  BY <1>3, <1>4 DEF UsedIsKnown, Live
<1>6. \A p \in Procs : Removing(p) => Removing(p)'
  BY <1>1 DEF Removing, OnProc
<1>7. WorkIsAwaited'
  <2>1. \A p \in Procs : procs[p].active \subseteq Callers
    BY DEF ServersTyped
  <2>2. QED
    BY <1>1, <1>6, <2>1 DEF WorkIsAwaited, OnProc
<1>8. QED
  BY <1>2, <1>5, <1>7

\* The steps of Sessions are quiet, whoever the runner is.
LEMMA SessionsQuiet ==
    ASSUME ServersTyped, SessionsNext, UNCHANGED <<cache, procs>>
    PROVE  QuietStep
<1>1. /\ session \in ServerRow /\ \A c \in Callers : caller[c] \in ServerCall
      /\ threads \in Nat /\ caller \in [Callers -> ServerCall]
  BY DEF ServersTyped
<1>2. session.thread \in Nat /\ session.count \in Nat
      /\ \A c \in Callers : /\ caller[c].thread \in Nat /\ caller[c].ok \in BOOLEAN
                            /\ caller[c].version \in Versions \cup {"none"}
  BY <1>1 DEF ServerRow, ServerCall
<1>3. ASSUME NEW c \in Callers, NEW r \in ServerCall, caller' = [caller EXCEPT ![c] = r],
             caller[c].pc \in OffProc, r.pc \in OffProc,
             session' \in ServerRow, threads' \in Nat
      PROVE  QuietStep
  <2>1. caller' \in [Callers -> ServerCall] /\ CallMoves(c, r.pc, r.proc)
    BY <1>3, CallIsReplaced
  <2>2. ServersTyped'
    BY <1>3, <2>1 DEF ServersTyped
  <2>3. QED
    BY <1>3, <2>1, <2>2 DEF QuietStep, CallMoves
<1>4. ASSUME NEW c \in Callers, NEW v \in Versions, Look(c, v) PROVE QuietStep
  <2> DEFINE my == [IdleCaller EXCEPT !.pc = "turn", !.version = v]
  <2>1. my \in ServerCall /\ my.pc = "turn" /\ "turn" \in OffProc /\ "mark" \in OffProc
    BY ServerFacts, ZenonT(40) DEF ServerCall, OnProc, OffProc
  <2>2. /\ UNCHANGED <<session, threads>> /\ caller[c].pc = "idle" /\ "idle" \in OffProc
        /\ \/ caller' = [caller EXCEPT ![c] = my]
           \/ caller' = [caller EXCEPT ![c] = [my EXCEPT !.pc = "mark"]]
           \/ caller' = [caller EXCEPT ![c] = [my EXCEPT !.thread = session.thread]]
    BY <1>4 DEF Look, OffProc
  <2> HIDE DEF my
  <2>3. /\ [my EXCEPT !.pc = "mark"] \in ServerCall /\ [my EXCEPT !.pc = "mark"].pc = "mark"
        /\ [my EXCEPT !.thread = session.thread] \in ServerCall
        /\ [my EXCEPT !.thread = session.thread].pc = "turn"
    BY <1>2, <2>1, ServerFacts
  <2>4. QED
    BY <1>1, <1>3, <2>1, <2>2, <2>3, ZenonT(40)
<1>5. ASSUME NEW c \in Callers, MarkStale(c) PROVE QuietStep
  <2>1. session' \in ServerRow
    BY <1>1, <1>5 DEF MarkStale, ServerRow
  <2>2. [caller[c] EXCEPT !.pc = "turn"] \in ServerCall
        /\ [caller[c] EXCEPT !.pc = "turn"].pc = "turn"
    BY <1>1, ServerFacts DEF OffProc
  <2>3. QED
    BY <1>1, <1>3, <1>5, <2>1, <2>2 DEF MarkStale, OffProc
<1>6. ASSUME NEW c \in Callers, Save(c) PROVE QuietStep
  <2>1. session' \in ServerRow
    BY <1>2, <1>6 DEF Save, CountAfter, ServerRow
  <2>2. QED
    BY <1>1, <1>3, <1>6, <2>1, ServerFacts DEF Save, OffProc
<1>7. ASSUME NEW c \in Callers, SaveIsLost(c) PROVE QuietStep
  BY <1>1, <1>3, <1>7, ServerFacts DEF SaveIsLost, OffProc
<1>8. ASSUME NEW c \in Callers, NEW ok \in BOOLEAN, Turn(c, ok) \/ ExecTurn(c, ok)
      PROVE  QuietStep
  <2>1. PICK t \in Nat : Answered(c, t, ok)
    BY <1>1, <1>2, <1>8 DEF Turn, ExecTurn
  <2> DEFINE r == [caller[c] EXCEPT !.pc = "save", !.thread = t, !.ok = ok]
  <2>2. r \in ServerCall /\ r.pc = "save"
    BY <1>1 DEF ServerCall, OffProc
  <2>3. caller' = [caller EXCEPT ![c] = r]
    BY <2>1 DEF Answered
  <2>4. UNCHANGED session /\ threads' \in Nat /\ caller[c].pc = "turn"
    BY <1>1, <1>8 DEF Turn, ExecTurn, NewThread
  <2> HIDE DEF r
  <2>5. QED
    BY <1>1, <1>3, <2>2, <2>3, <2>4 DEF OffProc
<1>9. ASSUME Expire \/ ExpireSessions PROVE QuietStep
  <2>1. session' \in ServerRow /\ UNCHANGED <<caller, threads>>
    BY <1>1, <1>9 DEF Expire, ExpireSessions, ServerRow
  <2>2. QED
    BY <1>1, <2>1 DEF QuietStep, ServersTyped
<1>10. QED
  BY <1>4, <1>5, <1>6, <1>7, <1>8, <1>9 DEF SessionsNext

\* A call is given a session: the entry of the key, or a process of its own.
FetchView(c) ==
    /\ caller[c].pc = "turn" /\ Creating = {} /\ UNCHANGED cache
    /\ \/ cache # NoEntry /\ CallMoves(c, "queued", cache.proc) /\ UNCHANGED procs
       \/ /\ cache = NoEntry
          /\ \E p \in Procs :
                /\ procs[p].state = "none" /\ CallMoves(c, "creating", p)
                /\ \A q \in Procs : /\ procs'[q].state = IF q = p THEN "live" ELSE procs[q].state
                                    /\ procs'[q].active = procs[q].active

\* What a call sees of the cache when it fetches a process.
LEMMA FetchMoves ==
    ASSUME ServersTyped, ProcsAreReal, NEW c \in Callers, Fetch(c)
    PROVE  ServersTyped' /\ FetchView(c)
<1>1. /\ session \in ServerRow /\ caller[c] \in ServerCall
      /\ threads \in Nat /\ caller \in [Callers -> ServerCall]
      /\ cache.thread \in Nat
  BY DEF ServersTyped
<1>2. CASE cache # NoEntry
  <2> DEFINE r == [caller[c] EXCEPT !.pc = "queued", !.proc = cache.proc,
                                    !.thread = cache.thread]
  <2>1. cache.proc \in Procs
    BY <1>2 DEF ProcsAreReal
  <2>2. r \in ServerCall /\ r.pc = "queued" /\ r.proc = cache.proc
    BY <1>1, <2>1 DEF ServerCall, OnProc
  <2>3. caller' = [caller EXCEPT ![c] = r] /\ UNCHANGED <<session, threads, cache, procs>>
    BY <1>2 DEF Fetch
  <2> HIDE DEF r
  <2>4. caller' \in [Callers -> ServerCall] /\ CallMoves(c, "queued", cache.proc)
    BY <2>2, <2>3, CallIsReplaced
  <2>5. ServersTyped'
    BY <2>3, <2>4 DEF ServersTyped
  <2>6. FetchView(c)
    BY <1>2, <2>3, <2>4 DEF Fetch, FetchView
  <2>7. QED
    BY <2>5, <2>6
<1>3. CASE cache = NoEntry
  <2>1. PICK p \in Procs :
           /\ procs[p].state = "none" /\ procs' = [procs EXCEPT ![p].state = "live"]
           /\ caller' = [caller EXCEPT ![c].pc = "creating", ![c].proc = p]
    BY <1>3 DEF Fetch
  <2> DEFINE r == [caller[c] EXCEPT !.pc = "creating", !.proc = p]
  <2>2. r \in ServerCall /\ r.pc = "creating" /\ r.proc = p
    BY <1>1 DEF ServerCall, OnProc
  <2>3. caller' = [caller EXCEPT ![c] = r] /\ UNCHANGED <<session, threads, cache>>
    BY <1>3, <2>1 DEF Fetch
  <2> HIDE DEF r
  <2>4. /\ procs' \in [Procs -> [state : {"none", "live", "dead"}, active : SUBSET Callers]]
        /\ \A q \in Procs : /\ procs'[q].state = IF q = p THEN "live" ELSE procs[q].state
                            /\ procs'[q].active = procs[q].active
    BY <2>1 DEF ServersTyped
  <2>5. caller' \in [Callers -> ServerCall] /\ CallMoves(c, "creating", p)
    BY <2>2, <2>3, CallIsReplaced
  <2>6. ServersTyped'
    BY <2>3, <2>4, <2>5 DEF ServersTyped
  <2>7. FetchView(c)
    BY <1>3, <2>1, <2>3, <2>4, <2>5 DEF Fetch, FetchView
  <2>8. QED
    BY <2>6, <2>7
<1>4. QED
  BY <1>2, <1>3

\* The fetched process is the entry of the key, or one nobody else works on.
LEMMA FetchKeeps ==
    ASSUME ServersTyped, ServersTyped', SharedInv, NEW c \in Callers, FetchView(c)
    PROVE  SharedInv'
<1> USE DEF FetchView, CallMoves, SharedInv, OnProc, OffProc
<1>0. NoProc \notin Procs /\ NoEntry.proc = NoProc
  BY ServerFacts
<1>1. ProcsAreReal'
  BY DEF ProcsAreReal, Live
<1>2. CreatesAlone'
  BY DEF ProcsAreReal, CreatesAlone, Creating, Live
<1>3. TurnsAlone'
  BY DEF TurnsAlone
<1>4. UsedIsKnown'
  BY <1>0 DEF UsedIsKnown, Uses, Closing, ProcsAreReal, Live
<1>5. WorkIsAwaited'
  <2>1. \A p \in Procs : procs[p].active \subseteq Callers /\ procs'[p].active = procs[p].active
    BY DEF ServersTyped
  <2>2. \A p \in Procs : Removing(p) => Removing(p)'
    BY DEF Removing
  <2>3. \A d \in Callers : caller[d].pc = "turning" =>
                             caller'[d].pc = "turning" /\ caller'[d].proc = caller[d].proc
    OBVIOUS
  <2>4. QED
    BY <2>1, <2>2, <2>3 DEF WorkIsAwaited
<1>6. QED
  BY <1>1, <1>2, <1>3, <1>4, <1>5

\* The process answers, and its session becomes the entry; or it does not.
CreatedView(c) ==
    /\ caller[c].pc = "creating" /\ Live(caller[c].proc) /\ UNCHANGED procs
    /\ CallMoves(c, "queued", caller[c].proc) /\ cache'.proc = caller[c].proc

\* What it changes that a process answers.
LEMMA CreatedMoves ==
    ASSUME ServersTyped, NEW c \in Callers, Created(c)
    PROVE  ServersTyped' /\ CreatedView(c)
<1>1. /\ session \in ServerRow /\ caller[c] \in ServerCall
      /\ threads \in Nat /\ caller \in [Callers -> ServerCall]
  BY DEF ServersTyped
<1>2. caller[c].thread \in Nat /\ caller[c].proc \in Procs \cup {NoProc}
  BY <1>1 DEF ServerCall
<1>3. PICK t \in {caller[c].thread, threads + 1} \ {NoThread} :
         /\ IF t = threads + 1 THEN NewThread ELSE UNCHANGED threads
         /\ cache' = [proc |-> caller[c].proc, thread |-> t]
         /\ caller' = [caller EXCEPT ![c].pc = "queued", ![c].thread = t]
  BY DEF Created
<1>4. t \in Nat /\ threads' \in Nat
  BY <1>1, <1>2, <1>3 DEF NewThread
<1> DEFINE r == [caller[c] EXCEPT !.pc = "queued", !.thread = t]
<1>5. r \in ServerCall /\ r.pc = "queued" /\ r.proc = caller[c].proc
  BY <1>1, <1>4 DEF ServerCall, OnProc
<1>6. caller' = [caller EXCEPT ![c] = r]
  BY <1>3
<1> HIDE DEF r
<1>7. caller' \in [Callers -> ServerCall] /\ CallMoves(c, "queued", caller[c].proc)
  BY <1>5, <1>6, CallIsReplaced
<1>8. cache' \in [proc : Procs \cup {NoProc}, thread : Nat] /\ cache'.proc = caller[c].proc
  BY <1>2, <1>3, <1>4
<1>9. ServersTyped'
  BY <1>4, <1>7, <1>8 DEF Created, ServersTyped
<1>10. QED
  BY <1>7, <1>8, <1>9 DEF Created, CreatedView

\* The new process is the cache entry and nobody else has it.
LEMMA CreatedKeeps ==
    ASSUME ServersTyped, ServersTyped', SharedInv, NEW c \in Callers, CreatedView(c)
    PROVE  SharedInv'
<1> USE DEF CreatedView, CallMoves, SharedInv, OnProc, OffProc
<1>0. NoProc \notin Procs /\ NoEntry.proc = NoProc
  BY ServerFacts
<1>1. ProcsAreReal'
  BY DEF ProcsAreReal, Live
<1>2. CreatesAlone'
  BY DEF ProcsAreReal, CreatesAlone, Live
<1>3. TurnsAlone'
  BY DEF TurnsAlone
<1>4. UsedIsKnown'
  <2>1. \A p \in Procs : Closing(p) => Closing(p)'
    BY DEF Closing
  <2>2. \A p \in Procs, d \in Callers : p # caller[c].proc /\ Uses(d, p)' => Uses(d, p)
    BY DEF Uses
  <2>3. \A p \in Procs : cache.proc # p
    BY <1>0 DEF CreatesAlone
  <2>4. QED
    BY <2>1, <2>2, <2>3 DEF UsedIsKnown, Live
<1>5. WorkIsAwaited'
  <2>1. \A p \in Procs : procs[p].active \subseteq Callers /\ procs'[p].active = procs[p].active
    BY DEF ServersTyped
  <2>2. \A p \in Procs : Removing(p) => Removing(p)'
    BY DEF Removing
  <2>3. \A d \in Callers : caller[d].pc = "turning" =>
                             caller'[d].pc = "turning" /\ caller'[d].proc = caller[d].proc
    OBVIOUS
  <2>4. QED
    BY <2>1, <2>2, <2>3 DEF WorkIsAwaited
<1>6. QED
  BY <1>1, <1>2, <1>3, <1>4, <1>5

\* A call stops short of a turn: its creation failed, its turn was given up, or
\* the process is found dead.
StopView(c) ==
    /\ UNCHANGED <<cache, procs>>
    /\ \/ caller[c].pc = "creating" /\ CallMoves(c, "save", caller[c].proc)
       \/ caller[c].pc = "turning" /\ CallMoves(c, "drop", caller[c].proc)
       \/ /\ caller[c].pc = "queued" /\ ~Live(caller[c].proc)
          /\ \E pc \in {"drop", "save"} : CallMoves(c, pc, caller[c].proc)

\* A turn starts when no other is under way.
TurnView(c) ==
    /\ UNCHANGED cache /\ caller[c].pc = "queued" /\ Turning(caller[c].proc) = {}
    /\ Live(caller[c].proc) /\ CallMoves(c, "turning", caller[c].proc)
    /\ \A q \in Procs :
          /\ procs'[q].state = procs[q].state
          /\ procs'[q].active = IF q = caller[c].proc THEN procs[q].active \cup {c}
                                ELSE procs[q].active

\* A call that goes on keeps its row typed.
LEMMA CallGoes ==
    ASSUME ServersTyped, NEW c \in Callers, NEW pc \in OnProc \cup OffProc,
           caller' = [caller EXCEPT ![c].pc = pc]
    PROVE  caller' \in [Callers -> ServerCall] /\ CallMoves(c, pc, caller[c].proc)
<1> DEFINE r == [caller[c] EXCEPT !.pc = pc]
<1>1. caller[c] \in ServerCall
  BY DEF ServersTyped
<1>2. r \in ServerCall /\ r.pc = pc /\ r.proc = caller[c].proc
  BY <1>1, ServerFacts
<1>3. caller' = [caller EXCEPT ![c] = r]
  OBVIOUS
<1> HIDE DEF r
<1>4. QED
  BY <1>2, <1>3, CallIsReplaced

\* What a call changes that stops before its turn: the creation failed, the time
\* was up, or the process had ended.
LEMMA StopMoves ==
    ASSUME ServersTyped, NEW c \in Callers,
           CreationFails(c) \/ GiveUp(c) \/ (StartTurn(c) /\ ~Live(caller[c].proc))
    PROVE  ServersTyped' /\ StopView(c)
<1>1. CASE CreationFails(c)
  <2> DEFINE r == [caller[c] EXCEPT !.pc = "save", !.ok = FALSE]
  <2>1. caller[c] \in ServerCall
    BY DEF ServersTyped
  <2>2. r \in ServerCall /\ r.pc = "save" /\ r.proc = caller[c].proc
    BY <2>1 DEF ServerCall, OffProc
  <2>3. caller' = [caller EXCEPT ![c] = r] /\ UNCHANGED <<session, threads, cache, procs>>
    BY <1>1 DEF CreationFails
  <2> HIDE DEF r
  <2>4. caller' \in [Callers -> ServerCall] /\ CallMoves(c, "save", caller[c].proc)
    BY <2>2, <2>3, CallIsReplaced
  <2>5. ServersTyped'
    BY <2>3, <2>4 DEF ServersTyped
  <2>6. QED
    BY <1>1, <2>3, <2>4, <2>5 DEF CreationFails, StopView
<1>2. CASE GiveUp(c)
  <2>1. caller' \in [Callers -> ServerCall] /\ CallMoves(c, "drop", caller[c].proc)
    BY <1>2, CallGoes DEF GiveUp, Move, OnProc
  <2>2. QED
    BY <1>2, <2>1 DEF GiveUp, StopView, ServersTyped
<1>3. CASE StartTurn(c) /\ ~Live(caller[c].proc)
  <2>1. PICK pc \in {"drop", "save"} : caller' = [caller EXCEPT ![c].pc = pc]
    BY <1>3 DEF StartTurn, Move
  <2>2. caller' \in [Callers -> ServerCall] /\ CallMoves(c, pc, caller[c].proc)
    BY <2>1, CallGoes DEF OnProc, OffProc
  <2>3. UNCHANGED <<session, threads, cache, procs>> /\ caller[c].pc = "queued"
    BY <1>3 DEF StartTurn
  <2>4. QED
    BY <1>3, <2>2, <2>3 DEF StopView, ServersTyped
<1>4. QED
  BY <1>1, <1>2, <1>3

\* A call that gives up its process leaves it to those that remove the session.
LEMMA StopKeeps ==
    ASSUME ServersTyped, ServersTyped', SharedInv, NEW c \in Callers, StopView(c)
    PROVE  SharedInv'
<1> USE DEF StopView, CallMoves, SharedInv, OnProc, OffProc
<1>1. ProcsAreReal'
  BY DEF ProcsAreReal, Live
<1>2. CreatesAlone'
  BY DEF CreatesAlone
<1>3. TurnsAlone'
  BY DEF TurnsAlone
<1>4. UsedIsKnown'
  <2>1. \A p \in Procs : Closing(p) => Closing(p)'
    BY DEF Closing
  <2>2. \A p \in Procs, d \in Callers : Uses(d, p)' => Uses(d, p)
    BY DEF Uses
  <2>3. QED
    BY <2>1, <2>2 DEF UsedIsKnown, Live
<1>5. WorkIsAwaited'
  <2>1. \A p \in Procs : Removing(p) => Removing(p)'
    BY DEF Removing
  <2>2. \A p \in Procs : procs[p].active \subseteq Callers
    BY DEF ServersTyped
  <2>3. ASSUME caller[c].pc = "turning" PROVE Removing(caller[c].proc)'
    BY <2>3 DEF Removing
  <2>4. QED
    BY <2>1, <2>2, <2>3 DEF WorkIsAwaited
<1>6. QED
  BY <1>1, <1>2, <1>3, <1>4, <1>5

\* What starting a turn changes.
LEMMA TurnMoves ==
    ASSUME ServersTyped, ProcsAreReal, NEW c \in Callers, StartTurn(c), Live(caller[c].proc)
    PROVE  ServersTyped' /\ TurnView(c)
<1> DEFINE p == caller[c].proc
<1>1. /\ caller[c].pc = "queued" /\ p \in Procs /\ Turning(p) = {}
      /\ caller' = [caller EXCEPT ![c].pc = "turning"]
      /\ procs' = [procs EXCEPT ![p].active = procs[p].active \cup {c}]
      /\ UNCHANGED <<session, threads, cache>>
  BY DEF StartTurn, Move, ProcsAreReal, OnProc
<1>2. caller' \in [Callers -> ServerCall] /\ CallMoves(c, "turning", p)
  BY <1>1, CallGoes DEF OnProc
<1>3. /\ procs' \in [Procs -> [state : {"none", "live", "dead"}, active : SUBSET Callers]]
      /\ \A q \in Procs :
            /\ procs'[q].state = procs[q].state
            /\ procs'[q].active = IF q = p THEN procs[q].active \cup {c} ELSE procs[q].active
  BY <1>1 DEF ServersTyped
<1>4. QED
  BY <1>1, <1>2, <1>3 DEF TurnView, ServersTyped

\* A turn begins on a live process that its call has.
LEMMA TurnKeeps ==
    ASSUME ServersTyped, ServersTyped', SharedInv, NEW c \in Callers, TurnView(c)
    PROVE  SharedInv'
<1> USE DEF TurnView, CallMoves, SharedInv, OnProc, OffProc
<1>1. ProcsAreReal'
  BY DEF ProcsAreReal, Live
<1>2. CreatesAlone'
  <2> SUFFICES ASSUME NEW d \in Callers, caller'[d].pc = "creating"
               PROVE  /\ cache' = NoEntry /\ procs'[caller'[d].proc].active = {}
                      /\ \A e \in Callers \ {d} :
                            /\ caller'[e].pc # "creating"
                            /\ caller'[e].pc \in OnProc => caller'[e].proc # caller'[d].proc
    BY DEF CreatesAlone
  <2>1. d # c /\ caller[d].pc = "creating" /\ caller'[d].proc = caller[d].proc
    OBVIOUS
  <2>2. caller[d].proc \in Procs /\ caller[c].proc # caller[d].proc
    BY <2>1 DEF ProcsAreReal, CreatesAlone
  <2>3. procs'[caller[d].proc].active = procs[caller[d].proc].active
    BY <2>2
  <2>4. QED
    BY <2>1, <2>3 DEF CreatesAlone
<1>3. TurnsAlone'
  BY DEF TurnsAlone, Turning
<1>4. UsedIsKnown'
  <2>1. \A p \in Procs : Closing(p) => Closing(p)'
    BY DEF Closing
  <2>2. \A p \in Procs, d \in Callers : Uses(d, p)' => Uses(d, p)
    BY DEF Uses
  <2>3. \A p \in Procs : procs'[p].active # {} => procs[p].active # {} \/ Uses(c, p)
    BY DEF Uses
  <2>4. QED
    BY <2>1, <2>2, <2>3 DEF UsedIsKnown, Live
<1>5. WorkIsAwaited'
  <2>1. \A p \in Procs : Removing(p) => Removing(p)'
    BY DEF Removing
  <2>2. \A p \in Procs : procs[p].active \subseteq Callers
    BY DEF ServersTyped
  <2> SUFFICES ASSUME NEW p \in Procs, NEW o \in procs'[p].active
               PROVE  (caller'[o].pc = "turning" /\ caller'[o].proc = p) \/ Removing(p)'
    BY DEF WorkIsAwaited
  <2>3. CASE o = c /\ p = caller[c].proc
    BY <2>3
  <2>4. CASE o \in procs[p].active
    BY <2>1, <2>2, <2>4 DEF WorkIsAwaited
  <2>5. QED
    BY <2>3, <2>4, ZenonT(40)
<1>6. QED
  BY <1>1, <1>2, <1>3, <1>4, <1>5

\* A turn of o ends, and whoever has its turn on the process takes the answer.
CompletedView(p, o) ==
    /\ UNCHANGED cache /\ Live(p) /\ o \in procs[p].active
    /\ \A q \in Procs : /\ procs'[q].state = procs[q].state
                        /\ procs'[q].active = IF q = p THEN procs[q].active \ {o}
                                              ELSE procs[q].active
    /\ \/ Turning(p) = {} /\ UNCHANGED caller
       \/ \E c \in Turning(p) : \E pc \in {"save", "drop"} : CallMoves(c, pc, p)

\* What the end of a turn changes.
LEMMA CompletedMoves ==
    ASSUME ServersTyped, NEW p \in Procs, NEW o \in Callers, TurnCompleted(p, o)
    PROVE  ServersTyped' /\ CompletedView(p, o)
<1>1. /\ procs' \in [Procs -> [state : {"none", "live", "dead"}, active : SUBSET Callers]]
      /\ \A q \in Procs : /\ procs'[q].state = procs[q].state
                          /\ procs'[q].active = IF q = p THEN procs[q].active \ {o}
                                                ELSE procs[q].active
  BY DEF TurnCompleted, ServersTyped
<1>2. UNCHANGED <<session, threads, cache>> /\ Live(p) /\ o \in procs[p].active
  BY DEF TurnCompleted
<1>3. \/ Turning(p) = {} /\ UNCHANGED caller
      \/ \E c \in Turning(p), ok \in BOOLEAN :
            IF ok THEN Answered(c, caller[c].thread, TRUE) ELSE Move(c, "drop")
  BY DEF TurnCompleted
<1>4. CASE Turning(p) = {} /\ UNCHANGED caller
  BY <1>1, <1>2, <1>4 DEF CompletedView, ServersTyped
<1>5. ASSUME NEW c \in Turning(p),
             Answered(c, caller[c].thread, TRUE) \/ Move(c, "drop")
      PROVE  \E pc \in {"save", "drop"} :
                caller' \in [Callers -> ServerCall] /\ CallMoves(c, pc, p)
  <2>1. c \in Callers /\ caller[c].proc = p /\ caller[c] \in ServerCall
    BY DEF Turning, ServersTyped
  <2>2. CASE Move(c, "drop")
    BY <2>1, <2>2, CallGoes DEF Move, OnProc
  <2>3. CASE Answered(c, caller[c].thread, TRUE)
    <3> DEFINE r == [caller[c] EXCEPT !.pc = "save", !.thread = caller[c].thread, !.ok = TRUE]
    <3>1. r \in ServerCall /\ r.pc = "save" /\ r.proc = p
      BY <2>1 DEF ServerCall, OffProc
    <3>2. caller' = [caller EXCEPT ![c] = r]
      BY <2>3 DEF Answered
    <3> HIDE DEF r
    <3>3. QED
      BY <2>1, <3>1, <3>2, CallIsReplaced
  <2>4. QED
    BY <1>5, <2>2, <2>3
<1>6. CASE \E c \in Turning(p), ok \in BOOLEAN :
              IF ok THEN Answered(c, caller[c].thread, TRUE) ELSE Move(c, "drop")
  <2>1. PICK c \in Turning(p) : Answered(c, caller[c].thread, TRUE) \/ Move(c, "drop")
    BY <1>6
  <2>2. PICK pc \in {"save", "drop"} :
           caller' \in [Callers -> ServerCall] /\ CallMoves(c, pc, p)
    BY <1>5, <2>1
  <2>3. ServersTyped'
    BY <1>1, <1>2, <2>2 DEF ServersTyped
  <2>4. QED
    BY <1>1, <1>2, <2>2, <2>3 DEF CompletedView
<1>7. QED
  BY <1>3, <1>4, <1>6

\* Who takes the answer of another is one of those its session is taken from.
LEMMA CompletedKeeps ==
    ASSUME ServersTyped, ServersTyped', SharedInv, NEW p \in Procs, NEW o \in Callers,
           CompletedView(p, o)
    PROVE  SharedInv'
<1> USE DEF SharedInv, OnProc, OffProc
<1>1. PICK c \in Callers : \/ UNCHANGED caller /\ Turning(p) = {}
                           \/ /\ c \in Turning(p)
                              /\ \E pc \in {"save", "drop"} : CallMoves(c, pc, p)
  BY DEF CompletedView, Turning
<1>2. \A d \in Callers : /\ caller'[d].proc = caller[d].proc
                         /\ \/ caller'[d].pc = caller[d].pc
                            \/ d = c /\ caller[d].pc = "turning" /\ caller[d].proc = p
                               /\ caller'[d].pc \in {"save", "drop"}
  BY <1>1 DEF CallMoves, Turning
<1>3. UNCHANGED cache /\ \A q \in Procs : /\ procs'[q].state = procs[q].state
                                          /\ procs'[q].active \subseteq procs[q].active
  BY DEF CompletedView
<1>4. ProcsAreReal'
  BY <1>2, <1>3 DEF ProcsAreReal, Live
<1>5. CreatesAlone'
  BY <1>2, <1>3 DEF ProcsAreReal, CreatesAlone
<1>6. TurnsAlone'
  BY <1>2 DEF TurnsAlone
<1>7. UsedIsKnown'
  <2>1. \A q \in Procs : Closing(q) => Closing(q)'
    BY <1>2 DEF Closing
  <2>2. \A q \in Procs, d \in Callers : Uses(d, q)' => Uses(d, q)
    BY <1>2 DEF Uses
  <2>3. QED
    BY <1>3, <2>1, <2>2 DEF UsedIsKnown, Live
<1>8. WorkIsAwaited'
  <2>1. \A q \in Procs : Removing(q) => Removing(q)'
    BY <1>2 DEF Removing
  <2>2. \A q \in Procs : procs[q].active \subseteq Callers
    BY DEF ServersTyped
  <2> SUFFICES ASSUME NEW q \in Procs, NEW a \in procs'[q].active
               PROVE  (caller'[a].pc = "turning" /\ caller'[a].proc = q) \/ Removing(q)'
    BY DEF WorkIsAwaited
  <2>3. a \in procs[q].active /\ a \in Callers
    BY <1>3, <2>2
  <2>4. CASE Removing(q)
    BY <2>1, <2>4
  <2>5. CASE caller[a].pc = "turning" /\ caller[a].proc = q /\ ~Removing(q)
    <3>1. CASE caller'[a].pc = "turning"
      BY <1>2, <2>3, <2>5, <3>1
    <3>2. CASE caller'[a].pc # "turning"
      <4>1. a = c /\ q = p /\ c \in Turning(p)
        BY <1>1, <1>2, <2>3, <2>5, <3>2
      <4>2. a # o /\ o \in procs[p].active
        BY <4>1 DEF CompletedView
      <4>3. ~(caller[o].pc = "turning" /\ caller[o].proc = p)
        BY <2>5, <4>1, <4>2 DEF TurnsAlone
      <4>4. QED
        BY <2>5, <4>1, <4>2, <4>3 DEF WorkIsAwaited
    <3>3. QED
      BY <3>1, <3>2
  <2>6. QED
    BY <2>3, <2>4, <2>5 DEF WorkIsAwaited
<1>9. QED
  BY <1>4, <1>5, <1>6, <1>7, <1>8

\* The session of a turn that failed is removed: the entry of the key, whichever
\* session it is by now, and its process is closed.
DropView(c) ==
    /\ UNCHANGED procs /\ caller[c].pc = "drop" /\ Creating = {} /\ cache' = NoEntry
    /\ \/ cache = NoEntry /\ CallMoves(c, "save", caller[c].proc)
       \/ cache # NoEntry /\ CallMoves(c, "close", cache.proc)

\* What dropping a process changes.
LEMMA DropMoves ==
    ASSUME ServersTyped, ProcsAreReal, NEW c \in Callers, Drop(c)
    PROVE  ServersTyped' /\ DropView(c)
<1>1. /\ caller[c].pc = "drop" /\ Creating = {} /\ cache' = NoEntry
      /\ UNCHANGED <<session, threads, procs>>
  BY DEF Drop
<1>2. CASE cache = NoEntry
  <2>1. caller' \in [Callers -> ServerCall] /\ CallMoves(c, "save", caller[c].proc)
    BY <1>2, CallGoes DEF Drop, Move, OffProc
  <2>2. QED
    BY <1>1, <1>2, <2>1, ServerFacts DEF DropView, ServersTyped
<1>3. CASE cache # NoEntry
  <2> DEFINE r == [caller[c] EXCEPT !.pc = "close", !.proc = cache.proc]
  <2>1. caller[c] \in ServerCall /\ cache.proc \in Procs
    BY <1>3 DEF ServersTyped, ProcsAreReal
  <2>2. r \in ServerCall /\ r.pc = "close" /\ r.proc = cache.proc
    BY <2>1 DEF ServerCall, OnProc
  <2>3. caller' = [caller EXCEPT ![c] = r]
    BY <1>3 DEF Drop
  <2> HIDE DEF r
  <2>4. caller' \in [Callers -> ServerCall] /\ CallMoves(c, "close", cache.proc)
    BY <2>2, <2>3, CallIsReplaced
  <2>5. QED
    BY <1>1, <1>3, <2>4, ServerFacts DEF DropView, ServersTyped
<1>4. QED
  BY <1>2, <1>3

\* The entry is gone, and who removed it closes its process.
LEMMA DropKeeps ==
    ASSUME ServersTyped, ServersTyped', SharedInv, NEW c \in Callers, DropView(c)
    PROVE  SharedInv'
<1> USE DEF DropView, CallMoves, SharedInv, OnProc, OffProc
<1>0. NoProc \notin Procs /\ NoEntry.proc = NoProc
  BY ServerFacts
<1>1. ProcsAreReal'
  BY DEF ProcsAreReal, Live
<1>2. CreatesAlone'
  BY DEF CreatesAlone, Creating
<1>3. TurnsAlone'
  BY DEF TurnsAlone
<1>4. \A p \in Procs : Closing(p) \/ cache.proc = p => Closing(p)'
  BY <1>0 DEF Closing
<1>5. UsedIsKnown'
  <2>1. \A p \in Procs, d \in Callers : Uses(d, p)' => Uses(d, p)
    BY DEF Uses
  <2>2. QED
    BY <1>4, <2>1 DEF UsedIsKnown, Live
<1>6. WorkIsAwaited'
  <2>1. \A p \in Procs : procs[p].active \subseteq Callers
    BY DEF ServersTyped
  <2>2. \A p \in Procs : Closing(p)' => Removing(p)'
    BY DEF Closing, Removing
  <2>3. \A p \in Procs : procs[p].active # {} => Removing(p)' \/ ~Live(p)
    BY <1>4, <2>2 DEF UsedIsKnown
  <2>4. \A p \in Procs : procs[p].active # {} => Live(p)
    BY DEF ProcsAreReal
  <2>5. QED
    BY <2>1, <2>3, <2>4 DEF WorkIsAwaited
<1>7. QED
  BY <1>1, <1>2, <1>3, <1>5, <1>6

\* Processes end: that of the session being removed, one that ends with its
\* run, and all of them with the router.
EndView(gone) ==
    /\ \A q \in Procs : IF q \in gone THEN procs'[q].state = "dead" /\ procs'[q].active = {}
                        ELSE procs'[q].state = procs[q].state /\ procs'[q].active = procs[q].active
    /\ \A p \in gone \cap Procs : procs[p].state # "none"

\* A process that ends works on nothing, and all that used it are told.
LEMMA EndKeeps ==
    ASSUME ServersTyped, ServersTyped', SharedInv, NEW gone, EndView(gone),
           \/ UNCHANGED <<caller, cache>>
           \/ \E c \in Callers : /\ caller[c].pc = "close" /\ caller[c].proc \in gone
                                 /\ CallMoves(c, "save", caller[c].proc) /\ UNCHANGED cache
           \/ /\ \A c \in Callers : caller'[c].pc = "idle"
              /\ cache' = NoEntry /\ \A p \in Procs : Live(p) => p \in gone
    PROVE  SharedInv'
<1> USE DEF EndView, CallMoves, SharedInv, OnProc, OffProc
<1>0. /\ \A q \in Procs : Live(q)' => Live(q) /\ q \notin gone
      /\ \A q \in Procs : procs'[q].active \subseteq procs[q].active
      /\ \A q \in Procs : procs'[q].active # {} => q \notin gone
      /\ \A q \in Procs : procs[q].state # "none" => procs'[q].state # "none"
      /\ \A q \in Procs : q \notin gone => procs'[q].active = procs[q].active
  BY DEF Live
<1>1. CASE \A c \in Callers : caller'[c].pc = "idle"
  <2> SUFFICES ASSUME \/ cache' = NoEntry /\ \A p \in Procs : Live(p) => p \in gone
                      \/ UNCHANGED <<caller, cache>>
               PROVE  SharedInv'
    BY <1>1
  <2>1. \A p \in Procs : ~Live(p)' => procs'[p].active = {}
    BY <1>0 DEF ProcsAreReal, Live
  <2>2. ProcsAreReal' /\ CreatesAlone' /\ TurnsAlone'
    BY <1>0, <1>1, <2>1 DEF ProcsAreReal, CreatesAlone, TurnsAlone
  <2>3. UsedIsKnown' /\ WorkIsAwaited'
    <3>1. CASE cache' = NoEntry /\ \A p \in Procs : Live(p) => p \in gone
      BY <1>0, <2>1, <3>1 DEF UsedIsKnown, WorkIsAwaited
    <3>2. CASE UNCHANGED <<caller, cache>>
      BY <1>0, <1>1, <3>2 DEF UsedIsKnown, WorkIsAwaited, Closing, Uses, Removing
    <3>3. QED
      BY <3>1, <3>2
  <2>4. QED
    BY <2>2, <2>3
<1>2. CASE UNCHANGED cache /\ ~(\A c \in Callers : caller'[c].pc = "idle")
  <2>1. \A d \in Callers :
          \/ caller'[d].pc = caller[d].pc /\ caller'[d].proc = caller[d].proc
          \/ caller[d].pc = "close" /\ caller[d].proc \in gone /\ caller'[d].pc = "save"
    BY <1>2
  <2>2. ProcsAreReal' /\ TurnsAlone'
    BY <1>0, <1>2, <2>1 DEF ProcsAreReal, TurnsAlone, Live
  <2>3. CreatesAlone'
    BY <1>0, <1>2, <2>1 DEF CreatesAlone, ProcsAreReal
  <2>4. \A p \in Procs : p \notin gone /\ Closing(p) => Closing(p)'
    BY <2>1 DEF Closing
  <2>5. \A p \in Procs, d \in Callers : Uses(d, p)' => Uses(d, p)
    BY <2>1 DEF Uses
  <2>6. UsedIsKnown'
    BY <1>0, <1>2, <2>4, <2>5 DEF UsedIsKnown
  <2>7. \A p \in Procs : p \notin gone /\ Removing(p) => Removing(p)'
    BY <2>1 DEF Removing
  <2>8. WorkIsAwaited'
    <3>1. \A p \in Procs : procs[p].active \subseteq Callers
      BY DEF ServersTyped
    <3>2. QED
      BY <1>0, <2>1, <2>7, <3>1 DEF WorkIsAwaited
  <2>9. QED
    BY <2>2, <2>3, <2>6, <2>8
<1>3. QED
  BY <1>1, <1>2

\* Every step of a caller and of a process keeps answers with their call.
LEMMA ServersStep == ServersInv /\ [AppServerNext]_appServerVars => ServersInv'
<1> SUFFICES ASSUME ServersInv, [AppServerNext]_appServerVars PROVE ServersInv'
  OBVIOUS
<1>1. UNCHANGED runner
  BY DEF AppServerNext, SessionsNext, Look, MarkStale, Save, SaveIsLost, Turn, ExecTurn,
         Expire, ExpireSessions, Fetch, Created, CreationFails, StartTurn, GiveUp, Drop,
         Close, SdkTurn, EndedWithRun, TurnCompleted, RouterDies, appServerVars, sessionVars
<1>2. /\ ServersTyped /\ (runner = "app-server" => SharedInv)
      /\ runner # "app-server" => \A c \in Callers : caller[c].pc \in OffProc
  BY DEF ServersInv
<1>3. CASE UNCHANGED appServerVars
  <2>1. UNCHANGED <<session, threads, turns, runner, caller, cache, procs>>
    BY <1>3 DEF appServerVars, sessionVars
  <2>2. ServersTyped'
    BY <1>2, <2>1 DEF ServersTyped
  <2>3. SharedInv' <=> SharedInv
    <3>1. (ProcsAreReal' <=> ProcsAreReal) /\ (CreatesAlone' <=> CreatesAlone)
      BY <2>1 DEF ProcsAreReal, CreatesAlone, Live
    <3>2. TurnsAlone' <=> TurnsAlone
      BY <2>1 DEF TurnsAlone
    <3>3. UsedIsKnown' <=> UsedIsKnown
      BY <2>1 DEF UsedIsKnown, Live, Uses, Closing
    <3>4. WorkIsAwaited' <=> WorkIsAwaited
      BY <2>1 DEF WorkIsAwaited, Removing
    <3>5. QED
      BY <3>1, <3>2, <3>3, <3>4 DEF SharedInv
  <2>4. QED
    BY <1>2, <2>1, <2>2, <2>3 DEF ServersInv
<1>4. CASE SessionsNext /\ UNCHANGED <<cache, procs>>
  <2>1. QuietStep
    BY <1>2, <1>4, SessionsQuiet
  <2>2. runner = "app-server" => SharedInv'
    BY <1>2, <2>1, QuietKeeps
  <2>3. QED
    BY <1>1, <1>2, <2>1, <2>2 DEF ServersInv, QuietStep
<1>5. ASSUME NEW c \in Callers, NEW ok \in BOOLEAN, SdkTurn(c, ok) PROVE ServersInv'
  <2>1. runner = "sdk" /\ UNCHANGED <<session, procs>> /\ caller[c] \in ServerCall
        /\ threads \in Nat /\ caller[c].thread \in Nat /\ cache.thread \in Nat
    BY <1>2, <1>5 DEF SdkTurn, ServersTyped, ServerCall
  <2>2. PICK t \in Nat : /\ Answered(c, t, ok) /\ threads' \in Nat
                         /\ UNCHANGED cache \/ cache' = [NoEntry EXCEPT !.thread = t]
    BY <1>5, <2>1 DEF SdkTurn, NewThread
  <2> DEFINE r == [caller[c] EXCEPT !.pc = "save", !.thread = t, !.ok = ok]
  <2>3. r \in ServerCall /\ r.pc = "save" /\ caller' = [caller EXCEPT ![c] = r]
    BY <2>1, <2>2 DEF ServerCall, OffProc, Answered
  <2>4. cache' \in [proc : Procs \cup {NoProc}, thread : Nat]
    BY <1>2, <2>2, ServerFacts DEF ServersTyped
  <2> HIDE DEF r
  <2>5. caller' \in [Callers -> ServerCall] /\ CallMoves(c, "save", r.proc)
    BY <1>2, <2>3, CallIsReplaced
  <2>6. QED
    BY <1>1, <1>2, <2>1, <2>2, <2>4, <2>5 DEF ServersInv, ServersTyped, CallMoves, OffProc
<1>6. ASSUME NEW c \in Callers,
             Fetch(c) \/ Created(c) \/ CreationFails(c) \/ StartTurn(c) \/ GiveUp(c) \/ Drop(c)
             \/ Close(c)
      PROVE  runner = "app-server" /\ SharedInv
  BY <1>2, <1>6 DEF Fetch, Created, CreationFails, StartTurn, GiveUp, Drop, Close, OffProc
<1>7. ASSUME ServersTyped', SharedInv', runner = "app-server" PROVE ServersInv'
  BY <1>1, <1>7 DEF ServersInv
<1>8. ASSUME NEW c \in Callers,
             Fetch(c) \/ Created(c) \/ CreationFails(c) \/ StartTurn(c) \/ GiveUp(c) \/ Drop(c)
      PROVE  ServersInv'
  <2>1. runner = "app-server" /\ SharedInv /\ ProcsAreReal
    BY <1>6, <1>8 DEF SharedInv
  <2>2. CASE Fetch(c)
    BY <1>2, <1>7, <2>1, <2>2, FetchMoves, FetchKeeps
  <2>3. CASE Created(c)
    BY <1>2, <1>7, <2>1, <2>3, CreatedMoves, CreatedKeeps
  <2>4. CASE CreationFails(c) \/ GiveUp(c) \/ (StartTurn(c) /\ ~Live(caller[c].proc))
    BY <1>2, <1>7, <2>1, <2>4, StopMoves, StopKeeps
  <2>5. CASE StartTurn(c) /\ Live(caller[c].proc)
    BY <1>2, <1>7, <2>1, <2>5, TurnMoves, TurnKeeps
  <2>6. CASE Drop(c)
    BY <1>2, <1>7, <2>1, <2>6, DropMoves, DropKeeps
  <2>7. QED
    BY <1>8, <2>2, <2>3, <2>4, <2>5, <2>6
<1>9. ASSUME NEW c \in Callers, Close(c) PROVE ServersInv'
  <2>1. runner = "app-server" /\ SharedInv /\ ProcsAreReal
    BY <1>6, <1>9 DEF SharedInv
  <2> DEFINE p == caller[c].proc
  <2>2. /\ caller[c].pc = "close" /\ p \in Procs /\ procs[p].state # "none"
        /\ procs' = [procs EXCEPT ![p] = Ended] /\ UNCHANGED <<session, threads, cache>>
    BY <1>9, <2>1 DEF Close, ProcsAreReal, OnProc
  <2>3. caller' \in [Callers -> ServerCall] /\ CallMoves(c, "save", p)
    BY <1>2, <1>9, CallGoes DEF Close, Move, OffProc
  <2>4. /\ procs' \in [Procs -> [state : {"none", "live", "dead"}, active : SUBSET Callers]]
        /\ EndView({p})
    BY <1>2, <2>2 DEF ServersTyped, EndView, Ended
  <2>5. ServersTyped'
    BY <1>2, <2>2, <2>3, <2>4 DEF ServersTyped
  <2>6. QED
    BY <1>2, <1>7, <2>1, <2>2, <2>3, <2>4, <2>5, EndKeeps
<1>10. ASSUME NEW p \in Procs, EndedWithRun(p) PROVE ServersInv'
  <2>1. /\ procs[p].state # "none" /\ procs' = [procs EXCEPT ![p] = Ended]
        /\ UNCHANGED <<caller, session, threads, cache>>
    BY <1>10 DEF EndedWithRun, Live, sessionVars
  <2>2. /\ procs' \in [Procs -> [state : {"none", "live", "dead"}, active : SUBSET Callers]]
        /\ EndView({p})
    BY <1>2, <2>1 DEF ServersTyped, EndView, Ended
  <2>3. ServersTyped'
    BY <1>2, <2>1, <2>2 DEF ServersTyped
  <2>4. runner = "app-server" => SharedInv'
    BY <1>2, <2>1, <2>2, <2>3, EndKeeps
  <2>5. QED
    BY <1>1, <1>2, <2>1, <2>3, <2>4 DEF ServersInv
<1>11. ASSUME NEW p \in Procs, NEW o \in Callers, TurnCompleted(p, o) PROVE ServersInv'
  <2>1. ServersTyped' /\ CompletedView(p, o)
    BY <1>2, <1>11, CompletedMoves
  <2>2. runner = "app-server" => SharedInv'
    BY <1>2, <2>1, CompletedKeeps
  <2>3. runner # "app-server" => UNCHANGED caller
    BY <1>2, <1>11 DEF TurnCompleted, Turning, OffProc
  <2>4. QED
    BY <1>1, <1>2, <2>1, <2>2, <2>3 DEF ServersInv
<1>12. ASSUME RouterDies PROVE ServersInv'
  <2> DEFINE gone == {p \in Procs : Live(p)}
  <2>1. /\ caller' = [c \in Callers |-> IdleCaller] /\ cache' = NoEntry
        /\ UNCHANGED <<session, threads>>
        /\ procs' = [p \in Procs |-> IF Live(p) THEN Ended ELSE procs[p]]
    BY <1>12 DEF RouterDies
  <2>2. caller' \in [Callers -> ServerCall] /\ \A c \in Callers : caller'[c].pc = "idle"
    BY <2>1, ServerFacts
  <2>3. /\ procs' \in [Procs -> [state : {"none", "live", "dead"}, active : SUBSET Callers]]
        /\ EndView(gone)
    BY <1>2, <2>1 DEF ServersTyped, EndView, Ended, Live
  <2>4. ServersTyped'
    BY <1>2, <2>1, <2>2, <2>3, ServerFacts DEF ServersTyped
  <2>5. \A p \in Procs : Live(p) => p \in gone
    OBVIOUS
  <2> HIDE DEF gone
  <2>6. runner = "app-server" => SharedInv'
    BY <1>2, <2>1, <2>2, <2>3, <2>4, <2>5, EndKeeps
  <2>7. QED
    BY <1>1, <2>2, <2>4, <2>6 DEF ServersInv, OffProc
<1>13. QED
  BY <1>3, <1>4, <1>5, <1>8, <1>9, <1>10, <1>11, <1>12 DEF AppServerNext

\* No process is used at first.
LEMMA ServersStart == AppServerInit => ServersInv
<1> SUFFICES ASSUME AppServerInit PROVE ServersInv
  OBVIOUS
<1>1. \A c \in Callers : caller[c] = IdleCaller
  BY DEF AppServerInit, SessionsInit
<1>2. session \in ServerRow
  BY DEF AppServerInit, SessionsInit, ServerRow, NoThread
<1>3. ServersTyped
  BY <1>2, ServerFacts DEF AppServerInit, SessionsInit, ServersTyped, Procs
<1>4. \A c \in Callers : caller[c].pc = "idle"
  BY <1>1, ServerFacts
<1>5. \A p \in Procs : procs[p].active = {} /\ ~Live(p)
  BY DEF AppServerInit, Procs, Live
<1>6. SharedInv
  BY <1>4, <1>5 DEF SharedInv, ProcsAreReal, CreatesAlone, TurnsAlone, UsedIsKnown,
                    WorkIsAwaited, OnProc, AppServerInit
<1>7. QED
  BY <1>3, <1>4, <1>6 DEF ServersInv, OffProc

\* Whoever takes the answer of another's turn does so only while the call that
\* gave that turn up is still removing the session (run_codex_app_server).
THEOREM AnswersKeepTheirCall == Spec => AnswersStayWithTheirCall
<1>1. ServersInv /\ [AppServerNext]_appServerVars =>
        [\A c \in Callers :
            /\ caller[c].pc = "turning" /\ caller'[c].pc = "save" /\ caller'[c].ok
            /\ c \in procs'[caller[c].proc].active
            => Removing(caller[c].proc)]_appServerVars
  <2> SUFFICES ASSUME ServersInv, AppServerNext, NEW c \in Callers,
                      caller[c].pc = "turning", caller'[c].pc = "save",
                      c \in procs'[caller[c].proc].active
               PROVE  Removing(caller[c].proc)
    OBVIOUS
  <2>1. ServersTyped /\ SharedInv /\ runner = "app-server"
    BY DEF ServersInv, OffProc
  <2>3. ~(SessionsNext /\ UNCHANGED <<cache, procs>>)
    BY <2>1, SessionsQuiet DEF QuietStep, OffProc
  <2>4. ~RouterDies
    BY ServerFacts DEF RouterDies
  <2>5. \A p \in Procs : ~EndedWithRun(p)
    BY DEF EndedWithRun, sessionVars
  <2>6. \A d \in Callers : ~Fetch(d) /\ ~Created(d) /\ ~Drop(d) /\ ~CreationFails(d)
                           /\ ~GiveUp(d)
    <3>1. ProcsAreReal
      BY <2>1 DEF SharedInv
    <3>2. QED
      BY <2>1, <3>1, FetchMoves, CreatedMoves, DropMoves, StopMoves
         DEF FetchView, CreatedView, DropView, StopView, CallMoves
  <2>7. \A d \in Callers : ~StartTurn(d)
    BY <2>1, TurnMoves, StopMoves DEF TurnView, StopView, CallMoves, SharedInv
  <2>8. \A d \in Callers : ~Close(d)
    BY <2>1, CallGoes DEF Close, Move, CallMoves, OffProc
  <2>9. \A d \in Callers, ok \in BOOLEAN : ~SdkTurn(d, ok)
    BY <2>1 DEF SdkTurn
  <2>10. PICK p \in Procs, o \in Callers : TurnCompleted(p, o)
    BY <2>3, <2>4, <2>5, <2>6, <2>7, <2>8, <2>9 DEF AppServerNext
  <2>11. CompletedView(p, o)
    BY <2>1, <2>10, CompletedMoves
  <2>12. c \in Turning(p) /\ caller[c].proc = p
    <3>1. PICK d \in Turning(p) : \E pc \in {"save", "drop"} : CallMoves(d, pc, p)
      BY <2>11 DEF CompletedView
    <3>2. d = c
      BY <3>1 DEF CallMoves
    <3>3. QED
      BY <3>1, <3>2 DEF Turning
  <2>13. c # o /\ o \in procs[p].active
    BY <2>11, <2>12 DEF CompletedView
  <2>14. ~(caller[o].pc = "turning" /\ caller[o].proc = p)
    BY <2>1, <2>12, <2>13 DEF SharedInv, TurnsAlone
  <2>15. QED
    BY <2>1, <2>12, <2>13, <2>14 DEF SharedInv, WorkIsAwaited
<1>2. QED
  BY <1>1, ServersStart, ServersStep, SessionsOnly, PTL DEF AnswersStayWithTheirCall

-----------------------------------------------------------------------------
(* Protected copies and the retention of their runs.                        *)

Preparing == {"allocated", "making", "filling", "copied", "filled", "prep-failed"}
Cleaning  == {"cleaning", "cleaning-cut", "cleaned"}
Resting   == {"waiting", "gone", "end"}
EnginePcs == {"start", "working", "recording", "published", "discarding-cut", "discarded"}
             \cup Preparing \cup Cleaning \cup Resting
Ckpts     == {"none", "allocating", "preparation_failed", "prepared", "checkpointed",
              "published", "cleanup_pending"} \cup Closed
RunRow   == [status : {"running", "gone"} \cup Terminal, age : Nat, policy : Policies]
DirRow  == [stage : {"none", "bare", "whole", "cut"},
             state : {"none", "preparing", "prepared", "checkpointed", "publishing",
                      "conflicted", "published", "discarded"},
             journal : {"none", "conflicted", "published"} \cup Partial]
MaintRow == [pc : {"idle", "look", "open", "cutting", "mark", "collect"}, saw : Ckpts]
CopiesTyped ==
    /\ run \in RunRow /\ ckpt \in Ckpts /\ copy \in DirRow
    /\ pub \in [status : {"none", "prepared", "applying", "conflicted", "published"},
                effects : BOOLEAN]
    /\ engine \in [pc : EnginePcs, owned : BOOLEAN]
    /\ maint \in [Maintainers -> MaintRow] /\ faults \in Nat

IsWhole  == copy.stage = "whole"
HasEnded  == run.status # "running"

\* Where the engine can be: without its lease only before a write that needs
\* it, after the run has ended only in what such an engine still does, cleaning
\* up or at rest, and at rest once a day has passed.
EngineIsPlaced ==
    /\ ~engine.owned => engine.pc \in Preparing \cup {"recording", "gone"}
    /\ HasEnded => \/ engine.pc \in Preparing \cup {"recording"} /\ ~engine.owned
                \/ engine.pc \in Cleaning \cup Resting
    /\ run.status = "approved" => engine.pc \in Cleaning \cup Resting
    /\ engine.pc \in Cleaning => run.status = "approved"
    /\ HasEnded /\ run.age > 0 => engine.pc \in Resting
    /\ run.status = "gone" => run.age > RetainTerminal
    /\ ckpt = "none" /\ run.status # "gone" => engine.pc \in {"start", "gone"} /\ copy.stage = "none"

\* How the journal, the row of the publication and the copy go together.
CopyIsPlaced ==
    /\ engine.pc \in Preparing \cup {"start"} => pub.status = "none" /\ copy.journal = "none"
    /\ pub.status = "none" => ~pub.effects
    /\ pub.status = "published" /\ IsWhole => copy.journal = "published"
    /\ engine.pc \in {"cleaning-cut", "cleaned", "discarding-cut", "discarded"} => ~IsWhole

\* A copy that exists although its row says it is gone was made by an engine
\* without its lease, after maintenance looked; nothing was published from it.
Remade == run.status = "failed" /\ pub.status = "none" /\ copy.journal = "none"
MaintenanceIsSafe ==
    /\ run.status = "running" => ckpt \notin Closed
    /\ ckpt \in Closed /\ IsWhole /\ run.status # "gone" => Remade
    /\ \A m \in Maintainers :
          /\ maint[m].pc \in {"look", "open", "cutting", "mark"} => HasEnded
          /\ maint[m].pc = "mark" /\ IsWhole /\ run.status # "gone" => Remade /\ run.age = 0
          /\ maint[m].pc = "open" => run.status = "gone" \/ Due
          /\ maint[m].pc = "collect" /\ Collectable => ~IsWhole

CopiesInv == CopiesTyped /\ EngineIsPlaced /\ CopyIsPlaced /\ MaintenanceIsSafe
             /\ RunsOutliveTheirCopies

\* The row of a run that ends.
LEMMA EndIsTyped ==
    \A r \in RunRow : \A s \in Terminal : [r EXCEPT !.status = s, !.age = 0] \in RunRow
BY DEF RunRow

\* The engine allocates a copy.
LEMMA AllocateKeeps == ASSUME CopiesInv, Allocate PROVE CopiesInv'
<1> USE DEF CopiesInv, RunRow, DirRow, MaintRow, Allocate, Step, Completed, Whole, Goto, Applies, NoCopy, Ckpts, EnginePcs,
            Closed, Terminal, Preparing, Cleaning, Resting, Partial, HasEnded, IsWhole
<1>1. CopiesTyped'
  BY DEF CopiesTyped
<1>2. EngineIsPlaced'
  BY DEF CopiesTyped, EngineIsPlaced, Collectable
<1>3. CopyIsPlaced'
  BY DEF CopiesTyped, EngineIsPlaced, CopyIsPlaced, ShadowActions
<1>4. MaintenanceIsSafe'
  BY RetentionAssumption
     DEF CopiesTyped, EngineIsPlaced, CopyIsPlaced, MaintenanceIsSafe, Remade, Due,
         KeptForEver, Retention, PartialPublication, Collectable
<1>5. RunsOutliveTheirCopies'
  BY RetentionAssumption
     DEF CopiesTyped, EngineIsPlaced, CopyIsPlaced, MaintenanceIsSafe, RunsOutliveTheirCopies
<1>6. QED
  BY <1>1, <1>2, <1>3, <1>4, <1>5

\* Preparation is refused.
LEMMA RefusePreparationKeeps == ASSUME CopiesInv, RefusePreparation PROVE CopiesInv'
<1> USE DEF CopiesInv, RunRow, DirRow, MaintRow, RefusePreparation, Step, Completed, Whole, Goto, Applies, NoCopy, Ckpts, EnginePcs,
            Closed, Terminal, Preparing, Cleaning, Resting, Partial, HasEnded, IsWhole
<1>1. CopiesTyped'
  BY DEF CopiesTyped
<1>2. EngineIsPlaced'
  BY DEF CopiesTyped, EngineIsPlaced, Collectable
<1>3. CopyIsPlaced'
  BY DEF CopiesTyped, EngineIsPlaced, CopyIsPlaced, ShadowActions
<1>4. MaintenanceIsSafe'
  BY RetentionAssumption
     DEF CopiesTyped, EngineIsPlaced, CopyIsPlaced, MaintenanceIsSafe, Remade, Due,
         KeptForEver, Retention, PartialPublication, Collectable
<1>5. RunsOutliveTheirCopies'
  BY RetentionAssumption
     DEF CopiesTyped, EngineIsPlaced, CopyIsPlaced, MaintenanceIsSafe, RunsOutliveTheirCopies
<1>6. QED
  BY <1>1, <1>2, <1>3, <1>4, <1>5

\* The directories of the copy are made.
LEMMA MakeDirectoriesKeeps == ASSUME CopiesInv, MakeDirectories PROVE CopiesInv'
<1> USE DEF CopiesInv, RunRow, DirRow, MaintRow, MakeDirectories, Step, Completed, Whole, Goto, Applies, NoCopy, Ckpts, EnginePcs,
            Closed, Terminal, Preparing, Cleaning, Resting, Partial, HasEnded, IsWhole
<1>1. CopiesTyped'
  BY DEF CopiesTyped
<1>2. EngineIsPlaced'
  BY DEF CopiesTyped, EngineIsPlaced, Collectable
<1>3. CopyIsPlaced'
  BY DEF CopiesTyped, EngineIsPlaced, CopyIsPlaced, ShadowActions
<1>4. MaintenanceIsSafe'
  BY RetentionAssumption
     DEF CopiesTyped, EngineIsPlaced, CopyIsPlaced, MaintenanceIsSafe, Remade, Due,
         KeptForEver, Retention, PartialPublication, Collectable
<1>5. RunsOutliveTheirCopies'
  BY RetentionAssumption
     DEF CopiesTyped, EngineIsPlaced, CopyIsPlaced, MaintenanceIsSafe, RunsOutliveTheirCopies
<1>6. QED
  BY <1>1, <1>2, <1>3, <1>4, <1>5

\* The marker of a preparation.
LEMMA WritePreparingKeeps == ASSUME CopiesInv, WritePreparing PROVE CopiesInv'
<1> USE DEF CopiesInv, RunRow, DirRow, MaintRow, WritePreparing, Step, Completed, Whole, Goto, Applies, NoCopy, Ckpts, EnginePcs,
            Closed, Terminal, Preparing, Cleaning, Resting, Partial, HasEnded, IsWhole
<1>1. CopiesTyped'
  BY DEF CopiesTyped
<1>2. EngineIsPlaced'
  BY DEF CopiesTyped, EngineIsPlaced, Collectable
<1>3. CopyIsPlaced'
  BY DEF CopiesTyped, EngineIsPlaced, CopyIsPlaced, ShadowActions
<1>4. MaintenanceIsSafe'
  BY RetentionAssumption
     DEF CopiesTyped, EngineIsPlaced, CopyIsPlaced, MaintenanceIsSafe, Remade, Due,
         KeptForEver, Retention, PartialPublication, Collectable
<1>5. RunsOutliveTheirCopies'
  BY RetentionAssumption
     DEF CopiesTyped, EngineIsPlaced, CopyIsPlaced, MaintenanceIsSafe, RunsOutliveTheirCopies
<1>6. QED
  BY <1>1, <1>2, <1>3, <1>4, <1>5

\* The tree is copied.
LEMMA CopyTreeKeeps == ASSUME CopiesInv, CopyTree PROVE CopiesInv'
<1> USE DEF CopiesInv, RunRow, DirRow, MaintRow, CopyTree, Step, Completed, Whole, Goto, Applies, NoCopy, Ckpts, EnginePcs,
            Closed, Terminal, Preparing, Cleaning, Resting, Partial, HasEnded, IsWhole
<1>1. CopiesTyped'
  BY DEF CopiesTyped
<1>2. EngineIsPlaced'
  BY DEF CopiesTyped, EngineIsPlaced, Collectable
<1>3. CopyIsPlaced'
  BY DEF CopiesTyped, EngineIsPlaced, CopyIsPlaced, ShadowActions
<1>4. MaintenanceIsSafe'
  BY RetentionAssumption
     DEF CopiesTyped, EngineIsPlaced, CopyIsPlaced, MaintenanceIsSafe, Remade, Due,
         KeptForEver, Retention, PartialPublication, Collectable
<1>5. RunsOutliveTheirCopies'
  BY RetentionAssumption
     DEF CopiesTyped, EngineIsPlaced, CopyIsPlaced, MaintenanceIsSafe, RunsOutliveTheirCopies
<1>6. QED
  BY <1>1, <1>2, <1>3, <1>4, <1>5

\* The private repository is made.
LEMMA InitPrivateGitKeeps == ASSUME CopiesInv, InitPrivateGit PROVE CopiesInv'
<1> USE DEF CopiesInv, RunRow, DirRow, MaintRow, InitPrivateGit, Step, Completed, Whole, Goto, Applies, NoCopy, Ckpts, EnginePcs,
            Closed, Terminal, Preparing, Cleaning, Resting, Partial, HasEnded, IsWhole
<1>1. CopiesTyped'
  <2>1. copy' = [copy EXCEPT !.stage = "whole", !.state = "prepared"] \/ UNCHANGED copy
    OBVIOUS
  <2>2. [copy EXCEPT !.stage = "whole", !.state = "prepared"] \in DirRow
    BY DEF CopiesTyped, DirRow
  <2>3. copy' \in DirRow
    BY <2>1, <2>2 DEF CopiesTyped
  <2>4. engine' \in [pc : EnginePcs, owned : BOOLEAN]
    BY DEF CopiesTyped
  <2>5. QED
    BY <2>3, <2>4 DEF CopiesTyped
<1>2. EngineIsPlaced'
  BY DEF CopiesTyped, EngineIsPlaced, Collectable
<1>3. CopyIsPlaced'
  BY ZenonT(40) DEF CopiesTyped, EngineIsPlaced, CopyIsPlaced, ShadowActions
<1>4. MaintenanceIsSafe'
  <2>1. CASE UNCHANGED copy
    BY <2>1, RetentionAssumption
       DEF CopiesTyped, EngineIsPlaced, CopyIsPlaced, MaintenanceIsSafe, Remade, Due,
           KeptForEver, Retention, PartialPublication, Collectable
  <2>2. CASE copy' = [copy EXCEPT !.stage = "whole", !.state = "prepared"]
    <3>1. /\ copy'.journal = copy.journal /\ UNCHANGED <<run, pub, ckpt, maint>>
          /\ engine.pc = "copied"
      BY <2>2 DEF CopiesTyped
    <3>2. /\ pub.status = "none" /\ copy.journal = "none"
          /\ run.status # "approved" /\ ~(HasEnded /\ run.age > 0)
      BY <3>1 DEF EngineIsPlaced, CopyIsPlaced
    <3>3. run.age \in Nat /\ RetainTerminal \in Nat /\ run.status \in {"running", "gone"} \cup Terminal
      BY RetentionAssumption DEF CopiesTyped
    <3>4. QED
      BY <3>1, <3>2, <3>3
         DEF CopiesTyped, EngineIsPlaced, CopyIsPlaced, MaintenanceIsSafe, Remade, Due,
           KeptForEver, Retention, PartialPublication, Collectable
  <2>3. QED
    BY <2>1, <2>2
<1>5. RunsOutliveTheirCopies'
  BY RetentionAssumption
     DEF CopiesTyped, EngineIsPlaced, CopyIsPlaced, MaintenanceIsSafe, RunsOutliveTheirCopies
<1>6. QED
  BY <1>1, <1>2, <1>3, <1>4, <1>5

\* The preparation fails.
LEMMA PreparationFailedKeeps == ASSUME CopiesInv, PreparationFailed PROVE CopiesInv'
<1> USE DEF CopiesInv, RunRow, DirRow, MaintRow, PreparationFailed, Step, Completed, Whole, Goto, Applies, NoCopy, Ckpts, EnginePcs,
            Closed, Terminal, Preparing, Cleaning, Resting, Partial, HasEnded, IsWhole
<1>1. CopiesTyped'
  <2>1. run' \in RunRow
    BY EndIsTyped, ZenonT(40) DEF CopiesTyped
  <2>2. engine' \in [pc : EnginePcs, owned : BOOLEAN] /\ ckpt' \in Ckpts
    BY DEF CopiesTyped
  <2>3. QED
    BY <2>1, <2>2 DEF CopiesTyped
<1>2. EngineIsPlaced'
  BY ZenonT(40) DEF CopiesTyped, EngineIsPlaced, Collectable
<1>3. CopyIsPlaced'
  BY DEF CopiesTyped, EngineIsPlaced, CopyIsPlaced, ShadowActions
<1>4. MaintenanceIsSafe'
  BY RetentionAssumption
     DEF CopiesTyped, EngineIsPlaced, CopyIsPlaced, MaintenanceIsSafe, Remade, Due,
         KeptForEver, Retention, PartialPublication, Collectable
<1>5. RunsOutliveTheirCopies'
  BY RetentionAssumption
     DEF CopiesTyped, EngineIsPlaced, CopyIsPlaced, MaintenanceIsSafe, RunsOutliveTheirCopies
<1>6. QED
  BY <1>1, <1>2, <1>3, <1>4, <1>5

\* The preparation is recorded.
LEMMA RecordPreparedKeeps == ASSUME CopiesInv, RecordPrepared PROVE CopiesInv'
<1> USE DEF CopiesInv, RunRow, DirRow, MaintRow, RecordPrepared, Step, Completed, Whole, Goto, Applies, NoCopy, Ckpts, EnginePcs,
            Closed, Terminal, Preparing, Cleaning, Resting, Partial, HasEnded, IsWhole
<1>1. CopiesTyped'
  BY DEF CopiesTyped
<1>2. EngineIsPlaced'
  BY DEF CopiesTyped, EngineIsPlaced, Collectable
<1>3. CopyIsPlaced'
  BY DEF CopiesTyped, EngineIsPlaced, CopyIsPlaced, ShadowActions
<1>4. MaintenanceIsSafe'
  BY RetentionAssumption
     DEF CopiesTyped, EngineIsPlaced, CopyIsPlaced, MaintenanceIsSafe, Remade, Due,
         KeptForEver, Retention, PartialPublication, Collectable
<1>5. RunsOutliveTheirCopies'
  BY RetentionAssumption
     DEF CopiesTyped, EngineIsPlaced, CopyIsPlaced, MaintenanceIsSafe, RunsOutliveTheirCopies
<1>6. QED
  BY <1>1, <1>2, <1>3, <1>4, <1>5

\* A checkpoint is taken in the copy.
LEMMA CheckpointCopyKeeps == ASSUME CopiesInv, CheckpointCopy PROVE CopiesInv'
<1> USE DEF CopiesInv, RunRow, DirRow, MaintRow, CheckpointCopy, Step, Completed, Whole, Goto, Applies, NoCopy, Ckpts, EnginePcs,
            Closed, Terminal, Preparing, Cleaning, Resting, Partial, HasEnded, IsWhole
<1>1. CopiesTyped'
  BY DEF CopiesTyped
<1>2. EngineIsPlaced'
  BY DEF CopiesTyped, EngineIsPlaced, Collectable
<1>3. CopyIsPlaced'
  BY DEF CopiesTyped, EngineIsPlaced, CopyIsPlaced, ShadowActions
<1>4. MaintenanceIsSafe'
  BY RetentionAssumption
     DEF CopiesTyped, EngineIsPlaced, CopyIsPlaced, MaintenanceIsSafe, Remade, Due,
         KeptForEver, Retention, PartialPublication, Collectable
<1>5. RunsOutliveTheirCopies'
  BY RetentionAssumption
     DEF CopiesTyped, EngineIsPlaced, CopyIsPlaced, MaintenanceIsSafe, RunsOutliveTheirCopies
<1>6. QED
  BY <1>1, <1>2, <1>3, <1>4, <1>5

\* The checkpoint is recorded.
LEMMA RecordCheckpointKeeps == ASSUME CopiesInv, RecordCheckpoint PROVE CopiesInv'
<1> USE DEF CopiesInv, RunRow, DirRow, MaintRow, RecordCheckpoint, Step, Completed, Whole, Goto, Applies, NoCopy, Ckpts, EnginePcs,
            Closed, Terminal, Preparing, Cleaning, Resting, Partial, HasEnded, IsWhole
<1>1. CopiesTyped'
  BY DEF CopiesTyped
<1>2. EngineIsPlaced'
  BY DEF CopiesTyped, EngineIsPlaced, Collectable
<1>3. CopyIsPlaced'
  BY DEF CopiesTyped, EngineIsPlaced, CopyIsPlaced, ShadowActions
<1>4. MaintenanceIsSafe'
  BY RetentionAssumption
     DEF CopiesTyped, EngineIsPlaced, CopyIsPlaced, MaintenanceIsSafe, Remade, Due,
         KeptForEver, Retention, PartialPublication, Collectable
<1>5. RunsOutliveTheirCopies'
  BY RetentionAssumption
     DEF CopiesTyped, EngineIsPlaced, CopyIsPlaced, MaintenanceIsSafe, RunsOutliveTheirCopies
<1>6. QED
  BY <1>1, <1>2, <1>3, <1>4, <1>5

\* A publication begins.
LEMMA BeginPublicationKeeps == ASSUME CopiesInv, BeginPublication PROVE CopiesInv'
<1> USE DEF CopiesInv, RunRow, DirRow, MaintRow, BeginPublication, Step, Completed, Whole, Goto, Applies, NoCopy, Ckpts, EnginePcs,
            Closed, Terminal, Preparing, Cleaning, Resting, Partial, HasEnded, IsWhole
<1>1. CopiesTyped'
  BY DEF CopiesTyped
<1>2. EngineIsPlaced'
  BY DEF CopiesTyped, EngineIsPlaced, Collectable
<1>3. CopyIsPlaced'
  BY DEF CopiesTyped, EngineIsPlaced, CopyIsPlaced, ShadowActions
<1>4. MaintenanceIsSafe'
  BY RetentionAssumption
     DEF CopiesTyped, EngineIsPlaced, CopyIsPlaced, MaintenanceIsSafe, Remade, Due,
         KeptForEver, Retention, PartialPublication, Collectable
<1>5. RunsOutliveTheirCopies'
  BY RetentionAssumption
     DEF CopiesTyped, EngineIsPlaced, CopyIsPlaced, MaintenanceIsSafe, RunsOutliveTheirCopies
<1>6. QED
  BY <1>1, <1>2, <1>3, <1>4, <1>5

\* The preflight of a publication.
LEMMA PreflightKeeps == ASSUME CopiesInv, Preflight PROVE CopiesInv'
<1> USE DEF CopiesInv, RunRow, DirRow, MaintRow, Preflight, Step, Completed, Whole, Goto, Applies, NoCopy, Ckpts, EnginePcs,
            Closed, Terminal, Preparing, Cleaning, Resting, Partial, HasEnded, IsWhole
<1>1. CopiesTyped'
  BY DEF CopiesTyped
<1>2. EngineIsPlaced'
  BY DEF CopiesTyped, EngineIsPlaced, Collectable
<1>3. CopyIsPlaced'
  BY DEF CopiesTyped, EngineIsPlaced, CopyIsPlaced, ShadowActions
<1>4. MaintenanceIsSafe'
  BY RetentionAssumption
     DEF CopiesTyped, EngineIsPlaced, CopyIsPlaced, MaintenanceIsSafe, Remade, Due,
         KeptForEver, Retention, PartialPublication, Collectable
<1>5. RunsOutliveTheirCopies'
  BY RetentionAssumption
     DEF CopiesTyped, EngineIsPlaced, CopyIsPlaced, MaintenanceIsSafe, RunsOutliveTheirCopies
<1>6. QED
  BY <1>1, <1>2, <1>3, <1>4, <1>5

\* The effect is announced.
LEMMA AnnounceEffectKeeps == ASSUME CopiesInv, AnnounceEffect PROVE CopiesInv'
<1> USE DEF CopiesInv, RunRow, DirRow, MaintRow, AnnounceEffect, Step, Completed, Whole, Goto, Applies, NoCopy, Ckpts, EnginePcs,
            Closed, Terminal, Preparing, Cleaning, Resting, Partial, HasEnded, IsWhole
<1>1. CopiesTyped'
  BY DEF CopiesTyped
<1>2. EngineIsPlaced'
  BY DEF CopiesTyped, EngineIsPlaced, Collectable
<1>3. CopyIsPlaced'
  BY DEF CopiesTyped, EngineIsPlaced, CopyIsPlaced, ShadowActions
<1>4. MaintenanceIsSafe'
  BY RetentionAssumption
     DEF CopiesTyped, EngineIsPlaced, CopyIsPlaced, MaintenanceIsSafe, Remade, Due,
         KeptForEver, Retention, PartialPublication, Collectable
<1>5. RunsOutliveTheirCopies'
  BY RetentionAssumption
     DEF CopiesTyped, EngineIsPlaced, CopyIsPlaced, MaintenanceIsSafe, RunsOutliveTheirCopies
<1>6. QED
  BY <1>1, <1>2, <1>3, <1>4, <1>5

\* The publication conflicts.
LEMMA ConflictKeeps == ASSUME CopiesInv, Conflict PROVE CopiesInv'
<1> USE DEF CopiesInv, RunRow, DirRow, MaintRow, Conflict, Step, Completed, Whole, Goto, Applies, NoCopy, Ckpts, EnginePcs,
            Closed, Terminal, Preparing, Cleaning, Resting, Partial, HasEnded, IsWhole
<1>1. CopiesTyped'
  BY DEF CopiesTyped
<1>2. EngineIsPlaced'
  BY DEF CopiesTyped, EngineIsPlaced, Collectable
<1>3. CopyIsPlaced'
  BY DEF CopiesTyped, EngineIsPlaced, CopyIsPlaced, ShadowActions
<1>4. MaintenanceIsSafe'
  BY RetentionAssumption
     DEF CopiesTyped, EngineIsPlaced, CopyIsPlaced, MaintenanceIsSafe, Remade, Due,
         KeptForEver, Retention, PartialPublication, Collectable
<1>5. RunsOutliveTheirCopies'
  BY RetentionAssumption
     DEF CopiesTyped, EngineIsPlaced, CopyIsPlaced, MaintenanceIsSafe, RunsOutliveTheirCopies
<1>6. QED
  BY <1>1, <1>2, <1>3, <1>4, <1>5

\* The publication ends.
LEMMA PublishedKeeps == ASSUME CopiesInv, Published PROVE CopiesInv'
<1> USE DEF CopiesInv, RunRow, DirRow, MaintRow, Published, Step, Completed, Whole, Goto, Applies, NoCopy, Ckpts, EnginePcs,
            Closed, Terminal, Preparing, Cleaning, Resting, Partial, HasEnded, IsWhole
<1>1. CopiesTyped'
  BY DEF CopiesTyped
<1>2. EngineIsPlaced'
  BY DEF CopiesTyped, EngineIsPlaced, Collectable
<1>3. CopyIsPlaced'
  BY DEF CopiesTyped, EngineIsPlaced, CopyIsPlaced, ShadowActions
<1>4. MaintenanceIsSafe'
  BY RetentionAssumption
     DEF CopiesTyped, EngineIsPlaced, CopyIsPlaced, MaintenanceIsSafe, Remade, Due,
         KeptForEver, Retention, PartialPublication, Collectable
<1>5. RunsOutliveTheirCopies'
  BY RetentionAssumption
     DEF CopiesTyped, EngineIsPlaced, CopyIsPlaced, MaintenanceIsSafe, RunsOutliveTheirCopies
<1>6. QED
  BY <1>1, <1>2, <1>3, <1>4, <1>5

\* The run is approved.
LEMMA ApproveKeeps == ASSUME CopiesInv, Approve PROVE CopiesInv'
<1> USE DEF CopiesInv, RunRow, DirRow, MaintRow, Approve, Step, Completed, Whole, Goto, Applies, NoCopy, Ckpts, EnginePcs,
            Closed, Terminal, Preparing, Cleaning, Resting, Partial, HasEnded, IsWhole
<1>1. CopiesTyped'
  <2>1. run' \in RunRow
    BY EndIsTyped DEF CopiesTyped
  <2>2. engine' \in [pc : EnginePcs, owned : BOOLEAN] /\ ckpt' \in Ckpts
    BY DEF CopiesTyped
  <2>3. QED
    BY <2>1, <2>2 DEF CopiesTyped
<1>2. EngineIsPlaced'
  BY DEF CopiesTyped, EngineIsPlaced, Collectable
<1>3. CopyIsPlaced'
  BY DEF CopiesTyped, EngineIsPlaced, CopyIsPlaced, ShadowActions
<1>4. MaintenanceIsSafe'
  BY RetentionAssumption
     DEF CopiesTyped, EngineIsPlaced, CopyIsPlaced, MaintenanceIsSafe, Remade, Due,
         KeptForEver, Retention, PartialPublication, Collectable
<1>5. RunsOutliveTheirCopies'
  BY RetentionAssumption
     DEF CopiesTyped, EngineIsPlaced, CopyIsPlaced, MaintenanceIsSafe, RunsOutliveTheirCopies
<1>6. QED
  BY <1>1, <1>2, <1>3, <1>4, <1>5

\* Cleaning up begins.
LEMMA CleanUpKeeps == ASSUME CopiesInv, CleanUp PROVE CopiesInv'
<1> USE DEF CopiesInv, RunRow, DirRow, MaintRow, CleanUp, Step, Completed, Whole, Goto, Applies, NoCopy, Ckpts, EnginePcs,
            Closed, Terminal, Preparing, Cleaning, Resting, Partial, HasEnded, IsWhole
<1>1. CopiesTyped'
  BY DEF CopiesTyped
<1>2. EngineIsPlaced'
  BY DEF CopiesTyped, EngineIsPlaced, Collectable
<1>3. CopyIsPlaced'
  BY DEF CopiesTyped, EngineIsPlaced, CopyIsPlaced, ShadowActions
<1>4. MaintenanceIsSafe'
  BY RetentionAssumption
     DEF CopiesTyped, EngineIsPlaced, CopyIsPlaced, MaintenanceIsSafe, Remade, Due,
         KeptForEver, Retention, PartialPublication, Collectable
<1>5. RunsOutliveTheirCopies'
  BY RetentionAssumption
     DEF CopiesTyped, EngineIsPlaced, CopyIsPlaced, MaintenanceIsSafe, RunsOutliveTheirCopies
<1>6. QED
  BY <1>1, <1>2, <1>3, <1>4, <1>5

\* The copy is removed.
LEMMA FinishCutKeeps == ASSUME CopiesInv, FinishCut PROVE CopiesInv'
<1> USE DEF CopiesInv, RunRow, DirRow, MaintRow, FinishCut, Step, Completed, Whole, Goto, Applies, NoCopy, Ckpts, EnginePcs,
            Closed, Terminal, Preparing, Cleaning, Resting, Partial, HasEnded, IsWhole
<1>1. CopiesTyped'
  BY DEF CopiesTyped
<1>2. EngineIsPlaced'
  BY DEF CopiesTyped, EngineIsPlaced, Collectable
<1>3. CopyIsPlaced'
  BY DEF CopiesTyped, EngineIsPlaced, CopyIsPlaced, ShadowActions
<1>4. MaintenanceIsSafe'
  BY RetentionAssumption
     DEF CopiesTyped, EngineIsPlaced, CopyIsPlaced, MaintenanceIsSafe, Remade, Due,
         KeptForEver, Retention, PartialPublication, Collectable
<1>5. RunsOutliveTheirCopies'
  BY RetentionAssumption
     DEF CopiesTyped, EngineIsPlaced, CopyIsPlaced, MaintenanceIsSafe, RunsOutliveTheirCopies
<1>6. QED
  BY <1>1, <1>2, <1>3, <1>4, <1>5

\* The row is closed.
LEMMA MarkCutKeeps == ASSUME CopiesInv, MarkCut PROVE CopiesInv'
<1> USE DEF CopiesInv, RunRow, DirRow, MaintRow, MarkCut, Step, Completed, Whole, Goto, Applies, NoCopy, Ckpts, EnginePcs,
            Closed, Terminal, Preparing, Cleaning, Resting, Partial, HasEnded, IsWhole
<1>1. CopiesTyped'
  <2>1. run' \in RunRow
    BY EndIsTyped, ZenonT(40) DEF CopiesTyped
  <2>2. engine' \in [pc : EnginePcs, owned : BOOLEAN] /\ ckpt' \in Ckpts
    BY DEF CopiesTyped
  <2>3. QED
    BY <2>1, <2>2 DEF CopiesTyped
<1>2. EngineIsPlaced'
  BY DEF CopiesTyped, EngineIsPlaced, Collectable
<1>3. CopyIsPlaced'
  BY DEF CopiesTyped, EngineIsPlaced, CopyIsPlaced, ShadowActions
<1>4. MaintenanceIsSafe'
  BY RetentionAssumption, ZenonT(40)
     DEF CopiesTyped, EngineIsPlaced, CopyIsPlaced, MaintenanceIsSafe, Remade, Due,
         KeptForEver, Retention, PartialPublication, Collectable
<1>5. RunsOutliveTheirCopies'
  BY RetentionAssumption
     DEF CopiesTyped, EngineIsPlaced, CopyIsPlaced, MaintenanceIsSafe, RunsOutliveTheirCopies
<1>6. QED
  BY <1>1, <1>2, <1>3, <1>4, <1>5

\* The copy is discarded.
LEMMA DiscardShadowKeeps == ASSUME CopiesInv, DiscardShadow PROVE CopiesInv'
<1> USE DEF CopiesInv, RunRow, DirRow, MaintRow, DiscardShadow, Step, Completed, Whole, Goto, Applies, NoCopy, Ckpts, EnginePcs,
            Closed, Terminal, Preparing, Cleaning, Resting, Partial, HasEnded, IsWhole
<1>1. CopiesTyped'
  BY DEF CopiesTyped
<1>2. EngineIsPlaced'
  BY DEF CopiesTyped, EngineIsPlaced, Collectable
<1>3. CopyIsPlaced'
  BY DEF CopiesTyped, EngineIsPlaced, CopyIsPlaced, ShadowActions
<1>4. MaintenanceIsSafe'
  BY RetentionAssumption
     DEF CopiesTyped, EngineIsPlaced, CopyIsPlaced, MaintenanceIsSafe, Remade, Due,
         KeptForEver, Retention, PartialPublication, Collectable
<1>5. RunsOutliveTheirCopies'
  BY RetentionAssumption
     DEF CopiesTyped, EngineIsPlaced, CopyIsPlaced, MaintenanceIsSafe, RunsOutliveTheirCopies
<1>6. QED
  BY <1>1, <1>2, <1>3, <1>4, <1>5

\* The run fails.
LEMMA MarkFailedKeeps == ASSUME CopiesInv, MarkFailed PROVE CopiesInv'
<1> USE DEF CopiesInv, RunRow, DirRow, MaintRow, MarkFailed, Step, Completed, Whole, Goto, Applies, NoCopy, Ckpts, EnginePcs,
            Closed, Terminal, Preparing, Cleaning, Resting, Partial, HasEnded, IsWhole
<1>1. CopiesTyped'
  <2>1. run' \in RunRow
    BY EndIsTyped DEF CopiesTyped
  <2>2. engine' \in [pc : EnginePcs, owned : BOOLEAN] /\ ckpt' \in Ckpts
    BY DEF CopiesTyped
  <2>3. QED
    BY <2>1, <2>2 DEF CopiesTyped
<1>2. EngineIsPlaced'
  BY DEF CopiesTyped, EngineIsPlaced, Collectable
<1>3. CopyIsPlaced'
  BY DEF CopiesTyped, EngineIsPlaced, CopyIsPlaced, ShadowActions
<1>4. MaintenanceIsSafe'
  BY RetentionAssumption
     DEF CopiesTyped, EngineIsPlaced, CopyIsPlaced, MaintenanceIsSafe, Remade, Due,
         KeptForEver, Retention, PartialPublication, Collectable
<1>5. RunsOutliveTheirCopies'
  BY RetentionAssumption
     DEF CopiesTyped, EngineIsPlaced, CopyIsPlaced, MaintenanceIsSafe, RunsOutliveTheirCopies
<1>6. QED
  BY <1>1, <1>2, <1>3, <1>4, <1>5

\* A run is resumed.
LEMMA ResumeKeeps == ASSUME CopiesInv, Resume PROVE CopiesInv'
<1> USE DEF CopiesInv, RunRow, DirRow, MaintRow, Resume, Step, Completed, Whole, Goto, Applies, NoCopy, Ckpts, EnginePcs,
            Closed, Terminal, Preparing, Cleaning, Resting, Partial, HasEnded, IsWhole
<1>1. CopiesTyped'
  BY DEF CopiesTyped
<1>2. EngineIsPlaced'
  BY DEF CopiesTyped, EngineIsPlaced, Collectable
<1>3. CopyIsPlaced'
  BY DEF CopiesTyped, EngineIsPlaced, CopyIsPlaced, ShadowActions
<1>4. MaintenanceIsSafe'
  BY RetentionAssumption
     DEF CopiesTyped, EngineIsPlaced, CopyIsPlaced, MaintenanceIsSafe, Remade, Due,
         KeptForEver, Retention, PartialPublication, Collectable
<1>5. RunsOutliveTheirCopies'
  BY RetentionAssumption
     DEF CopiesTyped, EngineIsPlaced, CopyIsPlaced, MaintenanceIsSafe, RunsOutliveTheirCopies
<1>6. QED
  BY <1>1, <1>2, <1>3, <1>4, <1>5

\* The lease is lost.
LEMMA LoseLeaseKeeps == ASSUME CopiesInv, LoseLease PROVE CopiesInv'
<1> USE DEF CopiesInv, RunRow, DirRow, MaintRow, LoseLease, Step, Completed, Whole, Goto, Applies, NoCopy, Ckpts, EnginePcs,
            Closed, Terminal, Preparing, Cleaning, Resting, Partial, HasEnded, IsWhole
<1>1. CopiesTyped'
  <2>1. engine' \in [pc : EnginePcs, owned : BOOLEAN]
    BY DEF CopiesTyped
  <2>2. QED
    BY <2>1 DEF CopiesTyped
<1>2. EngineIsPlaced'
  BY DEF CopiesTyped, EngineIsPlaced, Collectable
<1>3. CopyIsPlaced'
  BY DEF CopiesTyped, EngineIsPlaced, CopyIsPlaced, ShadowActions
<1>4. MaintenanceIsSafe'
  BY RetentionAssumption
     DEF CopiesTyped, EngineIsPlaced, CopyIsPlaced, MaintenanceIsSafe, Remade, Due,
         KeptForEver, Retention, PartialPublication, Collectable
<1>5. RunsOutliveTheirCopies'
  BY RetentionAssumption
     DEF CopiesTyped, EngineIsPlaced, CopyIsPlaced, MaintenanceIsSafe, RunsOutliveTheirCopies
<1>6. QED
  BY <1>1, <1>2, <1>3, <1>4, <1>5

\* The engine dies.
LEMMA EngineDiesKeeps == ASSUME CopiesInv, EngineDies PROVE CopiesInv'
<1> USE DEF CopiesInv, RunRow, DirRow, MaintRow, EngineDies, Step, Completed, Whole, Goto, Applies, NoCopy, Ckpts, EnginePcs,
            Closed, Terminal, Preparing, Cleaning, Resting, Partial, HasEnded, IsWhole
<1>1. CopiesTyped'
  BY DEF CopiesTyped
<1>2. EngineIsPlaced'
  BY DEF CopiesTyped, EngineIsPlaced, Collectable
<1>3. CopyIsPlaced'
  BY DEF CopiesTyped, EngineIsPlaced, CopyIsPlaced, ShadowActions
<1>4. MaintenanceIsSafe'
  BY RetentionAssumption
     DEF CopiesTyped, EngineIsPlaced, CopyIsPlaced, MaintenanceIsSafe, Remade, Due,
         KeptForEver, Retention, PartialPublication, Collectable
<1>5. RunsOutliveTheirCopies'
  BY RetentionAssumption
     DEF CopiesTyped, EngineIsPlaced, CopyIsPlaced, MaintenanceIsSafe, RunsOutliveTheirCopies
<1>6. QED
  BY <1>1, <1>2, <1>3, <1>4, <1>5

\* A day passes.
LEMMA DayPassesKeeps == ASSUME CopiesInv, DayPasses PROVE CopiesInv'
<1> USE DEF CopiesInv, RunRow, DirRow, MaintRow, DayPasses, Step, Completed, Whole, Goto, Applies, NoCopy, Ckpts, EnginePcs,
            Closed, Terminal, Preparing, Cleaning, Resting, Partial, HasEnded, IsWhole
<1>1. CopiesTyped'
  BY DEF CopiesTyped
<1>2. EngineIsPlaced'
  BY DEF CopiesTyped, EngineIsPlaced, Collectable
<1>3. CopyIsPlaced'
  BY DEF CopiesTyped, EngineIsPlaced, CopyIsPlaced, ShadowActions
<1>4. MaintenanceIsSafe'
  BY RetentionAssumption
     DEF CopiesTyped, EngineIsPlaced, CopyIsPlaced, MaintenanceIsSafe, Remade, Due,
         KeptForEver, Retention, PartialPublication, Collectable
<1>5. RunsOutliveTheirCopies'
  BY RetentionAssumption
     DEF CopiesTyped, EngineIsPlaced, CopyIsPlaced, MaintenanceIsSafe, RunsOutliveTheirCopies
<1>6. QED
  BY <1>1, <1>2, <1>3, <1>4, <1>5

\* A maintainer selects a copy.
LEMMA SelectKeeps == ASSUME CopiesInv, NEW m \in Maintainers, Select(m) PROVE CopiesInv'
<1> USE DEF CopiesInv, RunRow, DirRow, MaintRow, Select, Step, Completed, Whole, Goto, Applies, NoCopy, Ckpts, EnginePcs,
            Closed, Terminal, Preparing, Cleaning, Resting, Partial, HasEnded, IsWhole
<1>1. CopiesTyped'
  BY DEF CopiesTyped
<1>2. EngineIsPlaced'
  BY DEF CopiesTyped, EngineIsPlaced, Collectable
<1>3. CopyIsPlaced'
  BY DEF CopiesTyped, EngineIsPlaced, CopyIsPlaced, ShadowActions
<1>4. MaintenanceIsSafe'
  BY RetentionAssumption
     DEF CopiesTyped, EngineIsPlaced, CopyIsPlaced, MaintenanceIsSafe, Remade, Due,
         KeptForEver, Retention, PartialPublication, Collectable
<1>5. RunsOutliveTheirCopies'
  BY RetentionAssumption
     DEF CopiesTyped, EngineIsPlaced, CopyIsPlaced, MaintenanceIsSafe, RunsOutliveTheirCopies
<1>6. QED
  BY <1>1, <1>2, <1>3, <1>4, <1>5

\* A maintainer finds no copy.
LEMMA FindMissingKeeps == ASSUME CopiesInv, NEW m \in Maintainers, FindMissing(m) PROVE CopiesInv'
<1> USE DEF CopiesInv, RunRow, DirRow, MaintRow, FindMissing, Step, Completed, Whole, Goto, Applies, NoCopy, Ckpts, EnginePcs,
            Closed, Terminal, Preparing, Cleaning, Resting, Partial, HasEnded, IsWhole
<1>1. CopiesTyped'
  BY DEF CopiesTyped
<1>2. EngineIsPlaced'
  BY DEF CopiesTyped, EngineIsPlaced, Collectable
<1>3. CopyIsPlaced'
  BY DEF CopiesTyped, EngineIsPlaced, CopyIsPlaced, ShadowActions
<1>4. MaintenanceIsSafe'
  BY RetentionAssumption
     DEF CopiesTyped, EngineIsPlaced, CopyIsPlaced, MaintenanceIsSafe, Remade, Due,
         KeptForEver, Retention, PartialPublication, Collectable
<1>5. RunsOutliveTheirCopies'
  BY RetentionAssumption
     DEF CopiesTyped, EngineIsPlaced, CopyIsPlaced, MaintenanceIsSafe, RunsOutliveTheirCopies
<1>6. QED
  BY <1>1, <1>2, <1>3, <1>4, <1>5

\* A maintainer looks at the retention.
LEMMA CheckRetentionKeeps == ASSUME CopiesInv, NEW m \in Maintainers, CheckRetention(m) PROVE CopiesInv'
<1> USE DEF CopiesInv, RunRow, DirRow, MaintRow, CheckRetention, Step, Completed, Whole, Goto, Applies, NoCopy, Ckpts, EnginePcs,
            Closed, Terminal, Preparing, Cleaning, Resting, Partial, HasEnded, IsWhole
<1>1. CopiesTyped'
  BY DEF CopiesTyped
<1>2. EngineIsPlaced'
  BY DEF CopiesTyped, EngineIsPlaced, Collectable
<1>3. CopyIsPlaced'
  BY DEF CopiesTyped, EngineIsPlaced, CopyIsPlaced, ShadowActions
<1>4. MaintenanceIsSafe'
  BY RetentionAssumption
     DEF CopiesTyped, EngineIsPlaced, CopyIsPlaced, MaintenanceIsSafe, Remade, Due,
         KeptForEver, Retention, PartialPublication, Collectable
<1>5. RunsOutliveTheirCopies'
  BY RetentionAssumption
     DEF CopiesTyped, EngineIsPlaced, CopyIsPlaced, MaintenanceIsSafe, RunsOutliveTheirCopies
<1>6. QED
  BY <1>1, <1>2, <1>3, <1>4, <1>5

\* A maintainer leaves the copy.
LEMMA RetainKeeps == ASSUME CopiesInv, NEW m \in Maintainers, Retain(m) PROVE CopiesInv'
<1> USE DEF CopiesInv, RunRow, DirRow, MaintRow, Retain, Step, Completed, Whole, Goto, Applies, NoCopy, Ckpts, EnginePcs,
            Closed, Terminal, Preparing, Cleaning, Resting, Partial, HasEnded, IsWhole
<1>1. CopiesTyped'
  BY DEF CopiesTyped
<1>2. EngineIsPlaced'
  BY DEF CopiesTyped, EngineIsPlaced, Collectable
<1>3. CopyIsPlaced'
  BY DEF CopiesTyped, EngineIsPlaced, CopyIsPlaced, ShadowActions
<1>4. MaintenanceIsSafe'
  <2>1. Collectable /\ IsWhole => Forced(m) \/ Final \/ Discardable
    BY DEF EngineIsPlaced, MaintenanceIsSafe, Remade, Collectable, Discardable
  <2>2. UNCHANGED <<run, ckpt, copy, pub>>
    OBVIOUS
  <2>3. \A n \in Maintainers : maint'[n].pc = IF n = m THEN "collect" ELSE maint[n].pc
    BY DEF CopiesTyped
  <2>4. QED
    BY <2>1, <2>2, <2>3
       DEF CopiesTyped, EngineIsPlaced, CopyIsPlaced, MaintenanceIsSafe, Remade, Due,
           KeptForEver, Retention, PartialPublication, Collectable
<1>5. RunsOutliveTheirCopies'
  BY RetentionAssumption
     DEF CopiesTyped, EngineIsPlaced, CopyIsPlaced, MaintenanceIsSafe, RunsOutliveTheirCopies
<1>6. QED
  BY <1>1, <1>2, <1>3, <1>4, <1>5

\* A maintainer begins to remove.
LEMMA CutKeeps == ASSUME CopiesInv, NEW m \in Maintainers, Cut(m) PROVE CopiesInv'
<1> USE DEF CopiesInv, RunRow, DirRow, MaintRow, Cut, Step, Completed, Whole, Goto, Applies, NoCopy, Ckpts, EnginePcs,
            Closed, Terminal, Preparing, Cleaning, Resting, Partial, HasEnded, IsWhole
<1>1. CopiesTyped'
  <2>1. \A s \in {copy.state, "discarded"} :
           [copy EXCEPT !.stage = "cut", !.state = s] \in DirRow
    BY DEF CopiesTyped, DirRow
  <2>2. copy' \in DirRow
    BY <2>1
  <2>3. maint' \in [Maintainers -> MaintRow]
    BY DEF CopiesTyped, MaintRow
  <2>4. QED
    BY <2>2, <2>3 DEF CopiesTyped
<1>2. EngineIsPlaced'
  BY DEF CopiesTyped, EngineIsPlaced, Collectable
<1>3. CopyIsPlaced'
  BY DEF CopiesTyped, EngineIsPlaced, CopyIsPlaced, ShadowActions
<1>4. MaintenanceIsSafe'
  BY RetentionAssumption
     DEF CopiesTyped, EngineIsPlaced, CopyIsPlaced, MaintenanceIsSafe, Remade, Due,
         KeptForEver, Retention, PartialPublication, Collectable
<1>5. RunsOutliveTheirCopies'
  BY RetentionAssumption
     DEF CopiesTyped, EngineIsPlaced, CopyIsPlaced, MaintenanceIsSafe, RunsOutliveTheirCopies
<1>6. QED
  BY <1>1, <1>2, <1>3, <1>4, <1>5

\* A maintainer has removed.
LEMMA CutDoneKeeps == ASSUME CopiesInv, NEW m \in Maintainers, CutDone(m) PROVE CopiesInv'
<1> USE DEF CopiesInv, RunRow, DirRow, MaintRow, CutDone, Step, Completed, Whole, Goto, Applies, NoCopy, Ckpts, EnginePcs,
            Closed, Terminal, Preparing, Cleaning, Resting, Partial, HasEnded, IsWhole
<1>1. CopiesTyped'
  BY DEF CopiesTyped
<1>2. EngineIsPlaced'
  BY DEF CopiesTyped, EngineIsPlaced, Collectable
<1>3. CopyIsPlaced'
  BY DEF CopiesTyped, EngineIsPlaced, CopyIsPlaced, ShadowActions
<1>4. MaintenanceIsSafe'
  BY RetentionAssumption
     DEF CopiesTyped, EngineIsPlaced, CopyIsPlaced, MaintenanceIsSafe, Remade, Due,
         KeptForEver, Retention, PartialPublication, Collectable
<1>5. RunsOutliveTheirCopies'
  BY RetentionAssumption
     DEF CopiesTyped, EngineIsPlaced, CopyIsPlaced, MaintenanceIsSafe, RunsOutliveTheirCopies
<1>6. QED
  BY <1>1, <1>2, <1>3, <1>4, <1>5

\* A maintainer closes the row.
LEMMA MarkKeeps == ASSUME CopiesInv, NEW m \in Maintainers, Mark(m) PROVE CopiesInv'
<1> USE DEF CopiesInv, RunRow, DirRow, MaintRow, Mark, Step, Completed, Whole, Goto, Applies, NoCopy, Ckpts, EnginePcs,
            Closed, Terminal, Preparing, Cleaning, Resting, Partial, HasEnded, IsWhole
<1>1. CopiesTyped'
  BY DEF CopiesTyped
<1>2. EngineIsPlaced'
  BY DEF CopiesTyped, EngineIsPlaced, Collectable
<1>3. CopyIsPlaced'
  BY DEF CopiesTyped, EngineIsPlaced, CopyIsPlaced, ShadowActions
<1>4. MaintenanceIsSafe'
  BY RetentionAssumption
     DEF CopiesTyped, EngineIsPlaced, CopyIsPlaced, MaintenanceIsSafe, Remade, Due,
         KeptForEver, Retention, PartialPublication, Collectable
<1>5. RunsOutliveTheirCopies'
  BY RetentionAssumption
     DEF CopiesTyped, EngineIsPlaced, CopyIsPlaced, MaintenanceIsSafe, RunsOutliveTheirCopies
<1>6. QED
  BY <1>1, <1>2, <1>3, <1>4, <1>5

\* A maintainer collects.
LEMMA CollectKeeps == ASSUME CopiesInv, NEW m \in Maintainers, Collect(m) PROVE CopiesInv'
<1> USE DEF CopiesInv, RunRow, DirRow, MaintRow, Collect, Step, Completed, Whole, Goto, Applies, NoCopy, Ckpts, EnginePcs,
            Closed, Terminal, Preparing, Cleaning, Resting, Partial, HasEnded, IsWhole
<1>1. CopiesTyped'
  BY DEF CopiesTyped
<1>2. EngineIsPlaced'
  BY RetentionAssumption DEF CopiesTyped, EngineIsPlaced, Collectable
<1>3. CopyIsPlaced'
  BY DEF CopiesTyped, EngineIsPlaced, CopyIsPlaced, ShadowActions
<1>4. MaintenanceIsSafe'
  BY RetentionAssumption
     DEF CopiesTyped, EngineIsPlaced, CopyIsPlaced, MaintenanceIsSafe, Remade, Due,
         KeptForEver, Retention, PartialPublication, Collectable
<1>5. RunsOutliveTheirCopies'
  BY RetentionAssumption
     DEF CopiesTyped, EngineIsPlaced, CopyIsPlaced, MaintenanceIsSafe, RunsOutliveTheirCopies
<1>6. QED
  BY <1>1, <1>2, <1>3, <1>4, <1>5

\* A maintainer dies.
LEMMA MaintainerDiesKeeps == ASSUME CopiesInv, NEW m \in Maintainers, MaintainerDies(m) PROVE CopiesInv'
<1> USE DEF CopiesInv, RunRow, DirRow, MaintRow, MaintainerDies, Step, Completed, Whole, Goto, Applies, NoCopy, Ckpts, EnginePcs,
            Closed, Terminal, Preparing, Cleaning, Resting, Partial, HasEnded, IsWhole
<1>1. CopiesTyped'
  BY DEF CopiesTyped
<1>2. EngineIsPlaced'
  BY DEF CopiesTyped, EngineIsPlaced, Collectable
<1>3. CopyIsPlaced'
  BY DEF CopiesTyped, EngineIsPlaced, CopyIsPlaced, ShadowActions
<1>4. MaintenanceIsSafe'
  BY RetentionAssumption
     DEF CopiesTyped, EngineIsPlaced, CopyIsPlaced, MaintenanceIsSafe, Remade, Due,
         KeptForEver, Retention, PartialPublication, Collectable
<1>5. RunsOutliveTheirCopies'
  BY RetentionAssumption
     DEF CopiesTyped, EngineIsPlaced, CopyIsPlaced, MaintenanceIsSafe, RunsOutliveTheirCopies
<1>6. QED
  BY <1>1, <1>2, <1>3, <1>4, <1>5

\* Every step of an engine, of a maintainer and of time.
LEMMA CopiesStep == CopiesInv /\ [CopiesNext]_copyVars => CopiesInv'
<1> SUFFICES ASSUME CopiesInv, [CopiesNext]_copyVars PROVE CopiesInv'
  OBVIOUS
<1>1. CASE UNCHANGED copyVars
  BY <1>1 DEF copyVars, CopiesInv, CopiesTyped, EngineIsPlaced, CopyIsPlaced,
     MaintenanceIsSafe, RunsOutliveTheirCopies, HasEnded, IsWhole, Remade, Due, KeptForEver,
     Retention, PartialPublication, Collectable
<1>2. CASE Execute
  BY <1>2, AllocateKeeps, RefusePreparationKeeps, MakeDirectoriesKeeps, WritePreparingKeeps,
     CopyTreeKeeps, InitPrivateGitKeeps, PreparationFailedKeeps, RecordPreparedKeeps,
     CheckpointCopyKeeps, RecordCheckpointKeeps, BeginPublicationKeeps, PreflightKeeps,
     AnnounceEffectKeeps, ConflictKeeps, PublishedKeeps, ApproveKeeps, CleanUpKeeps,
     FinishCutKeeps, MarkCutKeeps, DiscardShadowKeeps, MarkFailedKeeps, ResumeKeeps,
     LoseLeaseKeeps, EngineDiesKeeps
     DEF Execute
<1>3. CASE DayPasses
  BY <1>3, DayPassesKeeps
<1>4. ASSUME NEW m \in Maintainers, Maintain(m) PROVE CopiesInv'
  BY <1>4, SelectKeeps, FindMissingKeeps, CheckRetentionKeeps, RetainKeeps, CutKeeps,
     CutDoneKeeps, MarkKeeps, CollectKeeps, MaintainerDiesKeeps
     DEF Maintain
<1>5. QED
  BY <1>1, <1>2, <1>3, <1>4 DEF CopiesNext

\* No run has a copy at first.
LEMMA CopiesStart == CopiesInit => CopiesInv
<1> SUFFICES ASSUME CopiesInit PROVE CopiesInv
  OBVIOUS
<1>1. run.status = "running" /\ run.age = 0 /\ run \in RunRow
  BY DEF CopiesInit, RunRow
<1>2. CopiesTyped
  BY <1>1 DEF CopiesInit, CopiesTyped, DirRow, MaintRow, Ckpts, EnginePcs, NoCopy, Partial
<1>3. /\ copy.stage = "none" /\ copy.journal = "none" /\ pub.status = "none" /\ ~pub.effects
      /\ ckpt = "none" /\ engine.pc = "start" /\ engine.owned
      /\ \A m \in Maintainers : maint[m].pc = "idle"
  BY DEF CopiesInit, NoCopy
<1>4. EngineIsPlaced /\ CopyIsPlaced /\ RunsOutliveTheirCopies
  BY <1>1, <1>3 DEF EngineIsPlaced, CopyIsPlaced, RunsOutliveTheirCopies, HasEnded, IsWhole,
                    Preparing, Cleaning
<1>5. MaintenanceIsSafe
  BY <1>1, <1>3 DEF MaintenanceIsSafe, Closed, IsWhole
<1>6. QED
  BY <1>2, <1>4, <1>5 DEF CopiesInv

\* A run is forgotten only when its copy can no longer be opened, so that no copy
\* is left that nothing would find again (garbage_collect).
THEOREM CopiesKeepTheirRuns == Spec => []RunsOutliveTheirCopies
<1>1. CopiesInv => RunsOutliveTheirCopies
  BY DEF CopiesInv
<1>2. QED
  BY <1>1, CopiesStart, CopiesStep, CopiesOnly, PTL

\* Maintenance removes a copy only of a completed run whose retention is over, and
\* never one that is needed to undo what was published (prune_shadow_workspaces).
THEOREM NeededCopiesAreKept == Spec => NeededCopiesStay
<1> DEFINE Kept ==
      \A m \in Maintainers :
          maint[m].pc = "open" /\ maint'[m].pc = "cutting" /\ copy.stage = "whole" =>
              /\ run.status \in Terminal /\ run.age >= KeptFor[run.status]
              /\ run.status = "approved" => run.policy.cleans
              /\ copy.journal = "published" \/ ~pub.effects
<1>1. CopiesInv => Kept
  <2> SUFFICES ASSUME CopiesInv, NEW m \in Maintainers, maint[m].pc = "open",
                      copy.stage = "whole"
               PROVE  /\ run.status \in Terminal /\ run.age >= KeptFor[run.status]
                      /\ run.status = "approved" => run.policy.cleans
                      /\ copy.journal = "published" \/ ~pub.effects
    OBVIOUS
  <2>1. run.status # "gone" /\ HasEnded /\ Due
    BY DEF CopiesInv, RunsOutliveTheirCopies, MaintenanceIsSafe
  <2>2. run.status \in Terminal
    BY <2>1 DEF CopiesInv, CopiesTyped, RunRow, HasEnded
  <2>3. KeptFor[run.status] = Retention
    BY <2>2 DEF KeptFor, Retention, Terminal
  <2>4. copy.journal = "published" \/ ~pub.effects
    BY <2>1 DEF CopiesInv, CopyIsPlaced, IsWhole, Due, PartialPublication
  <2>5. QED
    BY <2>1, <2>2, <2>3, <2>4 DEF Due, KeptForEver
<1>2. CopiesInv /\ [CopiesNext]_copyVars => [Kept]_copyVars
  BY <1>1
<1> HIDE DEF Kept
<1>3. Spec => [][Kept]_copyVars
  BY <1>2, CopiesStart, CopiesStep, CopiesOnly, PTL
<1>4. QED
  BY <1>3 DEF Kept, NeededCopiesStay

-----------------------------------------------------------------------------
(* Evidence bundles.                                                        *)

Seen      == [run : 0..MaxStates, rest : 0..MaxStates]
BundleRow == [made : BOOLEAN, of : Seen, files : 0..Files, hashed : {0, Files}]
ExportRow == [pc : {"idle", "rest", "look", "make", "write", "answered"}, saw : Seen,
              dir : Names \cup {NoBundle}]
EvidenceTyped ==
    /\ durable \in 1..MaxStates /\ bundles \in [Names -> BundleRow]
    /\ exporter \in [Exporters -> ExportRow] /\ deaths \in Nat
    /\ \A e \in Exporters :
          /\ exporter[e].pc = "rest" => exporter[e].saw.run \in 1..durable
          /\ exporter[e].pc \in {"look", "make", "write", "answered"} =>
                exporter[e].saw \in Projection

IsComplete(n) == bundles[n].files = Files /\ bundles[n].hashed = Files

\* A directory holds files of the state it is named after, once it is made.
NamesTellTheState ==
    \A n \in Names : /\ ~bundles[n].made => bundles[n].files = 0
                     /\ bundles[n].files > 0 => bundles[n].of = n[1]

\* Who writes has the directory for itself, without hashes until the end; who is
\* about to make one has found no bundle that its own name would replace.
WritesAlone(e) ==
    LET dir == exporter[e].dir IN
    exporter[e].pc = "write" =>
        /\ dir \in Names /\ dir[1] = exporter[e].saw /\ dir[2] \in {NoBundle, e}
        /\ bundles[dir].made /\ bundles[dir].hashed = 0
        /\ \A d \in Exporters \ {e} : exporter[d].pc = "write" => exporter[d].dir # dir
MakesAnew(e) ==
    exporter[e].pc = "make" => ~IsComplete(<<exporter[e].saw, e>>)
AnswersWhole(e) ==
    LET dir == exporter[e].dir IN
    exporter[e].pc = "answered" =>
        /\ dir \in Names /\ bundles[dir].files = Files /\ bundles[dir].hashed = Files
        /\ bundles[dir].of = exporter[e].saw
WritersAreAlone == \A e \in Exporters : WritesAlone(e) /\ MakesAnew(e) /\ AnswersWhole(e)

EvidenceInv == EvidenceTyped /\ NamesTellTheState /\ WritersAreAlone

\* The bounds.
LEMMA EvidenceNumbers ==
    /\ Files \in Nat /\ Files >= 1 /\ MaxStates \in Nat /\ MaxStates >= 1
    /\ NoBundle \notin Exporters
BY EvidenceAssumption

\* What a directory and an export begin as.
LEMMA Beginnings ==
    /\ Missing \in BundleRow /\ ~Missing.made /\ Missing.files = 0 /\ Missing.hashed = 0
    /\ NewExport \in ExportRow /\ NewExport.pc = "idle"
BY EvidenceNumbers DEF Missing, BundleRow, NewExport, ExportRow, Unread, Seen

\* A directory is named after the state that was read.
LEMMA NameFacts ==
    /\ \A s \in Projection, e \in Exporters \cup {NoBundle} :
          <<s, e>> \in Names /\ <<s, e>>[1] = s /\ <<s, e>>[2] = e
    /\ \A n \in Names : n[1] \in Projection
BY DEF Names

\* An export goes on.
LEMMA ExportFacts ==
    \A r \in ExportRow : \A pc \in {"rest", "look", "make", "write", "answered"} :
        /\ [r EXCEPT !.pc = pc] \in ExportRow
        /\ [r EXCEPT !.pc = pc].pc = pc /\ [r EXCEPT !.pc = pc].saw = r.saw
        /\ [r EXCEPT !.pc = pc].dir = r.dir
BY DEF ExportRow
\* An export goes on with a directory.
LEMMA ExportInto ==
    \A r \in ExportRow : \A pc \in {"write", "answered"} : \A n \in Names :
        /\ [r EXCEPT !.pc = pc, !.dir = n] \in ExportRow
        /\ [r EXCEPT !.pc = pc, !.dir = n].pc = pc
        /\ [r EXCEPT !.pc = pc, !.dir = n].saw = r.saw
        /\ [r EXCEPT !.pc = pc, !.dir = n].dir = n
BY DEF ExportRow

\* An export goes on, and the directories stay as they are.
ExportMoves(e, r) ==
    /\ UNCHANGED bundles
    /\ \A d \in Exporters : exporter'[d] = IF d = e THEN r ELSE exporter[d]

\* An export that writes nothing keeps what holds of the directories.
LEMMA ExportKeeps ==
    ASSUME EvidenceInv, NEW e \in Exporters, NEW r \in ExportRow, ExportMoves(e, r),
           EvidenceTyped', r.pc # "write",
           r.pc = "make" => ~IsComplete(<<r.saw, e>>),
           r.pc = "answered" => r.dir \in Names /\ IsComplete(r.dir) /\ bundles[r.dir].of = r.saw
    PROVE  EvidenceInv'
<1> USE DEF ExportMoves
<1>1. NamesTellTheState'
  BY DEF EvidenceInv, NamesTellTheState
<1>2. WritersAreAlone'
  BY DEF EvidenceInv, WritersAreAlone, WritesAlone, MakesAnew, AnswersWhole, IsComplete
<1>3. QED
  BY <1>1, <1>2 DEF EvidenceInv

\* The steps that only read.
LEMMA ReadersKeep ==
    ASSUME EvidenceInv, NEW e \in Exporters,
           ReadRun(e) \/ ReadRest(e) \/ FindExisting(e) \/ FindNothing(e) \/ Again(e)
           \/ ExporterDies(e)
    PROVE  EvidenceInv'
<1>1. /\ EvidenceTyped /\ exporter[e] \in ExportRow /\ exporter \in [Exporters -> ExportRow]
      /\ durable \in 1..MaxStates
  BY DEF EvidenceInv, EvidenceTyped
<1>2. ASSUME NEW r \in ExportRow, exporter' = [exporter EXCEPT ![e] = r],
             UNCHANGED <<durable, bundles>>, deaths' \in Nat,
             r.pc = "rest" => r.saw.run \in 1..durable,
             r.pc \in {"look", "make", "write", "answered"} => r.saw \in Projection
      PROVE  EvidenceTyped' /\ ExportMoves(e, r)
  BY <1>1, <1>2 DEF EvidenceTyped, ExportMoves
<1>3. CASE ReadRun(e)
  <2> DEFINE r == [exporter[e] EXCEPT !.pc = "rest", !.saw.run = durable]
  <2>1. r \in ExportRow /\ r.pc = "rest" /\ r.saw.run = durable /\ durable \in 1..durable
    <3>1. exporter[e].saw \in Seen /\ durable \in 0..MaxStates /\ durable \in 1..durable
      BY <1>1, EvidenceNumbers DEF ExportRow
    <3>2. /\ [exporter[e].saw EXCEPT !.run = durable] \in Seen
          /\ [exporter[e].saw EXCEPT !.run = durable].run = durable
      BY <3>1 DEF Seen
    <3>3. QED
      BY <1>1, <3>1, <3>2 DEF ExportRow
  <2>2. exporter' = [exporter EXCEPT ![e] = r] /\ UNCHANGED <<durable, bundles, deaths>>
    BY <1>3 DEF ReadRun
  <2> HIDE DEF r
  <2>3. EvidenceTyped' /\ ExportMoves(e, r)
    BY <1>1, <1>2, <2>1, <2>2 DEF EvidenceTyped
  <2>4. QED
    BY <2>1, <2>3, ExportKeeps
<1>4. CASE ReadRest(e)
  <2> DEFINE r == [exporter[e] EXCEPT !.pc = "look", !.saw.rest = durable]
  <2>1. /\ r \in ExportRow /\ r.pc = "look" /\ r.saw.run = exporter[e].saw.run
        /\ r.saw.rest = durable /\ r.saw \in Seen
    <3>1. exporter[e].saw \in Seen /\ durable \in 0..MaxStates
      BY <1>1, EvidenceNumbers DEF ExportRow
    <3>2. /\ [exporter[e].saw EXCEPT !.rest = durable] \in Seen
          /\ [exporter[e].saw EXCEPT !.rest = durable].rest = durable
          /\ [exporter[e].saw EXCEPT !.rest = durable].run = exporter[e].saw.run
      BY <3>1 DEF Seen
    <3>3. QED
      BY <1>1, <3>1, <3>2 DEF ExportRow
  <2>2. exporter' = [exporter EXCEPT ![e] = r] /\ UNCHANGED <<durable, bundles, deaths>>
        /\ exporter[e].saw.run \in 1..durable
    BY <1>1, <1>4 DEF ReadRest, EvidenceTyped
  <2> HIDE DEF r
  <2>3. r.saw \in Projection
    <3>1. /\ r.saw.run \in 1..MaxStates /\ r.saw.rest \in 1..MaxStates
          /\ r.saw.run <= r.saw.rest
      BY <1>1, <2>1, <2>2, EvidenceNumbers
    <3>2. r.saw \in [run : 1..MaxStates, rest : 1..MaxStates]
      BY <2>1, <3>1 DEF Seen
    <3>3. QED
      BY <3>1, <3>2 DEF Projection
  <2>4. EvidenceTyped' /\ ExportMoves(e, r)
    BY <1>1, <1>2, <2>1, <2>2, <2>3 DEF EvidenceTyped
  <2>5. QED
    BY <2>1, <2>4, ExportKeeps
<1>5. CASE FindExisting(e)
  <2>1. PICK n \in Names : /\ MayReuse(e, n) /\ UNCHANGED <<durable, bundles, deaths>>
                           /\ exporter' = [exporter EXCEPT ![e].pc = "answered", ![e].dir = n]
    BY <1>5 DEF FindExisting
  <2> DEFINE r == [exporter[e] EXCEPT !.pc = "answered", !.dir = n]
  <2>2. r \in ExportRow /\ r.pc = "answered" /\ r.saw = exporter[e].saw /\ r.dir = n
    BY <1>1, ExportInto
  <2>3. exporter' = [exporter EXCEPT ![e] = r] /\ exporter[e].saw \in Projection
    BY <1>1, <1>5, <2>1 DEF FindExisting, EvidenceTyped
  <2> HIDE DEF r
  <2>4. EvidenceTyped' /\ ExportMoves(e, r)
    BY <1>1, <1>2, <2>1, <2>2, <2>3 DEF EvidenceTyped
  <2>5. QED
    BY <2>1, <2>2, <2>4, ExportKeeps DEF MayReuse, Usable, Complete, IsComplete
<1>6. CASE FindNothing(e)
  <2> DEFINE r == [exporter[e] EXCEPT !.pc = "make"]
             n == <<exporter[e].saw, e>>
  <2>1. r \in ExportRow /\ r.pc = "make" /\ r.saw = exporter[e].saw
    BY <1>1, ExportFacts
  <2>2. /\ exporter' = [exporter EXCEPT ![e] = r] /\ exporter[e].saw \in Projection
        /\ UNCHANGED <<durable, bundles, deaths>>
    BY <1>1, <1>6 DEF FindNothing, EvidenceTyped
  <2> HIDE DEF r
  <2>3. n \in Names /\ n[1] = exporter[e].saw
    BY <2>2, NameFacts
  <2> HIDE DEF n
  <2>4. IsComplete(n) => MayReuse(e, n)
    BY <2>3, EvidenceNumbers
       DEF IsComplete, MayReuse, Usable, Complete, EvidenceInv, NamesTellTheState
  <2>5. ~IsComplete(n)
    BY <1>6, <2>3, <2>4 DEF FindNothing
  <2>6. EvidenceTyped' /\ ExportMoves(e, r)
    BY <1>1, <1>2, <2>1, <2>2 DEF EvidenceTyped
  <2>7. QED
    BY <2>1, <2>5, <2>6, ExportKeeps DEF n
<1>7. CASE Again(e) \/ ExporterDies(e)
  <2>1. exporter' = [exporter EXCEPT ![e] = NewExport] /\ UNCHANGED <<durable, bundles>>
        /\ deaths' \in Nat
    BY <1>1, <1>7 DEF Again, ExporterDies, EvidenceTyped
  <2>2. NewExport \in ExportRow /\ NewExport.pc = "idle"
    BY Beginnings
  <2>3. EvidenceTyped' /\ ExportMoves(e, NewExport)
    BY <1>2, <2>1, <2>2
  <2>4. QED
    BY <2>2, <2>3, ExportKeeps
<1>8. QED
  BY <1>3, <1>4, <1>5, <1>6, <1>7

\* A directory is made, or a file or the hashes are written to one's own.
LEMMA MakeDirectoryKeeps ==
    ASSUME EvidenceInv, NEW e \in Exporters, MakeDirectory(e)
    PROVE  EvidenceInv'
<1> DEFINE saw   == exporter[e].saw
           plain == <<saw, NoBundle>>
           name  == IF bundles[plain].made THEN <<saw, e>> ELSE plain
           row   == [Missing EXCEPT !.made = TRUE]
           r     == [exporter[e] EXCEPT !.pc = "write", !.dir = name]
<1>1. /\ exporter[e].pc = "make" /\ UNCHANGED <<durable, deaths>>
      /\ bundles' = [bundles EXCEPT ![name] = row]
      /\ exporter' = [exporter EXCEPT ![e] = r]
  BY DEF MakeDirectory
<1>2. /\ EvidenceTyped /\ exporter[e] \in ExportRow /\ saw \in Projection
      /\ exporter \in [Exporters -> ExportRow] /\ bundles \in [Names -> BundleRow]
  BY <1>1 DEF EvidenceInv, EvidenceTyped
<1>3. /\ name \in Names /\ name[1] = saw /\ name[2] \in {NoBundle, e}
      /\ name[2] = e => name = <<saw, e>>
      /\ name[2] = NoBundle => ~bundles[name].made
  <2>1. plain \in Names /\ plain[1] = saw /\ plain[2] = NoBundle
    BY <1>2, NameFacts
  <2>2. <<saw, e>> \in Names /\ <<saw, e>>[1] = saw /\ <<saw, e>>[2] = e /\ e # NoBundle
    BY <1>2, NameFacts, EvidenceNumbers
  <2> HIDE DEF plain
  <2>3. QED
    BY <2>1, <2>2
<1> HIDE DEF name
<1>4. /\ row \in BundleRow /\ row.made /\ row.files = 0 /\ row.hashed = 0
  <2>1. \A x \in BundleRow : /\ [x EXCEPT !.made = TRUE] \in BundleRow
                             /\ [x EXCEPT !.made = TRUE].made
                             /\ [x EXCEPT !.made = TRUE].files = x.files
                             /\ [x EXCEPT !.made = TRUE].hashed = x.hashed
    BY DEF BundleRow
  <2>2. QED
    BY <2>1, Beginnings
<1>5. r \in ExportRow /\ r.pc = "write" /\ r.saw = saw /\ r.dir = name
  <2>1. \A n \in Names, x \in ExportRow :
          /\ [x EXCEPT !.pc = "write", !.dir = n] \in ExportRow
          /\ [x EXCEPT !.pc = "write", !.dir = n].pc = "write"
          /\ [x EXCEPT !.pc = "write", !.dir = n].saw = x.saw
          /\ [x EXCEPT !.pc = "write", !.dir = n].dir = n
    BY DEF ExportRow
  <2>2. name \in Names /\ exporter[e] \in ExportRow
    BY <1>2, <1>3
  <2>3. QED
    BY <2>1, <2>2
<1> HIDE DEF row, r
<1>6. /\ \A n \in Names : bundles'[n] = IF n = name THEN row ELSE bundles[n]
      /\ \A d \in Exporters : exporter'[d] = IF d = e THEN r ELSE exporter[d]
  BY <1>1, <1>2, <1>3
<1>7. EvidenceTyped'
  BY <1>1, <1>2, <1>4, <1>5 DEF EvidenceTyped
<1>8. NamesTellTheState'
  BY <1>4, <1>6 DEF EvidenceInv, NamesTellTheState
<1>9. ~IsComplete(name)
  <2>1. CASE name[2] = e
    BY <1>1, <1>3, <2>1 DEF EvidenceInv, WritersAreAlone, MakesAnew
  <2>2. CASE name[2] = NoBundle
    BY <1>3, <2>2, EvidenceNumbers DEF EvidenceInv, NamesTellTheState, IsComplete
  <2>3. QED
    BY <1>3, <2>1, <2>2
<1>10. \A d \in Exporters \ {e} : exporter[d].pc = "write" => exporter[d].dir # name
  <2> SUFFICES ASSUME NEW d \in Exporters \ {e}, exporter[d].pc = "write",
                      exporter[d].dir = name
               PROVE  FALSE
    OBVIOUS
  <2>1. name[2] \in {NoBundle, d} /\ bundles[name].made
    BY DEF EvidenceInv, WritersAreAlone, WritesAlone
  <2>2. QED
    BY <1>3, <2>1, EvidenceNumbers
<1>11. \A d \in Exporters : exporter[d].pc = "answered" => exporter[d].dir # name
  BY <1>9 DEF EvidenceInv, WritersAreAlone, AnswersWhole, IsComplete
<1>12. \A d \in Exporters : exporter[d].pc = "make" => <<exporter[d].saw, d>> \in Names
  BY NameFacts DEF EvidenceInv, EvidenceTyped
<1>13. \A n \in Names : IsComplete(n)' => n # name /\ IsComplete(n)
  BY <1>3, <1>4, <1>6, EvidenceNumbers DEF IsComplete
<1>14. ASSUME NEW d \in Exporters PROVE WritesAlone(d)' /\ MakesAnew(d)' /\ AnswersWhole(d)'
  <2>1. WritesAlone(d) /\ MakesAnew(d) /\ AnswersWhole(d)
    BY DEF EvidenceInv, WritersAreAlone
  <2>2. CASE d = e
    BY <1>3, <1>4, <1>5, <1>6, <1>10, <2>2 DEF WritesAlone, MakesAnew, AnswersWhole
  <2>3. CASE d # e
    <3>1. exporter'[d] = exporter[d]
      BY <1>6, <2>3
    <3>2. WritesAlone(d)'
      BY <1>5, <1>6, <1>10, <2>1, <2>3, <3>1 DEF WritesAlone
    <3>3. MakesAnew(d)'
      BY <1>12, <1>13, <2>1, <3>1 DEF MakesAnew
    <3>4. AnswersWhole(d)'
      BY <1>6, <1>11, <2>1, <3>1 DEF AnswersWhole
    <3>5. QED
      BY <3>2, <3>3, <3>4
  <2>4. QED
    BY <2>2, <2>3
<1>15. QED
  BY <1>7, <1>8, <1>14 DEF EvidenceInv, WritersAreAlone

\* One more file in a directory of one's own.
LEMMA WriteFileKeeps == ASSUME EvidenceInv, NEW e \in Exporters, WriteFile(e) PROVE EvidenceInv'
<1> DEFINE dir == exporter[e].dir
           row == [bundles[dir] EXCEPT !.files = bundles[dir].files + 1, !.of = exporter[e].saw]
<1>1. /\ exporter[e].pc = "write" /\ bundles[dir].files < Files
      /\ UNCHANGED <<durable, exporter, deaths>>
  BY DEF WriteFile
<1>2. /\ EvidenceTyped /\ exporter[e].saw \in Projection /\ exporter[e].saw \in Seen
      /\ bundles \in [Names -> BundleRow]
  BY <1>1 DEF EvidenceInv, EvidenceTyped, ExportRow
<1>3. /\ dir \in Names /\ dir[1] = exporter[e].saw /\ bundles[dir].made
      /\ bundles[dir].hashed = 0 /\ bundles[dir] \in BundleRow
  BY <1>1, <1>2 DEF EvidenceInv, WritersAreAlone, WritesAlone
<1>4. /\ row \in BundleRow /\ row.of = exporter[e].saw /\ row.made = bundles[dir].made
      /\ row.hashed = 0
  <2>1. bundles[dir].files + 1 \in 0..Files
    BY <1>1, <1>3, EvidenceNumbers DEF BundleRow
  <2>2. QED
    BY <1>2, <1>3, <2>1 DEF BundleRow
<1>5. bundles' = [bundles EXCEPT ![dir] = row]
  BY DEF WriteFile
<1> HIDE DEF row
<1>6. \A n \in Names : bundles'[n] = IF n = dir THEN row ELSE bundles[n]
  BY <1>2, <1>5
<1>7. EvidenceTyped'
  BY <1>1, <1>2, <1>4, <1>5 DEF EvidenceTyped
<1>8. NamesTellTheState'
  <2> SUFFICES ASSUME NEW n \in Names
               PROVE  /\ ~bundles'[n].made => bundles'[n].files = 0
                      /\ bundles'[n].files > 0 => bundles'[n].of = n[1]
    BY DEF NamesTellTheState
  <2>1. CASE n = dir
    BY <1>3, <1>4, <1>6, <2>1
  <2>2. CASE n # dir
    BY <1>6, <2>2 DEF EvidenceInv, NamesTellTheState
  <2>3. QED
    BY <2>1, <2>2
<1>9. ASSUME NEW d \in Exporters PROVE WritesAlone(d)' /\ MakesAnew(d)' /\ AnswersWhole(d)'
  <2>1. WritesAlone(d) /\ MakesAnew(d) /\ AnswersWhole(d)
    BY DEF EvidenceInv, WritersAreAlone
  <2>2. WritesAlone(d)'
    BY <1>1, <1>3, <1>4, <1>6, <2>1 DEF WritesAlone
  <2>3. exporter[d].pc = "make" => <<exporter[d].saw, d>> \in Names
    BY NameFacts DEF EvidenceInv, EvidenceTyped
  <2>4. MakesAnew(d)'
    BY <1>1, <1>4, <1>6, <2>1, <2>3, EvidenceNumbers DEF MakesAnew, IsComplete
  <2>5. AnswersWhole(d)'
    BY <1>1, <1>3, <1>6, <2>1, EvidenceNumbers DEF AnswersWhole
  <2>6. QED
    BY <2>2, <2>4, <2>5
<1>10. QED
  BY <1>7, <1>8, <1>9 DEF EvidenceInv, WritersAreAlone

\* The hashes come last, and the directory is whole.
LEMMA WriteHashesKeeps ==
    ASSUME EvidenceInv, NEW e \in Exporters, WriteHashes(e) PROVE EvidenceInv'
<1> DEFINE dir == exporter[e].dir
           row == [bundles[dir] EXCEPT !.hashed = Files]
           r   == [exporter[e] EXCEPT !.pc = "answered"]
<1>1. /\ exporter[e].pc = "write" /\ bundles[dir].files = Files
      /\ UNCHANGED <<durable, deaths>>
      /\ bundles' = [bundles EXCEPT ![dir] = row]
      /\ exporter' = [exporter EXCEPT ![e] = r]
  BY DEF WriteHashes
<1>2. /\ EvidenceTyped /\ exporter[e].saw \in Projection /\ exporter[e] \in ExportRow
      /\ bundles \in [Names -> BundleRow] /\ exporter \in [Exporters -> ExportRow]
  BY <1>1 DEF EvidenceInv, EvidenceTyped
<1>3. /\ dir \in Names /\ dir[1] = exporter[e].saw /\ dir[2] \in {NoBundle, e}
      /\ bundles[dir].made /\ bundles[dir].hashed = 0 /\ bundles[dir] \in BundleRow
  BY <1>1, <1>2 DEF EvidenceInv, WritersAreAlone, WritesAlone
<1>4. /\ row \in BundleRow /\ row.of = bundles[dir].of /\ row.made = bundles[dir].made
      /\ row.hashed = Files /\ row.files = Files
  BY <1>1, <1>3 DEF BundleRow
<1>5. bundles[dir].of = exporter[e].saw
  BY <1>1, <1>3, EvidenceNumbers DEF EvidenceInv, NamesTellTheState
<1>6. r \in ExportRow /\ r.pc = "answered" /\ r.saw = exporter[e].saw /\ r.dir = dir
  BY <1>2, ExportFacts
<1>7. \A d \in Exporters \ {e} : exporter[d].pc = "write" => exporter[d].dir # dir
  BY <1>1 DEF EvidenceInv, WritersAreAlone, WritesAlone
<1> HIDE DEF row, r
<1>8. /\ \A n \in Names : bundles'[n] = IF n = dir THEN row ELSE bundles[n]
      /\ \A d \in Exporters : exporter'[d] = IF d = e THEN r ELSE exporter[d]
  BY <1>1, <1>2
<1>9. EvidenceTyped'
  BY <1>1, <1>2, <1>4, <1>6 DEF EvidenceTyped
<1>10. NamesTellTheState'
  <2> SUFFICES ASSUME NEW n \in Names
               PROVE  /\ ~bundles'[n].made => bundles'[n].files = 0
                      /\ bundles'[n].files > 0 => bundles'[n].of = n[1]
    BY DEF NamesTellTheState
  <2>1. CASE n = dir
    BY <1>3, <1>4, <1>5, <1>8, <2>1
  <2>2. CASE n # dir
    BY <1>8, <2>2 DEF EvidenceInv, NamesTellTheState
  <2>3. QED
    BY <2>1, <2>2
<1>11. ASSUME NEW d \in Exporters PROVE WritesAlone(d)' /\ MakesAnew(d)' /\ AnswersWhole(d)'
  <2>1. WritesAlone(d) /\ MakesAnew(d) /\ AnswersWhole(d)
    BY DEF EvidenceInv, WritersAreAlone
  <2>2. CASE d = e
    BY <1>3, <1>4, <1>5, <1>6, <1>8, <2>2 DEF WritesAlone, MakesAnew, AnswersWhole
  <2>3. CASE d # e
    <3>1. exporter'[d] = exporter[d]
      BY <1>8, <2>3
    <3>2. WritesAlone(d)'
      BY <1>6, <1>7, <1>8, <2>1, <2>3, <3>1 DEF WritesAlone
    <3>3. ASSUME exporter[d].pc = "make"
          PROVE  <<exporter[d].saw, d>> \in Names /\ <<exporter[d].saw, d>> # dir
      <4>1. <<exporter[d].saw, d>> \in Names /\ <<exporter[d].saw, d>>[2] = d
        BY <3>3, NameFacts DEF EvidenceInv, EvidenceTyped
      <4>2. QED
        BY <1>3, <2>3, <4>1, EvidenceNumbers
    <3>4. MakesAnew(d)'
      BY <1>8, <2>1, <3>1, <3>3 DEF MakesAnew, IsComplete
    <3>5. AnswersWhole(d)'
      BY <1>3, <1>8, <2>1, <3>1, EvidenceNumbers DEF AnswersWhole
    <3>6. QED
      BY <3>2, <3>4, <3>5
  <2>4. QED
    BY <2>2, <2>3
<1>12. QED
  BY <1>9, <1>10, <1>11 DEF EvidenceInv, WritersAreAlone

\* Every step of an export.
LEMMA EvidenceStep == EvidenceInv /\ [EvidenceNext]_evidenceVars => EvidenceInv'
<1> SUFFICES ASSUME EvidenceInv, [EvidenceNext]_evidenceVars PROVE EvidenceInv'
  OBVIOUS
<1>1. ASSUME UNCHANGED <<bundles, exporter, deaths>>, durable' \in 1..MaxStates,
             durable <= durable'
      PROVE  EvidenceInv'
  <2>1. EvidenceTyped'
    <3>1. durable \in Nat /\ durable' \in Nat /\ 1..durable \subseteq 1..durable'
      BY <1>1, EvidenceNumbers DEF EvidenceInv, EvidenceTyped
    <3>2. QED
      BY <1>1, <3>1 DEF EvidenceInv, EvidenceTyped
  <2>2. QED
    BY <1>1, <2>1 DEF EvidenceInv, NamesTellTheState, WritersAreAlone, WritesAlone, MakesAnew,
       AnswersWhole, IsComplete
<1>2. CASE UNCHANGED evidenceVars \/ WorkGoesOn
  BY <1>1, <1>2, EvidenceNumbers DEF evidenceVars, WorkGoesOn, EvidenceInv, EvidenceTyped
<1>3. QED
  BY <1>2, ReadersKeep, MakeDirectoryKeeps, WriteFileKeeps, WriteHashesKeeps DEF EvidenceNext

\* No directory and no export at first.
LEMMA EvidenceStart == EvidenceInit => EvidenceInv
<1> SUFFICES ASSUME EvidenceInit PROVE EvidenceInv
  OBVIOUS
<1>1. /\ \A e \in Exporters : exporter[e].pc = "idle" /\ exporter[e] \in ExportRow
      /\ \A n \in Names : bundles[n] = Missing
  BY Beginnings DEF EvidenceInit
<1>2. EvidenceTyped
  BY <1>1, Beginnings, EvidenceNumbers DEF EvidenceInit, EvidenceTyped
<1>3. NamesTellTheState
  BY <1>1, Beginnings DEF NamesTellTheState
<1>4. WritersAreAlone
  BY <1>1 DEF WritersAreAlone, WritesAlone, MakesAnew, AnswersWhole
<1>5. QED
  BY <1>2, <1>3, <1>4 DEF EvidenceInv

\* A call answers with a bundle that is complete and of the state it read,
\* however exports race and die (create_workflow_evidence).
THEOREM EvidenceStaysWhole == Spec => []EvidenceIsWhole
<1>1. EvidenceInv => EvidenceIsWhole
  BY DEF EvidenceInv, WritersAreAlone, AnswersWhole, EvidenceIsWhole
<1>2. QED
  BY <1>1, EvidenceStart, EvidenceStep, EvidenceOnly, PTL
-----------------------------------------------------------------------------
(* Deliverables: places in an order.                                         *)

\* How many of S are newer than r.
Place(S, r) == Cardinality({q \in S : q > r})

\* The places of the members of a finite set are 0, 1, and so on.
LEMMA PlacesGrow ==
    ASSUME NEW S \in SUBSET Nat, IsFiniteSet(S), NEW r \in Nat
    PROVE  /\ Place(S, r) \in Nat /\ Place(S, r) <= Cardinality(S) /\ Cardinality(S) \in Nat
           /\ r \in S => Place(S, r) < Cardinality(S)
           /\ \A q \in S : q > r => Place(S, q) < Place(S, r)
<1> DEFINE Above(p) == {q \in S : q > p}
<1>1. Cardinality(S) \in Nat /\ \A p \in Nat : IsFiniteSet(Above(p)) /\ Cardinality(Above(p)) \in Nat
                                               /\ Cardinality(Above(p)) <= Cardinality(S)
  <2>1. \A p \in Nat : Above(p) \in SUBSET S
    OBVIOUS
  <2>2. \A p \in Nat : IsFiniteSet(Above(p)) /\ Cardinality(Above(p)) <= Cardinality(S)
    <3> HIDE DEF Above
    <3>1. QED
      BY <2>1, FS_Subset
  <2>3. QED
    <3> HIDE DEF Above
    <3>1. QED
      BY <2>2, FS_CardinalityType
<1>2. ASSUME r \in S PROVE Cardinality(Above(r)) < Cardinality(S)
  <2>1. Above(r) \in SUBSET S /\ Above(r) # S
    BY <1>2
  <2>2. Cardinality(Above(r)) # Cardinality(S)
    <3> HIDE DEF Above
    <3>1. QED
      BY <2>1, FS_Subset
  <2>3. QED
    BY <1>1, <2>2
<1>3. ASSUME NEW q \in S, q > r PROVE Cardinality(Above(q)) < Cardinality(Above(r))
  <2>1. Above(q) \in SUBSET Above(r) /\ q \in Above(r) /\ q \notin Above(q) /\ q \in Nat
    <3>1. q \in Nat /\ \A p \in S : p \in Nat /\ (p > q => p > r)
      BY <1>3
    <3>2. Above(q) \subseteq Above(r)
      BY <3>1
    <3>3. q \in Above(r) /\ q \notin Above(q)
      BY <1>3, <3>1
    <3>4. QED
      BY <3>1, <3>2, <3>3
  <2>2. /\ Cardinality(Above(q)) <= Cardinality(Above(r))
        /\ Cardinality(Above(q)) # Cardinality(Above(r))
    <3> HIDE DEF Above
    <3>1. IsFiniteSet(Above(r))
      BY <1>1
    <3>2. QED
      BY <2>1, <3>1, FS_Subset
  <2>3. Cardinality(Above(q)) \in Nat /\ Cardinality(Above(r)) \in Nat
    <3> HIDE DEF Above
    <3>1. QED
      BY <1>1, <2>1
  <2>4. QED
    <3> HIDE DEF Above
    <3>1. QED
      BY <2>2, <2>3
<1>4. QED
  BY <1>1, <1>2, <1>3 DEF Place

\* Different members have different places.
LEMMA PlacesDiffer ==
    ASSUME NEW S \in SUBSET Nat, IsFiniteSet(S), NEW r \in S, NEW q \in S,
           Place(S, r) = Place(S, q)
    PROVE  r = q
<1>1. r \in Nat /\ q \in Nat
  OBVIOUS
<1>2. q > r => Place(S, q) < Place(S, r)
  BY <1>1, PlacesGrow
<1>3. r > q => Place(S, r) < Place(S, q)
  BY <1>1, PlacesGrow
<1>4. Place(S, r) \in Nat /\ Place(S, q) \in Nat
  BY <1>1, PlacesGrow
<1>5. QED
  BY <1>1, <1>2, <1>3, <1>4

\* Every place below the size is somebody's.
LEMMA PlacesTaken ==
    ASSUME NEW S \in SUBSET Nat, IsFiniteSet(S), NEW k \in Nat, k < Cardinality(S)
    PROVE  \E r \in S : Place(S, r) = k
<1> DEFINE n == Cardinality(S)
           T == 0..(n - 1)
           f == [r \in S |-> Place(S, r)]
<1>1. n \in Nat /\ n > 0
  BY FS_CardinalityType
<1>2. IsFiniteSet(T) /\ Cardinality(T) = n
  <2>1. 0 \in Int /\ n - 1 \in Int
    BY <1>1
  <2>2. IsFiniteSet(T) /\ Cardinality(T) = IF 0 > n - 1 THEN 0 ELSE (n - 1) - 0 + 1
    BY <2>1, FS_Interval
  <2>3. QED
    BY <2>2, <1>1
<1>3. \A r \in S : Place(S, r) \in T
  <2>1. \A r \in S : Place(S, r) \in Nat /\ Place(S, r) < n
    BY PlacesGrow
  <2>2. QED
    BY <2>1, <1>1
<1>4. f \in Injection(S, T)
  <2>1. \A r, q \in S : f[r] = f[q] => r = q
    BY PlacesDiffer
  <2>2. QED
    BY <1>3, <2>1 DEF Injection, IsInjective
<1>5. f \in Surjection(S, T)
  <2> HIDE DEF f, T
  <2>1. Cardinality(S) = Cardinality(T)
    BY <1>2
  <2>2. QED
    BY <2>1, <1>4, <1>2, FS_Injection
<1>6. k \in T
  BY <1>1
<1>7. \E r \in S : f[r] = k
  BY <1>5, <1>6 DEF Surjection
<1>8. QED
  BY <1>7

\* As many members as places.
LEMMA PlacesCount ==
    ASSUME NEW S \in SUBSET Nat, IsFiniteSet(S), NEW a \in Nat, NEW b \in Nat,
           a <= b, b <= Cardinality(S)
    PROVE  LET M == {q \in S : Place(S, q) \in a..(b - 1)} IN
           IsFiniteSet(M) /\ Cardinality(M) = b - a
<1> DEFINE M == {q \in S : Place(S, q) \in a..(b - 1)}
           T == a..(b - 1)
           f == [q \in M |-> Place(S, q)]
<1>1. IsFiniteSet(M)
  <2>1. M \in SUBSET S
    OBVIOUS
  <2>2. QED
    BY <2>1, FS_Subset
<1>2. IsFiniteSet(T) /\ Cardinality(T) = b - a
  <2>1. a \in Int /\ b - 1 \in Int
    OBVIOUS
  <2>2. IsFiniteSet(T) /\ Cardinality(T) = IF a > b - 1 THEN 0 ELSE (b - 1) - a + 1
    BY <2>1, FS_Interval
  <2>3. QED
    BY <2>2
<1>3. f \in Injection(M, T)
  <2>1. \A r, q \in M : f[r] = f[q] => r = q
    BY PlacesDiffer
  <2>2. QED
    BY <2>1 DEF Injection, IsInjective
<1>4. f \in Surjection(M, T)
  <2>1. Cardinality(S) \in Nat
    BY FS_CardinalityType
  <2>2. \A k \in T : k \in Nat /\ k < Cardinality(S)
    BY <2>1
  <2>3. \A k \in T : \E q \in S : Place(S, q) = k
    BY <2>2, PlacesTaken
  <2>4. \A k \in T : \E q \in M : f[q] = k
    BY <2>3
  <2>5. f \in [M -> T]
    OBVIOUS
  <2>6. QED
    BY <2>4, <2>5 DEF Surjection
<1>5. Cardinality(M) = Cardinality(T)
  <2> HIDE DEF f, M, T
  <2>1. QED
    BY <1>2, <1>3, <1>4, FS_Injection
<1>6. QED
  BY <1>1, <1>2, <1>5

\* Newest is a page: the members with the places from the offset on, in order.
LEMMA PageIs ==
    ASSUME NEW S \in SUBSET Nat, IsFiniteSet(S), NEW k \in Nat, NEW P \in Nat \ {0}
    PROVE  /\ Newest(S, k, P) \in Seq(S) /\ Len(Newest(S, k, P)) \in Nat
           /\ Len(Newest(S, k, P)) <= P
           /\ k <= Cardinality(S) =>
                Len(Newest(S, k, P)) = IF k + P <= Cardinality(S) THEN P ELSE Cardinality(S) - k
           /\ \A i \in 1..Len(Newest(S, k, P)) : Place(S, Newest(S, k, P)[i]) = k + i - 1
<1> DEFINE c == Cardinality(S)
           M == Among(S, k, P)
           b == IF c < k THEN k ELSE IF k + P <= c THEN k + P ELSE c
           L == b - k
           page == Newest(S, k, P)
<1>1. c \in Nat /\ b \in Nat /\ L \in Nat /\ L <= P /\ b <= k + P
  BY FS_CardinalityType
<1>2. M = {q \in S : Place(S, q) \in k..(b - 1)}
  <2>1. M = {q \in S : Place(S, q) \in k..(k + P - 1)}
    BY DEF Among, Place
  <2>2. \A q \in S : Place(S, q) \in Nat /\ Place(S, q) < c
    BY PlacesGrow
  <2>3. \A q \in S : Place(S, q) \in k..(k + P - 1) <=> Place(S, q) \in k..(b - 1)
    <3> HIDE DEF c
    <3>1. QED
      BY <2>2, <1>1
  <2>4. QED
    BY <2>1, <2>3
<1>3. IsFiniteSet(M) /\ Cardinality(M) = L
  <2>1. CASE k <= c
    <3>1. b <= c /\ k <= b
      BY <2>1, <1>1
    <3>2. QED
      <4> HIDE DEF M, b, c
      <4>1. b <= Cardinality(S)
        BY <3>1 DEF c
      <4>2. QED
        BY <1>1, <1>2, <3>1, <4>1, PlacesCount
  <2>2. CASE c < k
    <3>1. L = 0 /\ M = {}
      BY <2>2, <1>1, <1>2
    <3>2. QED
      <4> HIDE DEF M, L
      <4>1. QED
        BY <3>1, FS_EmptySet
  <2>3. QED
    BY <1>1, <2>1, <2>2
<1>4. ASSUME NEW r \in M PROVE Place(M, r) = Place(S, r) - k
  <2> DEFINE p == Place(S, r)
  <2>1. r \in S /\ r \in Nat /\ p \in Nat /\ k <= p /\ p <= b - 1 /\ p < c
    <3>1. r \in S /\ p \in k..(b - 1)
      BY <1>2
    <3>2. p < c /\ p \in Nat
      BY <3>1, PlacesGrow
    <3>3. QED
      <4> HIDE DEF p, c, b
      <4>1. QED
        BY <3>1, <3>2, <1>1
  <2>2. {q \in M : q > r} = {q \in S : Place(S, q) \in k..(p - 1)}
    <3>1. ASSUME NEW q \in M, q > r PROVE Place(S, q) \in k..(p - 1)
      <4>1. q \in S /\ q \in Nat /\ Place(S, q) \in Nat /\ Place(S, q) \in k..(b - 1)
        BY <1>2, <3>1, PlacesGrow
      <4>2. Place(S, q) < p
        BY <2>1, <3>1, <4>1, PlacesGrow
      <4>3. QED
        <5> HIDE DEF p, b
        <5>1. QED
          BY <4>1, <4>2, <2>1, <1>1
    <3>2. ASSUME NEW q \in S, Place(S, q) \in k..(p - 1) PROVE q \in M /\ q > r
      <4>1. Place(S, q) \in k..(b - 1) /\ Place(S, q) < p /\ Place(S, q) \in Nat
        <5> HIDE DEF p, b
        <5>1. QED
          BY <3>2, <2>1, <1>1
      <4>2. q # r /\ ~(r > q)
        <5>1. q # r
          BY <4>1
        <5>2. q \in Nat /\ (r > q => p < Place(S, q))
          BY <2>1, PlacesGrow
        <5>3. QED
          <6> HIDE DEF p
          <6>1. QED
            BY <5>1, <5>2, <4>1, <2>1
      <4>3. QED
        BY <4>1, <4>2, <2>1, <1>2
    <3>3. M \subseteq S
      BY <1>2
    <3>4. QED
      <4> HIDE DEF M, p
      <4>1. QED
        BY <3>1, <3>2, <3>3
  <2>3. p <= Cardinality(S)
    BY <2>1, <1>1
  <2>4. Cardinality({q \in S : Place(S, q) \in k..(p - 1)}) = p - k
    <3> HIDE DEF p
    <3>1. QED
      BY <2>1, <2>3, PlacesCount
  <2>5. QED
    BY <2>2, <2>4 DEF Place
<1>5. page = [i \in 1..L |-> CHOOSE r \in M : Place(M, r) = i - 1]
  <2>1. page = [i \in 1..Cardinality(M) |-> CHOOSE r \in M : Place(M, r) = i - 1]
    BY DEF Newest, Place
  <2>2. QED
    <3> HIDE DEF M, page, L
    <3>1. QED
      BY <2>1, <1>3
<1>6. ASSUME NEW i \in 1..L
      PROVE  page[i] \in M /\ page[i] \in S /\ Place(S, page[i]) = k + i - 1
  <2>1. i - 1 \in Nat /\ i - 1 < L /\ i \in Nat
    BY <1>1
  <2>2. M \in SUBSET Nat /\ M \subseteq S
    BY <1>2
  <2>3. \E r \in M : Place(M, r) = i - 1
    <3> HIDE DEF M, L
    <3>1. i - 1 < Cardinality(M)
      BY <1>3, <2>1
    <3>2. QED
      BY <1>3, <2>1, <2>2, <3>1, PlacesTaken
  <2>4. page[i] = CHOOSE r \in M : Place(M, r) = i - 1
    <3> HIDE DEF M, page, L
    <3>1. QED
      BY <1>5
  <2>5. page[i] \in M /\ Place(M, page[i]) = i - 1
    <3> HIDE DEF M, page
    <3>1. QED
      BY <2>3, <2>4
  <2>6. page[i] \in S /\ Place(S, page[i]) - k = i - 1
    <3> HIDE DEF M, page
    <3>1. QED
      BY <2>5, <2>2, <1>4
  <2>7. Place(S, page[i]) \in Nat
    <3> HIDE DEF M, page
    <3>1. page[i] \in Nat
      BY <2>6
    <3>2. QED
      BY <3>1, PlacesGrow
  <2>8. QED
    <3> HIDE DEF M, page, L
    <3>1. QED
      BY <2>1, <2>5, <2>6, <2>7
<1>7. page \in Seq(S) /\ Len(page) = L
  <2> HIDE DEF M, L
  <2> DEFINE e(i) == CHOOSE r \in M : Place(M, r) = i - 1
  <2>1. page = [i \in 1..L |-> e(i)]
    BY <1>5
  <2>2. \A i \in 1..L : page[i] \in S
    BY <1>6
  <2>3. \A i \in 1..L : e(i) \in S
    <3> HIDE DEF page, e
    <3>1. QED
      BY <2>1, <2>2
  <2>4. page \in [1..L -> S] /\ L \in Nat
    <3> HIDE DEF page, e
    <3>1. QED
      BY <2>1, <2>3, <1>1
  <2>5. QED
    <3> HIDE DEF page, e
    <3>1. QED
      BY <2>4
<1>8. k <= c => L = IF k + P <= c THEN P ELSE c - k
  BY <1>1
<1>9. QED
  <2> HIDE DEF page, L, M, b
  <2>1. /\ page \in Seq(S) /\ Len(page) \in Nat /\ Len(page) <= P
        /\ k <= c => Len(page) = IF k + P <= c THEN P ELSE c - k
        /\ \A i \in 1..Len(page) : Place(S, page[i]) = k + i - 1
    BY <1>1, <1>6, <1>7, <1>8
  <2>2. QED
    BY <2>1 DEF page

\* What nobody copied is far enough down in E: then the rows S and all there is,
\* U, agree up to there.
LEMMA PlacesAgree ==
    ASSUME NEW U \in SUBSET Nat, IsFiniteSet(U), NEW S \in SUBSET U, NEW E \in SUBSET U,
           NEW m \in Nat, \A r \in U \ S : Place(E, r) >= m
    PROVE  /\ \A x \in S : Place(S, x) < m => Place(U, x) = Place(S, x)
           /\ Cardinality(S) < m => S = U
<1>1. IsFiniteSet(S) /\ IsFiniteSet(E) /\ S \in SUBSET Nat /\ E \in SUBSET Nat
  BY FS_Subset
<1>2. CASE S = U
  BY <1>2
<1>3. CASE S # U
  <2> DEFINE D == U \ S
  <2>1. D \in SUBSET Nat /\ D \in SUBSET U /\ D # {}
    BY <1>3
  <2>2. IsFiniteSet(D)
    <3> HIDE DEF D
    <3>1. QED
      BY <2>1, FS_Subset
  <2>3. 0 < Cardinality(D)
    <3> HIDE DEF D
    <3>1. Cardinality(D) \in Nat /\ Cardinality(D) # 0
      BY <2>1, <2>2, FS_EmptySet, FS_CardinalityType
    <3>2. QED
      BY <3>1
  <2>4. PICK r \in D : Place(D, r) = 0
    <3> HIDE DEF D
    <3>1. QED
      BY <2>1, <2>2, <2>3, PlacesTaken
  <2>5. r \in U /\ r \notin S /\ r \in Nat /\ Place(E, r) >= m
    OBVIOUS
  <2>6. \A q \in D : ~(q > r)
    <3>1. {q \in D : q > r} \in SUBSET D /\ Cardinality({q \in D : q > r}) = 0
      BY <2>4 DEF Place
    <3>2. IsFiniteSet({q \in D : q > r})
      <4> HIDE DEF D
      <4>1. QED
        BY <3>1, <2>2, FS_Subset
    <3>3. {q \in D : q > r} = {}
      <4> HIDE DEF D
      <4>1. QED
        BY <3>1, <3>2, FS_EmptySet
    <3>4. QED
      BY <3>3
  <2>7. Place(S, r) \in Nat /\ Place(S, r) >= m /\ Place(S, r) <= Cardinality(S)
    <3>1. {q \in E : q > r} \in SUBSET {q \in S : q > r}
      BY <2>6
    <3>2. {q \in S : q > r} \in SUBSET S
      OBVIOUS
    <3>3. IsFiniteSet({q \in S : q > r})
      BY <3>2, <1>1, FS_Subset
    <3>4. Place(E, r) <= Place(S, r)
      BY <3>1, <3>3, FS_Subset DEF Place
    <3>5. Place(E, r) \in Nat /\ Place(S, r) \in Nat /\ Place(S, r) <= Cardinality(S)
      BY <1>1, <2>5, PlacesGrow
    <3>6. QED
      BY <3>4, <3>5, <2>5
  <2>8. ~(Cardinality(S) < m)
    <3>1. Cardinality(S) \in Nat
      BY <1>1, FS_CardinalityType
    <3>2. QED
      BY <2>7, <3>1
  <2>9. ASSUME NEW x \in S, Place(S, x) < m PROVE Place(U, x) = Place(S, x)
    <3>1. x \in Nat /\ x # r /\ Place(S, x) \in Nat
      BY <2>5, <1>1, PlacesGrow
    <3>2. ~(r > x)
      <4>1. SUFFICES ASSUME r > x PROVE FALSE
        OBVIOUS
      <4>2. {q \in S : q > r} \in SUBSET {q \in S : q > x}
        <5>1. \A q \in S : q \in Nat
          BY <1>1
        <5>2. \A q \in S : q > r => q > x
          BY <4>1, <3>1, <2>5, <5>1
        <5>3. QED
          BY <5>2
      <4>3. {q \in S : q > x} \in SUBSET S
        OBVIOUS
      <4>4. IsFiniteSet({q \in S : q > x})
        BY <4>3, <1>1, FS_Subset
      <4>5. Place(S, r) <= Place(S, x)
        BY <4>2, <4>4, FS_Subset DEF Place
      <4>6. QED
        BY <4>5, <2>7, <2>9, <3>1
    <3>3. {q \in U : q > x} = {q \in S : q > x}
      <4>1. \A q \in U : q > x => q > r
        <5>1. \A q \in U : q \in Nat
          OBVIOUS
        <5>2. QED
          BY <5>1, <3>1, <3>2, <2>5
      <4>2. QED
        BY <4>1, <2>6
    <3>4. QED
      BY <3>3 DEF Place
  <2>10. QED
    BY <2>8, <2>9
<1>4. QED
  BY <1>2, <1>3

\* s is the beginning of what there is, in order.
Good(V, s, k) == /\ s \in Seq(Nat) /\ Len(s) = k
                 /\ \A i \in 1..k : s[i] \in V /\ Place(V, s[i]) = i - 1

LEMMA GoodIsShort ==
    ASSUME NEW V \in SUBSET Nat, IsFiniteSet(V), NEW k \in Nat, NEW s, Good(V, s, k)
    PROVE  k <= Cardinality(V)
<1>1. Cardinality(V) \in Nat
  BY FS_CardinalityType
<1>2. CASE k > 0
  <2>1. k \in 1..k
    BY <1>2
  <2>2. s[k] \in V /\ Place(V, s[k]) = k - 1
    BY <2>1 DEF Good
  <2>3. Place(V, s[k]) < Cardinality(V)
    BY <2>2, PlacesGrow
  <2>4. QED
    BY <2>2, <2>3, <1>1
<1>3. QED
  BY <1>1, <1>2

\* A page of the rows goes on where s ended; when it is the last, that was all.
LEMMA PageGoesOn ==
    ASSUME NEW U \in SUBSET Nat, IsFiniteSet(U), NEW S \in SUBSET U, NEW E \in SUBSET U,
           NEW k \in Nat, NEW P \in Nat \ {0}, \A r \in U \ S : Place(E, r) >= k + P,
           NEW s, Good(U, s, k)
    PROVE  /\ Len(Newest(S, k, P)) \in Nat /\ Len(Newest(S, k, P)) <= P
           /\ Good(U, s \o Newest(S, k, P), k + Len(Newest(S, k, P)))
           /\ k + Len(Newest(S, k, P)) \notin 1..(Cardinality(U) - 1) =>
                S = U /\ k + Len(Newest(S, k, P)) = Cardinality(S)
<1> DEFINE page == Newest(S, k, P)
           L == Len(page)
<1>1. IsFiniteSet(S) /\ S \in SUBSET Nat /\ Cardinality(S) \in Nat
  <2>1. IsFiniteSet(S) /\ S \in SUBSET Nat
    BY FS_Subset
  <2>2. QED
    BY <2>1, FS_CardinalityType
<1>2. /\ page \in Seq(S) /\ L \in Nat /\ L <= P
      /\ k <= Cardinality(S) => L = IF k + P <= Cardinality(S) THEN P ELSE Cardinality(S) - k
      /\ \A i \in 1..L : Place(S, page[i]) = k + i - 1
  BY <1>1, PageIs, ZenonT(40)
<1>3. /\ \A x \in S : Place(S, x) < k + P => Place(U, x) = Place(S, x)
      /\ Cardinality(S) < k + P => S = U
  <2>1. k + P \in Nat
    OBVIOUS
  <2>2. QED
    BY <2>1, PlacesAgree
<1> HIDE DEF page, L
<1>4. ASSUME NEW i \in 1..L
      PROVE  page[i] \in U /\ Place(U, page[i]) = k + i - 1
  <2>1. page[i] \in S
    BY <1>2 DEF L
  <2>2. Place(S, page[i]) = k + i - 1 /\ k + i - 1 < k + P
    BY <1>2
  <2>3. QED
    BY <2>1, <2>2, <1>3
<1>5. Good(U, s \o page, k + L)
  <2>1. s \in Seq(Nat) /\ Len(s) = k /\ page \in Seq(Nat) /\ Len(page) = L
    <3>1. page \in Seq(Nat)
      BY <1>1, <1>2, SeqMonotonic
    <3>2. QED
      BY <3>1 DEF Good, L
  <2>2. /\ s \o page \in Seq(Nat) /\ Len(s \o page) = k + L
        /\ \A i \in 1..(k + L) : (s \o page)[i] = IF i <= k THEN s[i] ELSE page[i - k]
    BY <2>1, ConcatProperties, ZenonT(40)
  <2>3. ASSUME NEW i \in 1..(k + L)
        PROVE  (s \o page)[i] \in U /\ Place(U, (s \o page)[i]) = i - 1
    <3>1. CASE i <= k
      <4>1. i \in 1..k /\ (s \o page)[i] = s[i]
        BY <3>1, <2>2, <1>2
      <4>2. QED
        BY <4>1 DEF Good
    <3>2. CASE ~(i <= k)
      <4>1. i - k \in 1..L /\ (s \o page)[i] = page[i - k] /\ k + (i - k) - 1 = i - 1
        BY <3>2, <2>2, <1>2
      <4>2. page[i - k] \in U /\ Place(U, page[i - k]) = k + (i - k) - 1
        BY <4>1, <1>4
      <4>3. QED
        BY <4>1, <4>2
    <3>3. QED
      BY <3>1, <3>2
  <2>4. QED
    BY <2>2, <2>3 DEF Good
<1>6. ASSUME k + L \notin 1..(Cardinality(U) - 1)
      PROVE  S = U /\ k + L = Cardinality(S)
  <2>1. Cardinality(U) \in Nat /\ Cardinality(S) <= Cardinality(U)
        /\ (S # U => Cardinality(S) # Cardinality(U)) /\ k <= Cardinality(U)
    BY FS_CardinalityType, FS_Subset, GoodIsShort
  <2>2. S = U
    <3>1. SUFFICES ASSUME S # U PROVE FALSE
      OBVIOUS
    <3>2. k + P <= Cardinality(S) /\ Cardinality(S) < Cardinality(U)
      BY <3>1, <2>1, <1>1, <1>3
    <3>3. L = P
      BY <3>2, <1>1, <1>2
    <3>4. QED
      BY <3>2, <3>3, <1>1, <2>1, <1>6
  <2>3. L = IF k + P <= Cardinality(S) THEN P ELSE Cardinality(S) - k
    BY <2>1, <2>2, <1>2
  <2>4. CASE k + P <= Cardinality(S)
    BY <2>3, <2>4, <2>1, <2>2, <1>6, <1>1
  <2>5. CASE ~(k + P <= Cardinality(S))
    BY <2>3, <2>5, <2>1, <2>2, <1>1
  <2>6. QED
    BY <2>2, <2>4, <2>5
<1>7. QED
  BY <1>2, <1>5, <1>6 DEF page, L

\* A sequence of all, in order, has each once and the newer one first.
LEMMA WholeIsOnce ==
    ASSUME NEW S \in SUBSET Nat, IsFiniteSet(S), NEW s, Good(S, s, Cardinality(S)),
           NEW r \in S, NEW q \in S
    PROVE  /\ Cardinality({i \in DOMAIN s : s[i] = r}) = 1
           /\ \A i, j \in DOMAIN s : s[i] = r /\ s[j] = q /\ r > q => i < j
<1> DEFINE c == Cardinality(S)
<1>1. c \in Nat /\ DOMAIN s = 1..c /\ r \in Nat /\ q \in Nat
  BY FS_CardinalityType DEF Good
<1>2. \A i \in 1..c : s[i] \in S /\ Place(S, s[i]) = i - 1
  BY DEF Good
<1>3. /\ Place(S, r) \in Nat /\ Place(S, r) < c /\ Place(S, q) \in Nat
      /\ r > q => Place(S, r) < Place(S, q)
  BY <1>1, PlacesGrow
<1> HIDE DEF c
<1>4. DEFINE n == Place(S, r) + 1
<1>5. n \in 1..c
  BY <1>1, <1>3
<1>6. s[n] = r
  <2>1. s[n] \in S /\ Place(S, s[n]) = n - 1
    BY <1>5, <1>2
  <2>2. Place(S, s[n]) = Place(S, r)
    BY <2>1, <1>3
  <2>3. \A p \in S : Place(S, p) = Place(S, r) => p = r
    BY PlacesDiffer
  <2>4. QED
    <3> HIDE DEF n
    <3>1. QED
      BY <2>1, <2>2, <2>3
<1>7. \A i \in 1..c : s[i] = r => i = n
  BY <1>1, <1>2, <1>3
<1>8. {i \in DOMAIN s : s[i] = r} = {n}
  <2> HIDE DEF n
  <2>1. QED
    BY <1>1, <1>5, <1>6, <1>7
<1>9. \A i, j \in 1..c : s[i] = r /\ s[j] = q /\ r > q => i < j
  <2>1. \A i, j \in 1..c : s[i] = r /\ s[j] = q => Place(S, r) = i - 1 /\ Place(S, q) = j - 1
    BY <1>2
  <2>2. QED
    BY <2>1, <1>3
<1>10. QED
  BY <1>1, <1>8, <1>9, FS_Singleton

-----------------------------------------------------------------------------
(* Deliverables: the runs, and who reads of them.                            *)

StepStatuses == {"absent", "running", "ended", "collected"}
DocumentLines == Ordinals \X Reports \X Nat
Revisions == {<<>>} \cup (Nat \X Nat) \cup (Reports \X Ordinals)
Cursors == [revision : Revisions, offset : Nat]
Sequences == Seq(Nat) \cup Seq(DocumentLines)
Places == {"idle", "open", "ensure", "count", "missing", "page", "inspect", "done"}
ReaderRow ==
    [kind : {"none", "overview", "index", "inspect"}, want : Wanted, pc : Places,
     cursor : Cursors, todo : SUBSET [run : Ordinals, report : Reports],
     at : Nat, total : Nat, seen : Sequences, calm : BOOLEAN]

DocumentsTyped ==
    /\ stepOf \in [Ordinals -> StepStatuses] /\ output \in [Ordinals -> Reports]
    /\ shelf \in [Ordinals -> Reports \cup {NoRow}] /\ retried \in Nat

\* Runs start one after the other, and only the last one can be running.
RunsFollow ==
    /\ Started \in Nat /\ Ordinals \ Runs("absent") = 1..Started
    /\ \A r \in Runs("running") : r = Started
    /\ Shelved \subseteq 1..Started

\* What a request carries, by where it is.
RequestFits ==
    /\ reader \in ReaderRow
    /\ \A row \in reader.todo : row.run \in 1..Started
    /\ reader.pc \in {"open", "ensure", "missing", "done", "idle"} => reader.todo = {}
    /\ reader.pc \in {"open", "done"} => reader.kind \in {"index", "inspect"}
    /\ reader.pc \in {"count", "missing", "page"} => reader.kind \in {"overview", "index"}
    /\ reader.pc = "inspect" => reader.kind = "inspect"
    /\ reader.pc = "ensure" => reader.kind # "none"
    /\ reader.pc = "idle" => reader.kind = "none"
    /\ reader.kind = "inspect" => reader.seen \in Seq(DocumentLines)
    /\ reader.kind # "inspect" => reader.seen \in Seq(Nat)

PagesTyped == DocumentsTyped /\ RunsFollow /\ RequestFits

\* What is shown or will be: the rows and the ended steps nobody copied.
Offered == Runs("ended") \cup Shelved

SameRequest ==
    /\ reader'.kind = reader.kind /\ reader'.want = reader.want /\ reader'.pc = reader.pc
    /\ reader'.cursor = reader.cursor /\ reader'.todo = reader.todo /\ reader'.at = reader.at
    /\ reader'.total = reader.total /\ reader'.seen = reader.seen

LEMMA PagesNumbers ==
    /\ Entries \in [Reports -> Nat] /\ Void \in Reports /\ Entries[Void] = 0 /\ NoRow \notin Reports
    /\ Ordinals \subseteq Nat /\ 0 \notin Ordinals /\ 0 \in Wanted /\ MaxRetries \in Nat
    /\ Window \in Nat /\ Window >= 1 /\ Recent \in Nat /\ Recent >= 1
    /\ PageSize \in Nat /\ PageSize >= 1
BY DeliverablesAssumption

LEMMA CountTo ==
    ASSUME NEW n \in Nat
    PROVE  IsFiniteSet(1..n) /\ Cardinality(1..n) = n
<1>1. 1 \in Int /\ n \in Int
  OBVIOUS
<1>2. IsFiniteSet(1..n) /\ Cardinality(1..n) = IF 1 > n THEN 0 ELSE n - 1 + 1
  BY <1>1, FS_Interval
<1>3. QED
  BY <1>2

LEMMA EmptyIsTyped == <<>> \in Seq(Nat) /\ <<>> \in Seq(DocumentLines) /\ Len(<<>>) = 0
OBVIOUS

LEMMA NobodyFits == Nobody \in ReaderRow
<1>1. NoCursor \in Cursors
  BY DEF NoCursor, Revisions, Cursors
<1>2. {} \in SUBSET [run : Ordinals, report : Reports]
  OBVIOUS
<1>3. <<>> \in Sequences
  BY EmptyIsTyped DEF Sequences
<1>4. QED
  BY <1>1, <1>2, <1>3, PagesNumbers DEF Nobody, ReaderRow, Places

\* The sets of runs are finite, and the rows are of runs that started.
LEMMA RunsAreFinite ==
    ASSUME PagesTyped
    PROVE  /\ Runs("ended") \in SUBSET (1..Started) /\ Shelved \in SUBSET (1..Started)
           /\ Offered \in SUBSET (1..Started) /\ Offered \in SUBSET Nat
           /\ IsFiniteSet(Offered) /\ IsFiniteSet(Shelved) /\ IsFiniteSet(Runs("ended"))
           /\ Shelved \in SUBSET Offered /\ Runs("ended") \in SUBSET Offered
           /\ Unshelved = Offered \ Shelved
           /\ Cardinality(Offered) = Cardinality(Shelved) + Cardinality(Unshelved)
           /\ Cardinality(Offered) \in Nat /\ Cardinality(Shelved) \in Nat
<1>1. Started \in Nat /\ Ordinals \ Runs("absent") = 1..Started /\ Shelved \subseteq 1..Started
  BY DEF PagesTyped, RunsFollow
<1>2. Runs("ended") \subseteq 1..Started
  <2>1. Runs("ended") \subseteq Ordinals \ Runs("absent")
    BY DEF Runs
  <2>2. QED
    BY <1>1, <2>1
<1>3. /\ Offered \in SUBSET (1..Started) /\ Offered \in SUBSET Nat
      /\ Shelved \in SUBSET Offered /\ Runs("ended") \in SUBSET Offered
      /\ Unshelved = Offered \ Shelved
  <2>1. \A r \in 1..Started : r \in Nat
    BY <1>1
  <2>2. Offered \subseteq 1..Started
    BY <1>1, <1>2 DEF Offered
  <2>3. Shelved \subseteq Offered /\ Runs("ended") \subseteq Offered /\ Unshelved = Offered \ Shelved
    BY DEF Offered, Unshelved
  <2>4. QED
    BY <2>1, <2>2, <2>3
<1>4. IsFiniteSet(1..Started)
  BY <1>1, CountTo
<1>5. IsFiniteSet(Offered)
  BY <1>3, <1>4, FS_Subset
<1>6. IsFiniteSet(Shelved) /\ IsFiniteSet(Runs("ended"))
  BY <1>3, <1>5, FS_Subset
<1>7. Cardinality(Offered \ Shelved) = Cardinality(Offered) - Cardinality(Offered \cap Shelved)
  BY <1>5, FS_Difference
<1>8. Offered \cap Shelved = Shelved
  BY <1>3
<1>9. Cardinality(Offered) \in Nat /\ Cardinality(Shelved) \in Nat
  BY <1>5, <1>6, FS_CardinalityType
<1>10. QED
  BY <1>1, <1>2, <1>3, <1>5, <1>6, <1>7, <1>8, <1>9

-----------------------------------------------------------------------------
(* What happens to runs, as far as a reader can tell.                        *)

\* Whatever happens, a request in progress does not notice it.
LEMMA RequestDisturbed ==
    ASSUME reader \in ReaderRow, NEW lost \in BOOLEAN, DisturbIf(lost)
    PROVE  /\ reader' \in ReaderRow
           /\ \/ reader' = Nobody
              \/ SameRequest /\ (reader'.calm => reader.calm /\ reader.pc = "open" /\ ~lost)
<1>1. CASE Over
  BY <1>1, NobodyFits DEF DisturbIf
<1>2. CASE ~Over
  <2>1. reader' = [reader EXCEPT !.calm = reader.calm /\ reader.pc = "open" /\ ~lost]
    BY <1>2 DEF DisturbIf
  <2> DEFINE b == reader.calm /\ reader.pc = "open" /\ ~lost
  <2>2. b \in BOOLEAN
    BY DEF ReaderRow
  <2> HIDE DEF b
  <2>3. reader' = [reader EXCEPT !.calm = b]
    BY <2>1 DEF b
  <2>4. reader' \in ReaderRow /\ SameRequest /\ reader'.calm = b
    BY <2>2, <2>3 DEF ReaderRow, SameRequest
  <2>5. QED
    BY <2>4 DEF b
<1>3. QED
  BY <1>1, <1>2

\* The request fits also after it: nothing unstarts.
LEMMA DisturbedFits ==
    ASSUME PagesTyped, NEW lost \in BOOLEAN, DisturbIf(lost),
           Started' \in Nat, Started' >= Started
    PROVE  RequestFits'
<1>1. reader \in ReaderRow /\ RequestFits /\ Started \in Nat
  BY DEF PagesTyped, RequestFits, RunsFollow
<1>2. /\ reader' \in ReaderRow
      /\ reader' = Nobody \/ SameRequest
  BY <1>1, RequestDisturbed
<1>3. CASE reader' = Nobody
  <2>1. /\ reader'.kind = "none" /\ reader'.pc = "idle" /\ reader'.todo = {} /\ reader'.seen = <<>>
    BY <1>3 DEF Nobody
  <2>2. QED
    BY <1>2, <2>1, EmptyIsTyped DEF RequestFits
<1>4. CASE SameRequest
  <2>1. \A row \in reader'.todo : row.run \in 1..Started'
    BY <1>1, <1>4 DEF RequestFits, SameRequest
  <2>2. QED
    BY <1>1, <1>2, <1>4, <2>1 DEF RequestFits, SameRequest
<1>5. QED
  BY <1>2, <1>3, <1>4

LEMMA StepChanges ==
    ASSUME DocumentsTyped, NEW r \in Ordinals, NEW x \in StepStatuses,
           stepOf' = [stepOf EXCEPT ![r] = x]
    PROVE  /\ stepOf' \in [Ordinals -> StepStatuses]
           /\ \A q \in Ordinals : stepOf'[q] = IF q = r THEN x ELSE stepOf[q]
           /\ Runs(x)' = Runs(x) \cup {r}
           /\ \A y \in StepStatuses : y # x => Runs(y)' = Runs(y) \ {r}
<1>1. /\ stepOf' \in [Ordinals -> StepStatuses]
      /\ \A q \in Ordinals : stepOf'[q] = IF q = r THEN x ELSE stepOf[q]
  BY DEF DocumentsTyped
<1>2. \A y : Runs(y)' = {q \in Ordinals : stepOf'[q] = y}
  BY DEF Runs
<1>3. Runs(x)' = Runs(x) \cup {r}
  BY <1>1 DEF Runs
<1>4. ASSUME NEW y \in StepStatuses, y # x PROVE Runs(y)' = Runs(y) \ {r}
  BY <1>1, <1>4 DEF Runs
<1>5. QED
  BY <1>1, <1>3, <1>4

\* As many are started as before, when a started run changes its status.
LEMMA StartedStays ==
    ASSUME PagesTyped, NEW r \in 1..Started, NEW x \in StepStatuses \ {"absent"},
           stepOf' = [stepOf EXCEPT ![r] = x]
    PROVE  /\ r \in Ordinals /\ Started' = Started
           /\ (Ordinals \ Runs("absent"))' = 1..Started
<1>1. r \in Ordinals /\ r \notin Runs("absent") /\ DocumentsTyped
  BY DEF PagesTyped, RunsFollow
<1>2. Runs("absent")' = Runs("absent") \ {r}
  BY <1>1, StepChanges DEF StepStatuses
<1>3. (Ordinals \ Runs("absent"))' = Ordinals \ Runs("absent")
  BY <1>1, <1>2
<1>4. QED
  BY <1>1, <1>3 DEF Started, PagesTyped, RunsFollow

LEMMA StartRunEffect ==
    ASSUME PagesTyped, StartRun
    PROVE  /\ PagesTyped' /\ Started' = Started + 1
           /\ Runs("ended")' = Runs("ended") /\ Shelved' = Shelved
<1> DEFINE n == Started + 1
<1>1. /\ DocumentsTyped /\ Started \in Nat /\ Ordinals \ Runs("absent") = 1..Started
      /\ Shelved \subseteq 1..Started
      /\ n \in Ordinals /\ n \in Nat /\ Runs("running") = {}
  BY DEF PagesTyped, RunsFollow, StartRun
<1>2. /\ stepOf' = [stepOf EXCEPT ![n] = "running"] /\ Disturb
      /\ UNCHANGED <<output, shelf, retried>>
  BY DEF StartRun
<1>3. n \in Runs("absent") /\ n \notin Runs("ended")
  <2>1. n \in Runs("absent")
    BY <1>1
  <2>2. QED
    BY <2>1 DEF Runs
<1> HIDE DEF n
<1>4. /\ stepOf' \in [Ordinals -> StepStatuses]
      /\ Runs("running")' = {n} /\ Runs("ended")' = Runs("ended")
      /\ Runs("absent")' = Runs("absent") \ {n}
  <2>1. "running" \in StepStatuses /\ "ended" \in StepStatuses /\ "absent" \in StepStatuses
    BY DEF StepStatuses
  <2>2. /\ stepOf' \in [Ordinals -> StepStatuses]
        /\ Runs("running")' = Runs("running") \cup {n}
        /\ \A y \in StepStatuses : y # "running" => Runs(y)' = Runs(y) \ {n}
    BY <1>1, <1>2, <2>1, StepChanges
  <2>3. Runs("ended")' = Runs("ended") \ {n} /\ Runs("absent")' = Runs("absent") \ {n}
    BY <2>1, <2>2
  <2>4. QED
    BY <2>2, <2>3, <1>1, <1>3
<1>5. Shelved' = Shelved
  BY <1>2 DEF Shelved
<1>6. (Ordinals \ Runs("absent"))' = 1..n
  <2>1. (Ordinals \ Runs("absent"))' = (Ordinals \ Runs("absent")) \cup {n}
    BY <1>1, <1>4
  <2>2. (1..Started) \cup {n} = 1..n
    BY <1>1 DEF n
  <2>3. QED
    BY <1>1, <2>1, <2>2
<1>7. Started' = n
  BY <1>1, <1>6, CountTo DEF Started
<1>8. DocumentsTyped'
  BY <1>1, <1>2, <1>4 DEF DocumentsTyped
<1>9. RunsFollow'
  <2>1. Shelved' \subseteq 1..Started'
    BY <1>1, <1>5, <1>7 DEF n
  <2>2. QED
    BY <1>1, <1>4, <1>6, <1>7, <2>1 DEF RunsFollow
<1>10. RequestFits'
  <2>1. DisturbIf(FALSE)
    BY <1>2 DEF Disturb
  <2>2. Started' \in Nat /\ Started' >= Started
    BY <1>1, <1>7 DEF n
  <2>3. QED
    BY <2>1, <2>2, DisturbedFits
<1>11. QED
  BY <1>4, <1>5, <1>7, <1>8, <1>9, <1>10 DEF PagesTyped, n

LEMMA EndStepEffect ==
    ASSUME PagesTyped, EndStep
    PROVE  /\ PagesTyped' /\ Started' = Started /\ DisturbIf(FALSE)
           /\ Runs("ended")' = Runs("ended") \cup {Started} /\ Shelved' = Shelved
<1>1. PICK r \in Runs("running"), c \in Reports :
         /\ stepOf' = [stepOf EXCEPT ![r] = "ended"]
         /\ output' = [output EXCEPT ![r] = c]
  BY DEF EndStep
<1>2. /\ DocumentsTyped /\ RunsFollow /\ r = Started /\ r \in Ordinals /\ r \in 1..Started
      /\ Started \in Nat
  <2>1. r \in Ordinals \ Runs("absent")
    BY DEF Runs
  <2>2. QED
    BY <2>1 DEF PagesTyped, RunsFollow
<1>3. Disturb /\ UNCHANGED <<shelf, retried>>
  BY DEF EndStep
<1>4. /\ stepOf' \in [Ordinals -> StepStatuses]
      /\ Runs("ended")' = Runs("ended") \cup {r} /\ Runs("running")' = Runs("running") \ {r}
  BY <1>1, <1>2, StepChanges DEF StepStatuses
<1>5. Started' = Started /\ (Ordinals \ Runs("absent"))' = 1..Started
  BY <1>1, <1>2, StartedStays DEF StepStatuses
<1>6. Shelved' = Shelved
  BY <1>3 DEF Shelved
<1>7. DocumentsTyped'
  BY <1>1, <1>2, <1>3, <1>4 DEF DocumentsTyped
<1>8. RunsFollow'
  BY <1>2, <1>4, <1>5, <1>6 DEF RunsFollow
<1>9. RequestFits' /\ DisturbIf(FALSE)
  <2>1. DisturbIf(FALSE)
    BY <1>3 DEF Disturb
  <2>2. Started' \in Nat /\ Started' >= Started
    BY <1>2, <1>5
  <2>3. QED
    BY <2>1, <2>2, DisturbedFits
<1>10. QED
  BY <1>2, <1>4, <1>5, <1>6, <1>7, <1>8, <1>9 DEF PagesTyped

LEMMA MaterializeEffect ==
    ASSUME PagesTyped, Materialize
    PROVE  /\ PagesTyped' /\ Started' = Started /\ DisturbIf(FALSE) /\ Started \in Runs("ended")
           /\ Runs("ended")' = Runs("ended") /\ Shelved' = Shelved \cup {Started}
<1>1. /\ Started \in Runs("ended") /\ Disturb /\ UNCHANGED <<stepOf, output, retried>>
      /\ shelf' = [shelf EXCEPT ![Started] = output[Started]]
  BY DEF Materialize, Upsert
<1>2. /\ DocumentsTyped /\ RunsFollow /\ Started \in Ordinals /\ Started \in Nat
      /\ Started \in 1..Started
  <2>1. Started \in Ordinals \ Runs("absent")
    BY <1>1 DEF Runs
  <2>2. QED
    BY <2>1 DEF PagesTyped, RunsFollow
<1>3. output[Started] \in Reports /\ output[Started] # NoRow
  BY <1>2, PagesNumbers DEF DocumentsTyped
<1>4. /\ shelf' \in [Ordinals -> Reports \cup {NoRow}]
      /\ \A q \in Ordinals : shelf'[q] = IF q = Started THEN output[Started] ELSE shelf[q]
  BY <1>1, <1>2, <1>3 DEF DocumentsTyped
<1>5. Shelved' = Shelved \cup {Started}
  BY <1>2, <1>3, <1>4 DEF Shelved
<1>6. \A x : Runs(x)' = Runs(x)
  BY <1>1 DEF Runs
<1>7. Started' = Started
  BY <1>6 DEF Started
<1>8. DocumentsTyped'
  BY <1>1, <1>2, <1>4 DEF DocumentsTyped
<1>9. RunsFollow'
  BY <1>2, <1>5, <1>6, <1>7 DEF RunsFollow
<1>10. RequestFits' /\ DisturbIf(FALSE)
  <2>1. DisturbIf(FALSE)
    BY <1>1 DEF Disturb
  <2>2. Started' \in Nat /\ Started' >= Started
    BY <1>2, <1>7
  <2>3. QED
    BY <2>1, <2>2, DisturbedFits
<1>11. QED
  BY <1>1, <1>5, <1>6, <1>7, <1>8, <1>9, <1>10 DEF PagesTyped

LEMMA RetryStepEffect ==
    ASSUME PagesTyped, RetryStep
    PROVE  /\ PagesTyped' /\ Started' = Started /\ DisturbIf(MovesUp(Started))
           /\ Started \in Runs("ended")
           /\ Runs("ended")' = Runs("ended") \ {Started} /\ Shelved' = Shelved
<1>1. /\ Started \in Runs("ended") /\ DisturbIf(MovesUp(Started)) /\ UNCHANGED <<output, shelf>>
      /\ stepOf' = [stepOf EXCEPT ![Started] = "running"] /\ retried' = retried + 1
  BY DEF RetryStep
<1>2. /\ DocumentsTyped /\ RunsFollow /\ Started \in Ordinals /\ Started \in Nat
      /\ Started \in 1..Started
  <2>1. Started \in Ordinals \ Runs("absent")
    BY <1>1 DEF Runs
  <2>2. QED
    BY <2>1 DEF PagesTyped, RunsFollow
<1> DEFINE n == Started
<1>3. /\ stepOf' \in [Ordinals -> StepStatuses]
      /\ Runs("ended")' = Runs("ended") \ {n} /\ Runs("running")' = Runs("running") \cup {n}
  <2> HIDE DEF n
  <2>1. stepOf' = [stepOf EXCEPT ![n] = "running"] /\ n \in Ordinals
    BY <1>1, <1>2 DEF n
  <2>2. QED
    BY <2>1, <1>2, StepChanges DEF StepStatuses
<1>4. Started' = Started /\ (Ordinals \ Runs("absent"))' = 1..Started
  <2> HIDE DEF n
  <2>1. stepOf' = [stepOf EXCEPT ![n] = "running"] /\ n \in 1..Started
    BY <1>1, <1>2 DEF n
  <2>2. QED
    BY <2>1, StartedStays DEF StepStatuses
<1>5. Shelved' = Shelved
  BY <1>1 DEF Shelved
<1>6. DocumentsTyped'
  BY <1>1, <1>2, <1>3 DEF DocumentsTyped
<1>7. RunsFollow'
  BY <1>2, <1>3, <1>4, <1>5 DEF RunsFollow
<1>8. RequestFits'
  <2> DEFINE lost == MovesUp(Started)
  <2>1. lost \in BOOLEAN /\ DisturbIf(lost)
    BY <1>1 DEF MovesUp
  <2> HIDE DEF lost
  <2>2. Started' \in Nat /\ Started' >= Started
    BY <1>2, <1>4
  <2>3. QED
    BY <2>1, <2>2, DisturbedFits
<1>9. QED
  BY <1>1, <1>3, <1>4, <1>5, <1>6, <1>7, <1>8 DEF PagesTyped

LEMMA CollectRunEffect ==
    ASSUME PagesTyped, CollectRun
    PROVE  \E r \in Runs("ended") :
              /\ PagesTyped' /\ Started' = Started /\ DisturbIf(shelf[r] = NoRow \/ MovesUp(r))
              /\ Runs("ended")' = Runs("ended") \ {r} /\ Shelved' = Shelved
<1>1. PICK r \in Runs("ended") :
         /\ stepOf' = [stepOf EXCEPT ![r] = "collected"]
         /\ DisturbIf(shelf[r] = NoRow \/ MovesUp(r))
         /\ UNCHANGED <<output, shelf, retried>>
  BY DEF CollectRun
<1>2. DocumentsTyped /\ RunsFollow /\ r \in Ordinals /\ Started \in Nat /\ r \in 1..Started
  <2>1. r \in Ordinals \ Runs("absent")
    BY <1>1 DEF Runs
  <2>2. QED
    BY <2>1 DEF PagesTyped, RunsFollow
<1>3. /\ stepOf' \in [Ordinals -> StepStatuses]
      /\ Runs("ended")' = Runs("ended") \ {r} /\ Runs("running")' = Runs("running") \ {r}
  BY <1>1, <1>2, StepChanges DEF StepStatuses
<1>4. Started' = Started /\ (Ordinals \ Runs("absent"))' = 1..Started
  BY <1>1, <1>2, StartedStays DEF StepStatuses
<1>5. Shelved' = Shelved
  BY <1>1 DEF Shelved
<1>6. DocumentsTyped'
  BY <1>1, <1>2, <1>3 DEF DocumentsTyped
<1>7. RunsFollow'
  BY <1>2, <1>3, <1>4, <1>5 DEF RunsFollow
<1>8. RequestFits'
  <2> DEFINE lost == shelf[r] = NoRow \/ MovesUp(r)
  <2>1. lost \in BOOLEAN /\ DisturbIf(lost)
    BY <1>1 DEF MovesUp
  <2> HIDE DEF lost
  <2>2. Started' \in Nat /\ Started' >= Started
    BY <1>2, <1>4
  <2>3. QED
    BY <2>1, <2>2, DisturbedFits
<1>9. QED
  BY <1>1, <1>3, <1>4, <1>5, <1>6, <1>7, <1>8 DEF PagesTyped

-----------------------------------------------------------------------------
(* The steps of a request.                                                   *)

SameRows == /\ Started' = Started /\ Runs("ended")' = Runs("ended") /\ Shelved' = Shelved
            /\ UNCHANGED <<stepOf, output, shelf, retried>>

LEMMA OnlyAsks ==
    ASSUME PagesTyped, UNCHANGED <<stepOf, output, shelf, retried>>
    PROVE  SameRows /\ DocumentsTyped' /\ RunsFollow'
<1>1. \A x : Runs(x)' = Runs(x)
  BY DEF Runs
<1>2. Started' = Started /\ Shelved' = Shelved
  BY <1>1 DEF Started, Shelved
<1>3. DocumentsTyped /\ RunsFollow
  BY DEF PagesTyped
<1>4. DocumentsTyped'
  BY <1>3 DEF DocumentsTyped
<1>5. RunsFollow'
  BY <1>1, <1>2, <1>3 DEF RunsFollow
<1>6. QED
  BY <1>1, <1>2, <1>4, <1>5 DEF SameRows

LEMMA NoCursorIs == NoCursor \in Cursors /\ NoCursor.offset = 0
BY DEF NoCursor, Cursors, Revisions

LEMMA CursorAtIs ==
    ASSUME NEW v \in Revisions, NEW k \in Nat, NEW t \in Nat
    PROVE  /\ CursorAt(v, k, t) \in Cursors
           /\ k \in 1..(t - 1) => /\ CursorAt(v, k, t) = [revision |-> v, offset |-> k]
                                  /\ CursorAt(v, k, t) # NoCursor
           /\ k \notin 1..(t - 1) => CursorAt(v, k, t) = NoCursor
<1>1. CASE k \in 1..(t - 1)
  <2>1. CursorAt(v, k, t) = [revision |-> v, offset |-> k] /\ k # 0
    BY <1>1 DEF CursorAt
  <2>2. [revision |-> v, offset |-> k] \in Cursors /\ [revision |-> v, offset |-> k].offset = k
    BY DEF Cursors
  <2>3. QED
    BY <1>1, <2>1, <2>2, NoCursorIs
<1>2. CASE k \notin 1..(t - 1)
  BY <1>2, NoCursorIs DEF CursorAt
<1>3. QED
  BY <1>1, <1>2

LEMMA AnswerIs ==
    ASSUME reader \in ReaderRow, NEW c \in Cursors
    PROVE  /\ Answer(c) \in ReaderRow
           /\ Answer(c).kind = reader.kind /\ Answer(c).seen = reader.seen
           /\ Answer(c).cursor = c /\ Answer(c).todo = reader.todo
           /\ Answer(c).calm = reader.calm /\ Answer(c).want = reader.want
           /\ Answer(c).pc = IF c = NoCursor THEN "done" ELSE "open"
<1> DEFINE p == IF c = NoCursor THEN "done" ELSE "open"
           a == Answer(c)
<1>1. p \in Places
  BY DEF Places
<1>2. a = [reader EXCEPT !.cursor = c, !.at = 0, !.total = 0, !.pc = p]
  BY DEF Answer
<1> HIDE DEF p, a
<1>3. a \in ReaderRow
  BY <1>1, <1>2 DEF ReaderRow
<1>4. /\ a.kind = reader.kind /\ a.seen = reader.seen /\ a.cursor = c
      /\ a.todo = reader.todo /\ a.calm = reader.calm /\ a.want = reader.want /\ a.pc = p
  BY <1>2 DEF ReaderRow
<1>5. QED
  BY <1>3, <1>4 DEF p, a

\* The rows to copy are those of the ended steps in question that have none.
LEMMA ToCopyIs ==
    ASSUME PagesTyped, NEW T \in SUBSET Runs("ended")
    PROVE  /\ ToCopy(T) \in SUBSET [run : Ordinals, report : Reports]
           /\ \A row \in ToCopy(T) : row.run \in Runs("ended") /\ row.run \in 1..Started
           /\ \A r \in T \ Shelved : \E row \in ToCopy(T) : row.run = r
<1>1. DocumentsTyped /\ Runs("ended") \subseteq 1..Started /\ Runs("ended") \subseteq Ordinals
  BY RunsAreFinite DEF PagesTyped, Runs
<1>2. \A r \in T : output[r] \in Reports
  BY <1>1 DEF DocumentsTyped
<1>3. \A row \in ToCopy(T) : \E r \in T : row = [run |-> r, report |-> output[r]]
  BY DEF ToCopy
<1>4. \A r \in T \ Shelved : [run |-> r, report |-> output[r]] \in ToCopy(T)
  BY DEF ToCopy
<1>5. \A row \in ToCopy(T) : row \in [run : Ordinals, report : Reports] /\ row.run \in T
  BY <1>1, <1>2, <1>3
<1>6. \A r \in T \ Shelved : \E row \in ToCopy(T) : row.run = r
  BY <1>4
<1>7. QED
  BY <1>1, <1>5, <1>6

LEMMA AmongIsPart == ASSUME NEW S, NEW k, NEW P PROVE Among(S, k, P) \in SUBSET S
BY DEF Among

LEMMA OpenEffect ==
    ASSUME PagesTyped, Open
    PROVE  /\ PagesTyped' /\ SameRows
           /\ reader'.kind \in {"overview", "index", "inspect"} /\ reader'.pc = "ensure"
           /\ reader'.cursor = NoCursor /\ reader'.seen = <<>> /\ reader'.todo = {}
<1>1. PICK kind \in {"overview", "index", "inspect"}, want \in Wanted :
         reader' = [Nobody EXCEPT !.kind = kind, !.want = want, !.pc = "ensure",
                                  !.calm = kind # "inspect"]
  BY DEF Open
<1> DEFINE b == kind # "inspect"
<1>2. b \in BOOLEAN
  OBVIOUS
<1> HIDE DEF b
<1>3. reader' = [Nobody EXCEPT !.kind = kind, !.want = want, !.pc = "ensure", !.calm = b]
  BY <1>1 DEF b
<1>4. /\ reader' \in ReaderRow /\ reader'.kind = kind /\ reader'.pc = "ensure"
      /\ reader'.cursor = Nobody.cursor /\ reader'.seen = Nobody.seen /\ reader'.todo = Nobody.todo
  BY <1>2, <1>3, NobodyFits DEF ReaderRow, Places
<1>5. Nobody.cursor = NoCursor /\ Nobody.seen = <<>> /\ Nobody.todo = {}
  BY DEF Nobody
<1>6. SameRows /\ DocumentsTyped' /\ RunsFollow'
  BY OnlyAsks DEF Open
<1>7. RequestFits'
  BY <1>4, <1>5, EmptyIsTyped DEF RequestFits
<1>8. QED
  BY <1>4, <1>5, <1>6, <1>7 DEF PagesTyped

LEMMA FollowEffect ==
    ASSUME PagesTyped, Follow
    PROVE  /\ PagesTyped' /\ SameRows /\ reader.pc = "open" /\ reader'.pc = "ensure"
           /\ reader'.kind = reader.kind /\ reader'.cursor = reader.cursor
           /\ reader'.seen = reader.seen /\ reader'.calm = reader.calm /\ reader'.todo = {}
<1>1. reader.pc = "open" /\ reader' = [reader EXCEPT !.pc = "ensure"] /\ reader \in ReaderRow
      /\ RequestFits
  BY DEF Follow, PagesTyped, RequestFits
<1>2. /\ reader' \in ReaderRow /\ reader'.pc = "ensure" /\ reader'.todo = reader.todo
      /\ reader'.kind = reader.kind /\ reader'.cursor = reader.cursor
      /\ reader'.seen = reader.seen /\ reader'.calm = reader.calm
  BY <1>1 DEF ReaderRow, Places
<1>3. SameRows /\ DocumentsTyped' /\ RunsFollow'
  BY OnlyAsks DEF Follow
<1>4. RequestFits'
  BY <1>1, <1>2, <1>3 DEF RequestFits, SameRows
<1>5. QED
  BY <1>1, <1>2, <1>3, <1>4 DEF PagesTyped, RequestFits

LEMMA CopyingEffect ==
    ASSUME PagesTyped, NEW T \in SUBSET Runs("ended"), NEW pc \in {"inspect", "count", "page"},
           pc = "inspect" <=> reader.kind = "inspect", reader.kind # "none",
           Copying(T, pc), UNCHANGED <<stepOf, output, shelf, retried>>
    PROVE  /\ PagesTyped' /\ SameRows /\ reader'.pc = pc /\ reader'.todo = ToCopy(T)
           /\ reader'.kind = reader.kind /\ reader'.cursor = reader.cursor
           /\ reader'.seen = reader.seen /\ reader'.calm = reader.calm
<1>1. reader' = [reader EXCEPT !.todo = ToCopy(T), !.pc = pc] /\ reader \in ReaderRow /\ RequestFits
  BY DEF Copying, PagesTyped, RequestFits
<1>2. /\ ToCopy(T) \in SUBSET [run : Ordinals, report : Reports]
      /\ \A row \in ToCopy(T) : row.run \in 1..Started
  BY ToCopyIs
<1>3. /\ reader' \in ReaderRow /\ reader'.pc = pc /\ reader'.todo = ToCopy(T)
      /\ reader'.kind = reader.kind /\ reader'.cursor = reader.cursor
      /\ reader'.seen = reader.seen /\ reader'.calm = reader.calm
  BY <1>1, <1>2 DEF ReaderRow, Places
<1>4. SameRows /\ DocumentsTyped' /\ RunsFollow'
  BY OnlyAsks
<1>5. reader.kind \in {"none", "overview", "index", "inspect"}
  BY <1>1 DEF ReaderRow
<1>6. RequestFits'
  <2>1. \A row \in reader'.todo : row.run \in 1..Started'
    BY <1>2, <1>3, <1>4 DEF SameRows
  <2>2. QED
    BY <1>1, <1>3, <1>5, <2>1 DEF RequestFits
<1>7. QED
  BY <1>3, <1>4, <1>6 DEF PagesTyped

LEMMA EnsureEffect ==
    ASSUME PagesTyped, Ensure
    PROVE  /\ PagesTyped' /\ SameRows /\ reader.pc = "ensure"
           /\ reader'.kind = reader.kind /\ reader'.cursor = reader.cursor
           /\ reader'.seen = reader.seen /\ reader'.calm = reader.calm
           /\ reader.kind = "inspect" => reader'.pc = "inspect"
           /\ reader.kind = "index" => reader'.pc = "count"
           /\ reader.kind = "overview" => reader'.pc = "page"
           /\ reader.kind # "inspect" => reader'.todo = ToCopy(Among(Runs("ended"), 0, Window))
<1>1. /\ reader.pc = "ensure" /\ UNCHANGED <<stepOf, output, shelf, retried>>
      /\ reader.kind \in {"inspect", "index", "overview"}
  BY DEF Ensure, PagesTyped, RequestFits, ReaderRow
<1>2. CASE reader.kind = "inspect"
  <2> DEFINE T == Among(Asked(Runs("ended")), 0, Recent)
  <2>1. T \in SUBSET Runs("ended")
    BY DEF Among, Asked
  <2>2. Copying(T, "inspect")
    BY <1>2 DEF Ensure
  <2> HIDE DEF T
  <2>3. QED
    BY <1>1, <1>2, <2>1, <2>2, CopyingEffect
<1> DEFINE T == Among(Runs("ended"), 0, Window)
<1>3. T \in SUBSET Runs("ended")
  BY AmongIsPart
<1>4. CASE reader.kind = "index"
  <2>1. Copying(T, "count")
    BY <1>4 DEF Ensure
  <2> HIDE DEF T
  <2>2. /\ PagesTyped' /\ SameRows /\ reader'.pc = "count" /\ reader'.todo = ToCopy(T)
        /\ reader'.kind = reader.kind /\ reader'.cursor = reader.cursor
        /\ reader'.seen = reader.seen /\ reader'.calm = reader.calm
    BY <1>1, <1>3, <1>4, <2>1, CopyingEffect
  <2>3. QED
    BY <1>1, <1>4, <2>2 DEF T
<1>5. CASE reader.kind = "overview"
  <2>1. Copying(T, "page")
    BY <1>5 DEF Ensure
  <2> HIDE DEF T
  <2>2. /\ PagesTyped' /\ SameRows /\ reader'.pc = "page" /\ reader'.todo = ToCopy(T)
        /\ reader'.kind = reader.kind /\ reader'.cursor = reader.cursor
        /\ reader'.seen = reader.seen /\ reader'.calm = reader.calm
    BY <1>1, <1>3, <1>5, <2>1, CopyingEffect
  <2>3. QED
    BY <1>1, <1>5, <2>2 DEF T
<1>6. QED
  BY <1>1, <1>2, <1>4, <1>5

LEMMA CopyRowEffect ==
    ASSUME PagesTyped, CopyRow
    PROVE  /\ PagesTyped' /\ Started' = Started /\ Runs("ended")' = Runs("ended")
           /\ reader'.kind = reader.kind /\ reader'.pc = reader.pc
           /\ reader'.cursor = reader.cursor /\ reader'.seen = reader.seen
           /\ reader'.at = reader.at /\ reader'.total = reader.total
           /\ reader'.calm = reader.calm
           /\ \E row \in reader.todo :
                 /\ reader'.todo = reader.todo \ {row} /\ Shelved' \in {Shelved, Shelved \cup {row.run}}
                 /\ row.run \in Runs("ended") => Shelved' = Shelved \cup {row.run}
<1>1. PICK row \in reader.todo :
         /\ IF Source(row.run) THEN Upsert(row.run, Legacy(row.report)) ELSE UNCHANGED shelf
         /\ reader' = [reader EXCEPT !.todo = @ \ {row}]
         /\ UNCHANGED <<stepOf, output, retried>>
  BY DEF CopyRow
<1>2. DocumentsTyped /\ RunsFollow /\ RequestFits /\ reader \in ReaderRow
  BY DEF PagesTyped, RequestFits
<1>3. row \in [run : Ordinals, report : Reports] /\ row.run \in 1..Started
  BY <1>2 DEF ReaderRow, RequestFits
<1>4. row.run \in Ordinals /\ Legacy(row.report) \in Reports /\ Legacy(row.report) # NoRow
  BY <1>3, PagesNumbers DEF Legacy
<1>5. /\ reader' \in ReaderRow /\ reader'.todo = reader.todo \ {row}
      /\ reader'.kind = reader.kind /\ reader'.pc = reader.pc
      /\ reader'.cursor = reader.cursor /\ reader'.seen = reader.seen
      /\ reader'.at = reader.at /\ reader'.total = reader.total /\ reader'.calm = reader.calm
  BY <1>1, <1>2 DEF ReaderRow
<1>6. /\ shelf' \in [Ordinals -> Reports \cup {NoRow}]
      /\ Shelved' \in {Shelved, Shelved \cup {row.run}}
      /\ Source(row.run) => Shelved' = Shelved \cup {row.run}
  <2>1. CASE Source(row.run)
    <3>1. shelf' = [shelf EXCEPT ![row.run] = Legacy(row.report)]
      BY <1>1, <2>1 DEF Upsert
    <3>2. /\ shelf' \in [Ordinals -> Reports \cup {NoRow}]
          /\ \A q \in Ordinals : shelf'[q] = IF q = row.run THEN Legacy(row.report) ELSE shelf[q]
      BY <3>1, <1>2, <1>4 DEF DocumentsTyped
    <3>3. Shelved' = Shelved \cup {row.run}
      BY <3>2, <1>4 DEF Shelved
    <3>4. QED
      BY <3>2, <3>3
  <2>2. CASE ~Source(row.run)
    BY <1>1, <1>2, <2>2 DEF DocumentsTyped, Shelved
  <2>3. QED
    BY <2>1, <2>2
<1>7. \A x : Runs(x)' = Runs(x)
  BY <1>1 DEF Runs
<1>8. Started' = Started
  BY <1>7 DEF Started
<1>9. row.run \in Runs("ended") => Source(row.run)
  BY DEF Runs, Source
<1>10. DocumentsTyped'
  BY <1>1, <1>2, <1>6 DEF DocumentsTyped
<1>11. RunsFollow'
  <2>1. Shelved' \subseteq 1..Started'
    BY <1>2, <1>3, <1>6, <1>8 DEF RunsFollow
  <2>2. QED
    BY <1>2, <1>7, <1>8, <2>1 DEF RunsFollow
<1>12. RequestFits'
  <2>1. \A r \in reader'.todo : r.run \in 1..Started'
    BY <1>2, <1>5, <1>8 DEF RequestFits
  <2>2. reader.pc \in {"open", "ensure", "missing", "done", "idle"} => reader'.todo = {}
    BY <1>2, <1>5 DEF RequestFits
  <2>3. QED
    BY <1>2, <1>5, <2>1, <2>2 DEF RequestFits
<1>13. QED
  BY <1>1, <1>5, <1>6, <1>7, <1>8, <1>9, <1>10, <1>11, <1>12 DEF PagesTyped

LEMMA CountRowsEffect ==
    ASSUME PagesTyped, CountRows
    PROVE  /\ PagesTyped' /\ SameRows /\ reader.pc = "count" /\ reader.todo = {}
           /\ reader'.pc = "missing" /\ reader'.total = Cardinality(Shelved) /\ reader'.todo = {}
           /\ reader'.kind = reader.kind /\ reader'.cursor = reader.cursor
           /\ reader'.seen = reader.seen /\ reader'.calm = reader.calm
<1>1. /\ reader.pc = "count" /\ reader.todo = {} /\ reader \in ReaderRow /\ RequestFits
      /\ reader' = [reader EXCEPT !.total = Cardinality(Shelved), !.pc = "missing"]
  BY DEF CountRows, Ready, PagesTyped, RequestFits
<1>2. Cardinality(Shelved) \in Nat
  BY RunsAreFinite
<1>3. /\ reader' \in ReaderRow /\ reader'.pc = "missing" /\ reader'.total = Cardinality(Shelved)
      /\ reader'.todo = reader.todo /\ reader'.kind = reader.kind /\ reader'.cursor = reader.cursor
      /\ reader'.seen = reader.seen /\ reader'.calm = reader.calm
  BY <1>1, <1>2 DEF ReaderRow, Places
<1>4. SameRows /\ DocumentsTyped' /\ RunsFollow'
  BY OnlyAsks DEF CountRows
<1>5. RequestFits'
  BY <1>1, <1>3 DEF RequestFits
<1>6. QED
  BY <1>1, <1>3, <1>4, <1>5 DEF PagesTyped

LEMMA CountMissingEffect ==
    ASSUME PagesTyped, CountMissing
    PROVE  LET total == reader.total + Cardinality(Unshelved) IN
           /\ PagesTyped' /\ SameRows /\ reader.pc = "missing" /\ total \in Nat
           /\ reader.kind = "overview" =>
                /\ reader'.kind = "index" /\ reader'.calm = reader.calm /\ reader'.seen = reader.seen
                /\ reader'.cursor = CursorAt(<<total, Started>>, Len(reader.seen), total)
                /\ reader'.pc = IF reader'.cursor = NoCursor THEN "done" ELSE "open"
           /\ reader.kind # "overview" /\ reader' # Nobody =>
                /\ reader'.kind = reader.kind /\ reader'.calm = reader.calm
                /\ reader'.seen = reader.seen /\ reader'.cursor = reader.cursor
                /\ reader'.pc = "page" /\ reader'.total = total /\ reader'.at = reader.cursor.offset
                /\ reader'.todo = ToCopy(Among(Runs("ended"), reader.cursor.offset, PageSize))
                /\ \/ reader.cursor = NoCursor
                   \/ /\ reader.cursor.revision = <<total, Started>>
                      /\ reader.cursor.offset < total
<1> DEFINE total == reader.total + Cardinality(Unshelved)
<1>1. /\ reader.pc = "missing" /\ reader \in ReaderRow /\ RequestFits /\ reader.todo = {}
      /\ reader.kind \in {"overview", "index"}
  BY DEF CountMissing, PagesTyped, RequestFits
<1>2. reader.total \in Nat /\ reader.cursor \in Cursors /\ Started \in Nat
  BY <1>1 DEF ReaderRow, PagesTyped, RunsFollow
<1>3. Cardinality(Unshelved) \in Nat
  <2>1. IsFiniteSet(Unshelved)
    <3>1. Unshelved \in SUBSET Offered /\ IsFiniteSet(Offered)
      BY RunsAreFinite
    <3>2. QED
      BY <3>1, FS_Subset
  <2>2. QED
    BY <2>1, FS_CardinalityType
<1>4. total \in Nat
  BY <1>2, <1>3
<1>5. SameRows /\ DocumentsTyped' /\ RunsFollow'
  BY OnlyAsks DEF CountMissing
<1>6. CASE reader.kind = "overview"
  <2> DEFINE c == CursorAt(<<total, Started>>, Len(reader.seen), total)
             a == Answer(c)
  <2>1. reader' = [a EXCEPT !.kind = "index"]
    BY <1>6 DEF CountMissing, Revision
  <2>2. reader.seen \in Seq(Nat) /\ Len(reader.seen) \in Nat
    BY <1>1, <1>6 DEF RequestFits
  <2>3. <<total, Started>> \in Revisions
    BY <1>2, <1>4 DEF Revisions
  <2>4. c \in Cursors
    <3> HIDE DEF total
    <3>1. QED
      BY <1>4, <2>2, <2>3, CursorAtIs
  <2> HIDE DEF c, total
  <2>5. /\ a \in ReaderRow /\ a.seen = reader.seen /\ a.cursor = c /\ a.todo = reader.todo
        /\ a.calm = reader.calm /\ a.pc = IF c = NoCursor THEN "done" ELSE "open"
    BY <1>1, <2>4, AnswerIs
  <2> HIDE DEF a
  <2>6. /\ reader' \in ReaderRow /\ reader'.kind = "index" /\ reader'.seen = a.seen
        /\ reader'.cursor = a.cursor /\ reader'.todo = a.todo /\ reader'.calm = a.calm
        /\ reader'.pc = a.pc
    BY <2>1, <2>5 DEF ReaderRow
  <2>7. RequestFits'
    BY <1>1, <2>2, <2>5, <2>6 DEF RequestFits
  <2>8. QED
    BY <1>1, <1>4, <1>5, <1>6, <2>5, <2>6, <2>7 DEF PagesTyped, c, total
<1>7. CASE reader.kind = "index"
  <2> DEFINE cursor == reader.cursor
             goes == cursor = NoCursor \/ (cursor.revision = <<total, Started>> /\ cursor.offset < total)
             T == ToCopy(Among(Runs("ended"), cursor.offset, PageSize))
  <2>1. IF goes
        THEN reader' = [reader EXCEPT !.pc = "page", !.total = total, !.at = cursor.offset, !.todo = T]
        ELSE reader' = Nobody
    BY <1>7 DEF CountMissing, Revision, Refuse
  <2>2. cursor.offset \in Nat
    BY <1>2 DEF Cursors
  <2>3. /\ T \in SUBSET [run : Ordinals, report : Reports]
        /\ \A row \in T : row.run \in 1..Started
    BY AmongIsPart, ToCopyIs
  <2> HIDE DEF goes, T, total
  <2>4. CASE goes
    <3>1. reader' = [reader EXCEPT !.pc = "page", !.total = total, !.at = cursor.offset, !.todo = T]
      BY <2>1, <2>4
    <3> DEFINE k == cursor.offset
    <3>2. reader' = [reader EXCEPT !.pc = "page", !.total = total, !.at = k, !.todo = T] /\ k \in Nat
      BY <3>1, <2>2
    <3> HIDE DEF k
    <3>3. "page" \in Places
      BY DEF Places
    <3>4. reader' \in ReaderRow
      BY <1>1, <1>4, <2>3, <3>2, <3>3 DEF ReaderRow
    <3>5. /\ reader'.kind = reader.kind /\ reader'.calm = reader.calm
          /\ reader'.seen = reader.seen /\ reader'.cursor = reader.cursor
          /\ reader'.pc = "page" /\ reader'.total = total /\ reader'.at = k /\ reader'.todo = T
      BY <1>1, <3>2 DEF ReaderRow
    <3>6. RequestFits'
      <4>1. \A row \in reader'.todo : row.run \in 1..Started'
        BY <1>5, <2>3, <3>5 DEF SameRows
      <4>2. QED
        BY <1>1, <1>7, <3>4, <3>5, <4>1 DEF RequestFits
    <3>7. QED
      BY <1>1, <1>4, <1>5, <1>7, <2>4, <3>5, <3>6 DEF PagesTyped, goes, T, total, k
  <2>5. CASE ~goes
    <3>1. reader' = Nobody
      BY <2>1, <2>5
    <3>2. RequestFits'
      <4>1. /\ reader' \in ReaderRow /\ reader'.kind = "none" /\ reader'.pc = "idle"
            /\ reader'.todo = {} /\ reader'.seen = <<>>
        BY <3>1, NobodyFits DEF Nobody
      <4>2. QED
        BY <4>1, EmptyIsTyped DEF RequestFits
    <3>3. QED
      BY <1>1, <1>4, <1>5, <1>7, <3>1, <3>2 DEF PagesTyped, total
  <2>6. QED
    BY <2>4, <2>5
<1>8. QED
  BY <1>1, <1>6, <1>7

LEMMA ReadOverviewEffect ==
    ASSUME PagesTyped, ReadOverview
    PROVE  /\ PagesTyped' /\ SameRows /\ reader.pc = "page" /\ reader.kind = "overview"
           /\ reader.todo = {} /\ reader'.pc = "count" /\ reader'.todo = {}
           /\ reader'.kind = reader.kind /\ reader'.calm = reader.calm
           /\ reader'.seen = Newest(Shelved, 0, Window)
<1> DEFINE page == Newest(Shelved, 0, Window)
<1>1. /\ reader.pc = "page" /\ reader.kind = "overview" /\ reader.todo = {}
      /\ reader \in ReaderRow /\ RequestFits
      /\ reader' = [reader EXCEPT !.seen = page, !.pc = "count"]
  BY DEF ReadOverview, Ready, PagesTyped, RequestFits
<1>2. page \in Seq(Nat) /\ page \in Sequences
  <2>1. Shelved \in SUBSET Nat /\ IsFiniteSet(Shelved) /\ Window \in Nat \ {0}
    BY RunsAreFinite, PagesNumbers
  <2>2. page \in Seq(Shelved)
    BY <2>1, PageIs
  <2>3. page \in Seq(Nat)
    <3> HIDE DEF page
    <3>1. QED
      BY <2>1, <2>2, SeqMonotonic
  <2>4. QED
    BY <2>3 DEF Sequences
<1> HIDE DEF page
<1>3. /\ reader' \in ReaderRow /\ reader'.pc = "count" /\ reader'.seen = page
      /\ reader'.todo = reader.todo /\ reader'.kind = reader.kind /\ reader'.calm = reader.calm
  BY <1>1, <1>2 DEF ReaderRow, Places
<1>4. SameRows /\ DocumentsTyped' /\ RunsFollow'
  BY OnlyAsks DEF ReadOverview
<1>5. RequestFits'
  BY <1>1, <1>2, <1>3 DEF RequestFits
<1>6. QED
  BY <1>1, <1>3, <1>4, <1>5 DEF PagesTyped, page

LEMMA ReadPageEffect ==
    ASSUME PagesTyped, ReadPage
    PROVE  LET page == Newest(Shelved, reader.at, PageSize)
               k == reader.at + Len(page) IN
           /\ PagesTyped' /\ SameRows /\ reader.pc = "page" /\ reader.kind = "index"
           /\ reader.todo = {} /\ reader'.todo = {}
           /\ reader'.kind = reader.kind /\ reader'.calm = reader.calm
           /\ reader'.seen = reader.seen \o page /\ k \in Nat
           /\ reader'.cursor = CursorAt(<<reader.total, Started>>, k, reader.total)
           /\ reader'.pc = IF reader'.cursor = NoCursor THEN "done" ELSE "open"
<1> DEFINE page == Newest(Shelved, reader.at, PageSize)
           k == reader.at + Len(page)
           c == CursorAt(<<reader.total, Started>>, k, reader.total)
           a == Answer(c)
           s == reader.seen \o page
<1>1. /\ reader.pc = "page" /\ reader.kind = "index" /\ reader.todo = {}
      /\ reader \in ReaderRow /\ RequestFits
      /\ reader' = [a EXCEPT !.seen = @ \o page]
  BY DEF ReadPage, Ready, PagesTyped, RequestFits, Revision
<1>2. reader.total \in Nat /\ reader.at \in Nat /\ Started \in Nat /\ reader.seen \in Seq(Nat)
  BY <1>1 DEF ReaderRow, PagesTyped, RunsFollow, RequestFits
<1>3. page \in Seq(Nat) /\ Len(page) \in Nat
  <2>1. Shelved \in SUBSET Nat /\ IsFiniteSet(Shelved) /\ PageSize \in Nat \ {0}
    BY RunsAreFinite, PagesNumbers
  <2>2. page \in Seq(Shelved) /\ Len(page) \in Nat
    BY <1>2, <2>1, PageIs
  <2>3. QED
    <3> HIDE DEF page
    <3>1. QED
      BY <2>1, <2>2, SeqMonotonic
<1> HIDE DEF page
<1>4. s \in Seq(Nat) /\ s \in Sequences
  BY <1>2, <1>3 DEF Sequences
<1>5. <<reader.total, Started>> \in Revisions /\ k \in Nat
  BY <1>2, <1>3 DEF Revisions
<1> HIDE DEF k
<1>6. c \in Cursors
  BY <1>2, <1>5, CursorAtIs
<1> HIDE DEF c
<1>7. /\ a \in ReaderRow /\ a.seen = reader.seen /\ a.cursor = c /\ a.todo = reader.todo
      /\ a.calm = reader.calm /\ a.kind = reader.kind
      /\ a.pc = IF c = NoCursor THEN "done" ELSE "open"
  BY <1>1, <1>6, AnswerIs
<1> HIDE DEF a
<1>8. reader' = [a EXCEPT !.seen = s]
  BY <1>1, <1>7
<1> HIDE DEF s
<1>9. /\ reader' \in ReaderRow /\ reader'.seen = s /\ reader'.kind = a.kind
      /\ reader'.cursor = a.cursor /\ reader'.todo = a.todo /\ reader'.calm = a.calm
      /\ reader'.pc = a.pc
  BY <1>4, <1>7, <1>8 DEF ReaderRow
<1>10. SameRows /\ DocumentsTyped' /\ RunsFollow'
  BY OnlyAsks DEF ReadPage
<1>11. RequestFits'
  BY <1>1, <1>4, <1>7, <1>9 DEF RequestFits
<1>12. QED
  BY <1>1, <1>5, <1>7, <1>9, <1>10, <1>11 DEF PagesTyped, page, k, c, s

\* What is shown of a report is the next of its lines.
LEMMA InspectEffect ==
    ASSUME PagesTyped, Inspect
    PROVE  /\ PagesTyped' /\ SameRows /\ reader.pc = "inspect" /\ reader.kind = "inspect"
           /\ reader' # Nobody =>
                \E r \in Ordinals, c \in Reports :
                   LET last == Entries[c]
                       next == reader.cursor.offset + PageSize
                       page == [i \in 1..(IF next > last THEN last - reader.cursor.offset ELSE PageSize) |->
                                    <<r, c, reader.cursor.offset + i>>]
                   IN  /\ \/ reader.cursor = NoCursor
                          \/ reader.cursor.revision = <<c, r>> /\ reader.cursor.offset < last
                       /\ reader'.kind = "inspect" /\ reader'.seen = reader.seen \o page
                       /\ reader'.cursor = CursorAt(<<c, r>>, next, last)
                       /\ reader'.pc = IF reader'.cursor = NoCursor THEN "done" ELSE "open"
<1>1. /\ reader.pc = "inspect" /\ reader.kind = "inspect" /\ reader.todo = {}
      /\ reader \in ReaderRow /\ RequestFits
  BY DEF Inspect, Ready, PagesTyped, RequestFits
<1>2. SameRows /\ DocumentsTyped' /\ RunsFollow'
  BY OnlyAsks DEF Inspect
<1>3. CASE reader' = Nobody
  <2>1. /\ reader' \in ReaderRow /\ reader'.kind = "none" /\ reader'.pc = "idle"
        /\ reader'.todo = {} /\ reader'.seen = <<>>
    BY <1>3, NobodyFits, SMTT(30) DEF Nobody
  <2>2. RequestFits'
    BY <2>1, EmptyIsTyped DEF RequestFits
  <2>3. QED
    BY <1>1, <1>2, <1>3, <2>2 DEF PagesTyped
<1>4. CASE reader' # Nobody
  <2>1. PICK r \in Among(Asked(Shelved), 0, 1) :
          LET cursor == reader.cursor
              last == LinesOf(r)
              next == cursor.offset + PageSize
              page == [i \in 1..(IF next > last THEN last - cursor.offset ELSE PageSize) |->
                           <<r, shelf[r], cursor.offset + i>>]
          IN  IF cursor = NoCursor \/ (SameDocument(cursor, r) /\ cursor.offset < last)
              THEN reader' = [Answer(CursorAt(<<shelf[r], r>>, next, last)) EXCEPT !.seen = @ \o page]
              ELSE Refuse
    BY <1>4 DEF Inspect, Refuse
  <2> DEFINE c == shelf[r]
             k == reader.cursor.offset
             last == Entries[c]
             next == k + PageSize
             m == IF next > last THEN last - k ELSE PageSize
             page == [i \in 1..m |-> <<r, c, k + i>>]
             u == CursorAt(<<c, r>>, next, last)
             a == Answer(u)
             s == reader.seen \o page
  <2>2. r \in Shelved /\ r \in Ordinals /\ c \in Reports /\ last \in Nat
    <3>1. r \in Shelved
      BY DEF Among, Asked
    <3>2. r \in Ordinals /\ shelf[r] # NoRow
      BY <3>1 DEF Shelved
    <3>3. shelf[r] \in Reports
      BY <3>2 DEF PagesTyped, DocumentsTyped
    <3>4. QED
      BY <3>1, <3>2, <3>3, PagesNumbers
  <2>3. /\ reader.cursor = NoCursor \/ (reader.cursor.revision = <<c, r>> /\ k < last)
        /\ reader' = [a EXCEPT !.seen = @ \o page]
    BY <1>4, <2>1 DEF LinesOf, SameDocument, Refuse
  <2>4. k \in Nat /\ reader.seen \in Seq(DocumentLines) /\ next \in Nat /\ reader.cursor \in Cursors
    <3>1. reader.cursor \in Cursors
      BY <1>1 DEF ReaderRow
    <3>2. k \in Nat
      BY <3>1 DEF Cursors
    <3>3. QED
      BY <1>1, <3>1, <3>2, PagesNumbers DEF RequestFits
  <2>5. m \in Nat
    <3>1. k <= last \/ reader.cursor = NoCursor
      BY <2>2, <2>3, <2>4
    <3>2. k <= last
      BY <3>1, <2>2, NoCursorIs
    <3>3. QED
      BY <3>2, <2>2, <2>4, PagesNumbers
  <2>6. page \in Seq(DocumentLines)
    <3> HIDE DEF m, c, k
    <3>1. \A i \in 1..m : k + i \in Nat
      BY <2>4, <2>5
    <3>2. \A i \in 1..m : <<r, c, k + i>> \in DocumentLines
      BY <3>1, <2>2 DEF DocumentLines
    <3>3. page \in [1..m -> DocumentLines]
      BY <3>2
    <3> HIDE DEF page
    <3>4. QED
      BY <3>3, <2>5
  <2> HIDE DEF page
  <2>7. s \in Seq(DocumentLines) /\ s \in Sequences
    BY <2>4, <2>6 DEF Sequences
  <2>8. <<c, r>> \in Revisions
    BY <2>2 DEF Revisions
  <2>9. u \in Cursors
    <3> HIDE DEF c, next, last
    <3>1. QED
      BY <2>2, <2>4, <2>8, CursorAtIs
  <2> HIDE DEF u
  <2>10. /\ a \in ReaderRow /\ a.seen = reader.seen /\ a.cursor = u /\ a.todo = reader.todo
         /\ a.kind = reader.kind /\ a.pc = IF u = NoCursor THEN "done" ELSE "open"
    BY <1>1, <2>9, AnswerIs
  <2> HIDE DEF a
  <2>11. reader' = [a EXCEPT !.seen = s]
    BY <2>3, <2>10
  <2> HIDE DEF s
  <2>12. /\ reader' \in ReaderRow /\ reader'.seen = s /\ reader'.kind = a.kind
         /\ reader'.cursor = a.cursor /\ reader'.todo = a.todo /\ reader'.pc = a.pc
    BY <2>7, <2>10, <2>11 DEF ReaderRow
  <2>13. RequestFits'
    BY <1>1, <2>7, <2>10, <2>12 DEF RequestFits
  <2>14. /\ reader'.kind = "inspect" /\ reader'.seen = s /\ reader'.cursor = u
         /\ reader'.pc = IF reader'.cursor = NoCursor THEN "done" ELSE "open"
    BY <1>1, <2>10, <2>12
  <2>15. QED
    BY <1>1, <1>2, <2>2, <2>3, <2>13, <2>14 DEF PagesTyped, s, u, page
<1>5. QED
  BY <1>3, <1>4

-----------------------------------------------------------------------------
(* A report read in pages.                                                   *)

UpTo(r, c, k) == [i \in 1..k |-> <<r, c, i>>]

\* A reader has the first lines of one report of one run, as many as its cursor
\* says, whatever has become of the row since.
LineByLine ==
    reader.kind = "inspect" =>
        IF reader.pc = "done"
        THEN \E r \in Ordinals, c \in Reports : reader.seen = UpTo(r, c, Entries[c])
        ELSE \/ reader.cursor = NoCursor /\ reader.seen = <<>>
             \/ \E r \in Ordinals, c \in Reports :
                   /\ reader.cursor.revision = <<c, r>> /\ reader.cursor.offset \in 1..(Entries[c] - 1)
                   /\ reader.seen = UpTo(r, c, reader.cursor.offset)

LEMMA LinesGoOn ==
    ASSUME NEW r \in Ordinals, NEW c \in Reports, NEW k \in Nat, NEW m \in Nat
    PROVE  UpTo(r, c, k) \o [i \in 1..m |-> <<r, c, k + i>>] = UpTo(r, c, k + m)
<1> DEFINE s == UpTo(r, c, k)
           t == [i \in 1..m |-> <<r, c, k + i>>]
           u == UpTo(r, c, k + m)
<1>1. \A n \in Nat : UpTo(r, c, n) \in [1..n -> DocumentLines]
  BY DEF UpTo, DocumentLines
<1>2. t \in [1..m -> DocumentLines]
  <2>1. \A i \in 1..m : k + i \in Nat
    OBVIOUS
  <2>2. \A i \in 1..m : <<r, c, k + i>> \in DocumentLines
    BY <2>1 DEF DocumentLines
  <2>3. QED
    BY <2>2
<1>3. /\ s \in [1..k -> DocumentLines] /\ u \in [1..(k + m) -> DocumentLines] /\ k + m \in Nat
      /\ \A i \in 1..k : s[i] = <<r, c, i>>
      /\ \A i \in 1..m : t[i] = <<r, c, k + i>>
      /\ \A i \in 1..(k + m) : u[i] = <<r, c, i>>
  BY <1>1 DEF UpTo
<1> HIDE DEF s, t, u
<1>4. /\ s \in Seq(DocumentLines) /\ Len(s) = k /\ t \in Seq(DocumentLines) /\ Len(t) = m
      /\ u \in Seq(DocumentLines) /\ Len(u) = k + m
  BY <1>2, <1>3
<1>5. /\ s \o t \in Seq(DocumentLines) /\ Len(s \o t) = k + m
      /\ \A i \in 1..(k + m) : (s \o t)[i] = IF i <= k THEN s[i] ELSE t[i - k]
  BY <1>4, ConcatProperties
<1>6. \A i \in 1..(k + m) : (s \o t)[i] = u[i]
  <2>1. \A i \in 1..(k + m) : i <= k => i \in 1..k
    OBVIOUS
  <2>2. \A i \in 1..(k + m) : ~(i <= k) => i - k \in 1..m /\ k + (i - k) = i
    OBVIOUS
  <2>3. QED
    BY <1>3, <1>5, <2>1, <2>2
<1>7. s \o t = u
  BY <1>4, <1>5, <1>6, SeqEqual
<1>8. QED
  BY <1>7 DEF s, t, u

LEMMA NoLines == ASSUME NEW r, NEW c PROVE UpTo(r, c, 0) = <<>>
BY DEF UpTo

\* The world changes nothing of what was read.
LEMMA LinesStay ==
    ASSUME LineByLine, reader' = Nobody \/ SameRequest
    PROVE  LineByLine'
<1>1. CASE reader' = Nobody
  BY <1>1 DEF LineByLine, Nobody
<1>2. CASE SameRequest
  BY <1>2 DEF LineByLine, SameRequest
<1>3. QED
  BY <1>1, <1>2

LEMMA WorldDisturbs ==
    ASSUME PagesTyped, StartRun \/ EndStep \/ Materialize \/ RetryStep \/ CollectRun
    PROVE  reader' = Nobody \/ SameRequest
<1>1. \E lost \in BOOLEAN : DisturbIf(lost)
  <2>1. CASE StartRun \/ EndStep \/ Materialize
    BY <2>1 DEF StartRun, EndStep, Materialize, Disturb
  <2>2. CASE RetryStep
    <3> DEFINE b == MovesUp(Started)
    <3>1. b \in BOOLEAN /\ DisturbIf(b)
      BY <2>2 DEF RetryStep, MovesUp
    <3> HIDE DEF b
    <3>2. QED
      BY <3>1
  <2>3. CASE CollectRun
    <3>1. PICK r \in Runs("ended") : DisturbIf(shelf[r] = NoRow \/ MovesUp(r))
      BY <2>3 DEF CollectRun
    <3> DEFINE b == shelf[r] = NoRow \/ MovesUp(r)
    <3>2. b \in BOOLEAN /\ DisturbIf(b)
      BY <3>1 DEF MovesUp
    <3> HIDE DEF b
    <3>3. QED
      BY <3>2
  <2>4. QED
    BY <2>1, <2>2, <2>3
<1>2. reader \in ReaderRow
  BY DEF PagesTyped, RequestFits
<1>3. QED
  BY <1>1, <1>2, RequestDisturbed

LEMMA LinesInspected ==
    ASSUME PagesTyped, LineByLine, Inspect
    PROVE  LineByLine'
<1>1. CASE reader' = Nobody
  BY <1>1 DEF LineByLine, Nobody
<1>2. CASE reader' # Nobody
  <2> DEFINE k == reader.cursor.offset
             next == k + PageSize
             m(c) == IF next > Entries[c] THEN Entries[c] - k ELSE PageSize
  <2>1. reader.pc = "inspect" /\ reader.kind = "inspect" /\ reader \in ReaderRow
    BY InspectEffect DEF PagesTyped, RequestFits
  <2>2. PICK r \in Ordinals, c \in Reports :
          /\ \/ reader.cursor = NoCursor
             \/ reader.cursor.revision = <<c, r>> /\ k < Entries[c]
          /\ reader'.kind = "inspect"
          /\ reader'.seen = reader.seen \o [i \in 1..m(c) |-> <<r, c, k + i>>]
          /\ reader'.cursor = CursorAt(<<c, r>>, next, Entries[c])
          /\ reader'.pc = IF reader'.cursor = NoCursor THEN "done" ELSE "open"
    BY <1>2, InspectEffect
  <2> DEFINE last == Entries[c]
  <2>3. k \in Nat /\ last \in Nat /\ PageSize \in Nat /\ PageSize >= 1 /\ next \in Nat
    <3>1. reader.cursor \in Cursors
      BY <2>1 DEF ReaderRow
    <3>2. k \in Nat
      BY <3>1 DEF Cursors
    <3>3. QED
      BY <3>2, PagesNumbers
  <2>4. reader.seen = UpTo(r, c, k) /\ k <= last
    <3>1. CASE reader.cursor = NoCursor
      <4>1. k = 0 /\ reader.seen = <<>>
        <5>1. k = 0
          BY <3>1, NoCursorIs
        <5>2. \A q \in Ordinals, d \in Reports : k \notin 1..(Entries[d] - 1)
          BY <5>1
        <5>3. QED
          BY <5>1, <5>2, <2>1 DEF LineByLine
      <4>2. QED
        BY <4>1, <2>3, NoLines
    <3>2. CASE reader.cursor # NoCursor
      <4>1. reader.cursor.revision = <<c, r>> /\ k < last
        BY <3>2, <2>2
      <4>2. PICK q \in Ordinals, d \in Reports :
              reader.cursor.revision = <<d, q>> /\ reader.seen = UpTo(q, d, k)
        BY <3>2, <2>1 DEF LineByLine
      <4>3. d = c /\ q = r
        BY <4>1, <4>2
      <4>4. QED
        BY <4>1, <4>2, <4>3, <2>3
    <3>3. QED
      BY <3>1, <3>2
  <2> DEFINE n == m(c)
  <2>5. n \in Nat /\ (next > last => k + n = last) /\ (~(next > last) => k + n = next)
    BY <2>3, <2>4
  <2>6. reader'.seen = UpTo(r, c, k + n)
    <3>1. reader'.seen = UpTo(r, c, k) \o [i \in 1..n |-> <<r, c, k + i>>]
      BY <2>2, <2>4
    <3> HIDE DEF n, k
    <3>2. QED
      BY <3>1, <2>3, <2>5, LinesGoOn
  <2>7. <<c, r>> \in Revisions
    BY DEF Revisions
  <2> HIDE DEF n, m, next, last
  <2>8. /\ next \in 1..(last - 1) => /\ reader'.cursor = [revision |-> <<c, r>>, offset |-> next]
                                     /\ reader'.cursor # NoCursor
        /\ next \notin 1..(last - 1) => reader'.cursor = NoCursor
    <3>1. reader'.cursor = CursorAt(<<c, r>>, next, last)
      BY <2>2 DEF last
    <3>2. QED
      BY <3>1, <2>3, <2>7, CursorAtIs
  <2>9. CASE next \in 1..(last - 1)
    <3>1. k + n = next /\ reader'.pc = "open"
      BY <2>2, <2>3, <2>5, <2>8, <2>9
    <3>2. reader'.cursor.revision = <<c, r>> /\ reader'.cursor.offset = next
      BY <2>8, <2>9
    <3>3. reader'.cursor.offset \in 1..(Entries[c] - 1) /\ reader'.seen = UpTo(r, c, reader'.cursor.offset)
      BY <2>6, <2>9, <3>1, <3>2 DEF last
    <3>4. QED
      BY <2>2, <3>1, <3>2, <3>3 DEF LineByLine
  <2>10. CASE next \notin 1..(last - 1)
    <3>1. next >= 1 /\ next >= last
      BY <2>3, <2>10 DEF next
    <3>2. k + n = last
      BY <3>1, <2>3, <2>5
    <3>3. reader'.pc = "done" /\ reader'.seen = UpTo(r, c, Entries[c])
      BY <2>2, <2>6, <2>8, <2>10, <3>2 DEF last
    <3>4. QED
      BY <2>2, <3>3 DEF LineByLine
  <2>11. QED
    BY <2>9, <2>10
<1>3. QED
  BY <1>1, <1>2

LEMMA LinesStep ==
    ASSUME PagesTyped, LineByLine, DeliverablesNext
    PROVE  LineByLine'
<1>1. CASE StartRun \/ EndStep \/ Materialize \/ RetryStep \/ CollectRun
  BY <1>1, WorldDisturbs, LinesStay
<1>2. CASE Open
  BY <1>2, OpenEffect DEF LineByLine
<1>3. CASE Follow
  <2>1. /\ reader.pc = "open" /\ reader'.pc = "ensure" /\ reader'.kind = reader.kind
        /\ reader'.cursor = reader.cursor /\ reader'.seen = reader.seen
    BY <1>3, FollowEffect
  <2>2. QED
    BY <2>1 DEF LineByLine
<1>4. CASE Ensure
  <2>1. /\ reader.pc = "ensure" /\ reader'.kind = reader.kind
        /\ reader'.cursor = reader.cursor /\ reader'.seen = reader.seen
        /\ reader.kind = "inspect" => reader'.pc = "inspect"
    BY <1>4, EnsureEffect
  <2>2. QED
    BY <2>1 DEF LineByLine
<1>5. CASE CopyRow
  <2>1. /\ reader'.pc = reader.pc /\ reader'.kind = reader.kind
        /\ reader'.cursor = reader.cursor /\ reader'.seen = reader.seen
    BY <1>5, CopyRowEffect
  <2>2. QED
    BY <2>1 DEF LineByLine
<1>6. CASE CountRows \/ CountMissing \/ ReadOverview \/ ReadPage
  <2>1. reader'.kind # "inspect"
    <3>1. reader.kind \in {"overview", "index"}
      BY <1>6 DEF PagesTyped, RequestFits, CountRows, CountMissing, ReadOverview, ReadPage, Ready
    <3>2. Nobody.kind # "inspect"
      BY DEF Nobody
    <3>3. CASE CountRows
      BY <3>1, <3>3, CountRowsEffect
    <3>4. CASE CountMissing
      BY <3>1, <3>2, <3>4, CountMissingEffect
    <3>5. CASE ReadOverview
      BY <3>1, <3>5, ReadOverviewEffect
    <3>6. CASE ReadPage
      BY <3>1, <3>6, ReadPageEffect
    <3>7. QED
      BY <1>6, <3>3, <3>4, <3>5, <3>6
  <2>2. QED
    BY <2>1 DEF LineByLine
<1>7. CASE Inspect
  BY <1>7, LinesInspected
<1>8. QED
  BY <1>1, <1>2, <1>3, <1>4, <1>5, <1>6, <1>7 DEF DeliverablesNext

-----------------------------------------------------------------------------
(* The index read in pages. n runs have started, the steps of E are ended,   *)
(* those of S have a row.                                                    *)

\* What nobody copied comes after the first m of the ended steps.
Ahead(E, S, m) == \A r \in E \ S : Place(E, r) >= m

\* V is what was offered when the last page was read: only the newest run can
\* have joined or left since. s is its beginning, of k, and what nobody copied
\* comes after that.
Kept(n, E, S, V, s, k) ==
    /\ V \in SUBSET (1..n) /\ V \ {n} = (E \cup S) \ {n} /\ Good(V, s, k)
    /\ \A r \in V \ S : Place(V \cap E, r) >= k

LEMMA PartHasLess ==
    ASSUME NEW S \in SUBSET Nat, IsFiniteSet(S), NEW T \in SUBSET S, NEW r \in Nat
    PROVE  Place(T, r) <= Place(S, r)
<1>1. {q \in T : q > r} \in SUBSET {q \in S : q > r} /\ {q \in S : q > r} \in SUBSET S
  OBVIOUS
<1>2. IsFiniteSet({q \in S : q > r})
  BY <1>1, FS_Subset
<1>3. QED
  BY <1>1, <1>2, FS_Subset DEF Place

LEMMA KeptIsFinite ==
    ASSUME NEW n \in Nat, NEW V \in SUBSET (1..n)
    PROVE  V \in SUBSET Nat /\ IsFiniteSet(V) /\ \A r \in V : r \in Nat /\ r <= n
<1>1. IsFiniteSet(1..n)
  BY CountTo
<1>2. IsFiniteSet(V)
  BY <1>1, FS_Subset
<1>3. QED
  BY <1>2

\* The newest run ends.
LEMMA KeptEnds ==
    ASSUME NEW n \in Nat, NEW E \in SUBSET (1..n), NEW S \in SUBSET (1..n),
           NEW V, NEW s, NEW k \in Nat, Kept(n, E, S, V, s, k)
    PROVE  Kept(n, E \cup {n}, S, V, s, k)
<1> DEFINE F == E \cup {n}
<1>1. /\ V \in SUBSET (1..n) /\ V \ {n} = (E \cup S) \ {n} /\ Good(V, s, k)
      /\ \A r \in V \ S : Place(V \cap E, r) >= k
  BY DEF Kept
<1>2. V \in SUBSET Nat /\ IsFiniteSet(V) /\ \A r \in V : r \in Nat
  BY <1>1, KeptIsFinite
<1>3. V \cap E \in SUBSET Nat /\ V \cap E \in SUBSET (V \cap F) /\ V \cap F \in SUBSET V
      /\ V \cap F \in SUBSET Nat
  BY <1>2
<1>4. IsFiniteSet(V \cap F) /\ IsFiniteSet(V \cap E)
  <2> HIDE DEF F
  <2>1. QED
    BY <1>2, <1>3, FS_Subset
<1>5. ASSUME NEW r \in V \ S PROVE Place(V \cap F, r) >= k
  <2> HIDE DEF F
  <2>1. r \in Nat /\ Place(V \cap E, r) >= k
    BY <1>1, <1>2
  <2>2. Place(V \cap E, r) <= Place(V \cap F, r)
    BY <2>1, <1>3, <1>4, PartHasLess
  <2>3. Place(V \cap E, r) \in Nat /\ Place(V \cap F, r) \in Nat
    BY <2>1, <1>3, <1>4, PlacesGrow
  <2>4. QED
    BY <2>1, <2>2, <2>3
<1>6. V \ {n} = (F \cup S) \ {n}
  BY <1>1
<1>7. QED
  <2> HIDE DEF F
  <2>1. Kept(n, F, S, V, s, k)
    BY <1>1, <1>5, <1>6 DEF Kept
  <2>2. QED
    BY <2>1 DEF F

\* An ended step is copied.
LEMMA KeptCopied ==
    ASSUME NEW n, NEW E, NEW S, NEW V, NEW s, NEW k, Kept(n, E, S, V, s, k), NEW r \in E
    PROVE  Kept(n, E, S \cup {r}, V, s, k)
<1>1. (E \cup (S \cup {r})) = E \cup S
  OBVIOUS
<1>2. QED
  BY <1>1 DEF Kept

\* The newest run is retried, and no older one was left to copy.
LEMMA KeptRetried ==
    ASSUME NEW n \in Nat, NEW E \in SUBSET (1..n), NEW S \in SUBSET (1..n),
           NEW V, NEW s, NEW k \in Nat \ {0}, Kept(n, E, S, V, s, k),
           ~ \E q \in E \ S : q < n
    PROVE  Kept(n, E \ {n}, S, V, s, k)
<1>1. /\ V \in SUBSET (1..n) /\ V \ {n} = (E \cup S) \ {n} /\ Good(V, s, k)
      /\ \A r \in V \ S : Place(V \cap E, r) >= k
  BY DEF Kept
<1>2. \A r \in V \ S : r = n
  <2>1. \A r \in V \ S : r # n => r \in E \ S /\ r \in Nat /\ r <= n
    BY <1>1
  <2>2. \A r \in V \ S : r # n => r < n
    BY <2>1
  <2>3. QED
    BY <2>1, <2>2
<1>3. Place(V \cap E, n) = 0
  <2>1. \A q \in V \cap E : ~(q > n)
    <3>1. SUFFICES ASSUME NEW q \in V \cap E PROVE ~(q > n)
      OBVIOUS
    <3>2. q \in 1..n
      OBVIOUS
    <3>3. q \in Nat /\ q <= n /\ n \in Nat
      BY <3>2
    <3>4. QED
      BY <3>3
  <2>2. {q \in V \cap E : q > n} = {}
    BY <2>1
  <2>3. QED
    BY <2>2, FS_EmptySet DEF Place
<1>4. \A r \in V \ S : FALSE
  BY <1>1, <1>2, <1>3
<1>5. V \ {n} = ((E \ {n}) \cup S) \ {n}
  BY <1>1
<1>6. QED
  BY <1>1, <1>4, <1>5 DEF Kept

\* A run with a row is collected, and no older one was left to copy.
LEMMA KeptCollected ==
    ASSUME NEW n \in Nat, NEW E \in SUBSET (1..n), NEW S \in SUBSET (1..n),
           NEW V, NEW s, NEW k \in Nat, Kept(n, E, S, V, s, k),
           NEW r \in E, r \in S, ~ \E q \in E \ S : q < r
    PROVE  Kept(n, E \ {r}, S, V, s, k)
<1>1. /\ V \in SUBSET (1..n) /\ V \ {n} = (E \cup S) \ {n} /\ Good(V, s, k)
      /\ \A x \in V \ S : Place(V \cap E, x) >= k
  BY DEF Kept
<1>2. ASSUME NEW x \in V \ S PROVE Place(V \cap (E \ {r}), x) = Place(V \cap E, x)
  <2>1. x \in Nat /\ x <= n /\ x # r /\ r \in Nat /\ r <= n
    BY <1>1
  <2>2. x # n => x \in E \ S
    BY <1>1
  <2>3. ~(r > x)
    BY <2>1, <2>2
  <2>4. {q \in V \cap (E \ {r}) : q > x} = {q \in V \cap E : q > x}
    BY <2>3
  <2>5. QED
    BY <2>4 DEF Place
<1>3. (E \ {r}) \cup S = E \cup S
  OBVIOUS
<1>4. QED
  BY <1>1, <1>2, <1>3 DEF Kept

\* When there are as many as then, they are the same, and the order of steps
\* and that of rows agree as far as s goes.
LEMMA KeptIsAll ==
    ASSUME NEW n \in Nat, NEW E \in SUBSET (1..n), NEW S \in SUBSET (1..n),
           NEW V, NEW s, NEW k, Kept(n, E, S, V, s, k), Cardinality(V) = Cardinality(E \cup S)
    PROVE  Good(E \cup S, s, k) /\ Ahead(E, S, k)
<1> DEFINE U == E \cup S
<1>1. /\ V \in SUBSET (1..n) /\ V \ {n} = U \ {n} /\ Good(V, s, k)
      /\ \A r \in V \ S : Place(V \cap E, r) >= k
  BY DEF Kept
<1>2. U \in SUBSET (1..n) /\ Cardinality(V) = Cardinality(U)
  OBVIOUS
<1> HIDE DEF U
<1>3. IsFiniteSet(V) /\ IsFiniteSet(U)
  BY <1>1, <1>2, KeptIsFinite
<1>4. U = V
  <2>1. CASE n \in U /\ n \notin V
    <3>1. V \in SUBSET U /\ V # U
      BY <1>1, <2>1
    <3>2. QED
      BY <3>1, <1>2, <1>3, FS_Subset
  <2>2. CASE n \in V /\ n \notin U
    <3>1. U \in SUBSET V /\ V # U
      BY <1>1, <2>2
    <3>2. QED
      BY <3>1, <1>2, <1>3, FS_Subset
  <2>3. CASE n \in V <=> n \in U
    BY <1>1, <2>3
  <2>4. QED
    BY <2>1, <2>2, <2>3
<1>5. V \cap E = E /\ E \subseteq V
  BY <1>4 DEF U
<1>6. QED
  BY <1>1, <1>4, <1>5 DEF U, Ahead

\* What is offered is kept, if the rest comes after the beginning that was read.
LEMMA AllIsKept ==
    ASSUME NEW n \in Nat, NEW E \in SUBSET (1..n), NEW S \in SUBSET (1..n),
           NEW s, NEW k, Good(E \cup S, s, k), Ahead(E, S, k)
    PROVE  Kept(n, E, S, E \cup S, s, k)
<1>1. (E \cup S) \cap E = E /\ (E \cup S) \ S = E \ S /\ (E \cup S) \in SUBSET (1..n)
  OBVIOUS
<1>2. QED
  BY <1>1 DEF Kept, Ahead

\* After a page of at most P nothing that is ahead of P is shown.
LEMMA AheadOfLess ==
    ASSUME NEW n \in Nat, NEW E \in SUBSET (1..n), NEW S, NEW m \in Nat, NEW k \in Nat,
           Ahead(E, S, m), k <= m
    PROVE  Ahead(E, S, k)
<1>1. E \in SUBSET Nat /\ IsFiniteSet(E)
  BY KeptIsFinite
<1>2. \A r \in E : r \in Nat /\ Place(E, r) \in Nat
  BY <1>1, PlacesGrow
<1>3. QED
  BY <1>2 DEF Ahead

\* The same of what nobody is about to copy.
Pending(m) == \A r \in Unshelved : \/ Place(Runs("ended"), r) >= m
                                   \/ \E row \in reader.todo : row.run = r

\* The cursor tells by its revision how many were offered then, and who was the
\* newest.
Follows ==
    \/ reader.cursor = NoCursor /\ reader.seen = <<>>
    \/ /\ reader.cursor.revision \in Nat \X Nat /\ reader.cursor.offset >= 1
       /\ reader.cursor.revision[2] <= Started
       /\ reader.cursor.revision[2] = Started =>
            \E V : /\ Cardinality(V) = reader.cursor.revision[1]
                   /\ Kept(Started, Runs("ended"), Shelved, V, reader.seen, reader.cursor.offset)

\* When the overview's one page was all, there are no more.
WasAll(k) == k \notin 1..(Cardinality(Offered) - 1) => Shelved = Offered /\ k = Cardinality(Shelved)

OverviewInv ==
    reader.kind = "overview" =>
        /\ reader.pc = "page" => Pending(Window)
        /\ reader.pc \in {"count", "missing"} =>
              /\ Good(Offered, reader.seen, Len(reader.seen))
              /\ Ahead(Runs("ended"), Shelved, Len(reader.seen))
              /\ WasAll(Len(reader.seen))

PagesInv ==
    reader.kind = "index" =>
        /\ reader.pc \in {"open", "ensure", "count", "missing"} => Follows
        /\ reader.pc = "page" => /\ Good(Offered, reader.seen, reader.at)
                                 /\ Pending(reader.at + PageSize)
                                 /\ reader.total = Cardinality(Offered)
        /\ reader.pc = "done" => Good(Shelved, reader.seen, Cardinality(Shelved))

\* Of a request that nothing disturbed.
IndexInv ==
    reader.calm /\ reader.kind \in {"overview", "index"} =>
        /\ \A row \in reader.todo : row.run \in Runs("ended")
        /\ reader.pc = "missing" => reader.total = Cardinality(Shelved)
        /\ OverviewInv /\ PagesInv

LEMMA NobodyReads ==
    ASSUME reader' = Nobody
    PROVE  IndexInv'
<1>1. reader'.kind = "none"
  BY DEF Nobody
<1>2. QED
  BY <1>1 DEF IndexInv

\* What happens between two requests leaves the one that goes on as it was.
LEMMA BetweenRequests ==
    ASSUME PagesTyped, IndexInv, NEW lost \in BOOLEAN, DisturbIf(lost),
           ~lost /\ Follows /\ SameRequest => Follows'
    PROVE  IndexInv'
<1>1. reader \in ReaderRow /\ RequestFits
  BY DEF PagesTyped, RequestFits
<1>2. \/ reader' = Nobody
      \/ SameRequest /\ (reader'.calm => reader.calm /\ reader.pc = "open" /\ ~lost)
  BY <1>1, RequestDisturbed
<1>3. CASE SameRequest /\ (reader'.calm => reader.calm /\ reader.pc = "open" /\ ~lost)
  <2>1. SUFFICES ASSUME reader'.calm, reader'.kind \in {"overview", "index"}
                 PROVE  /\ \A row \in reader'.todo : row.run \in Runs("ended")'
                        /\ reader'.pc = "missing" => reader'.total = Cardinality(Shelved)'
                        /\ OverviewInv' /\ PagesInv'
    BY DEF IndexInv
  <2>2. reader.calm /\ reader.pc = "open" /\ ~lost /\ reader.todo = {} /\ reader.kind = "index"
    BY <1>1, <1>3, <2>1 DEF RequestFits, SameRequest
  <2>3. Follows
    BY <2>2 DEF IndexInv, PagesInv
  <2>4. Follows'
    BY <1>3, <2>2, <2>3
  <2>5. reader'.pc = "open" /\ reader'.kind = "index" /\ reader'.todo = {}
    BY <1>3, <2>2 DEF SameRequest
  <2>6. OverviewInv' /\ PagesInv'
    BY <2>4, <2>5 DEF OverviewInv, PagesInv
  <2>7. QED
    BY <2>5, <2>6
<1>4. QED
  BY <1>2, <1>3, NobodyReads

LEMMA FollowsOn ==
    ASSUME PagesTyped, Follows, SameRequest, Started' = Started,
           \A V, s, k : k \in Nat \ {0} /\ Kept(Started, Runs("ended"), Shelved, V, s, k)
                           => Kept(Started, Runs("ended")', Shelved', V, s, k)
    PROVE  Follows'
<1>1. reader'.cursor = reader.cursor /\ reader'.seen = reader.seen
  BY DEF SameRequest
<1>2. CASE reader.cursor = NoCursor /\ reader.seen = <<>>
  BY <1>1, <1>2 DEF Follows
<1>3. CASE ~(reader.cursor = NoCursor /\ reader.seen = <<>>)
  <2>1. /\ reader.cursor.revision \in Nat \X Nat /\ reader.cursor.offset >= 1
        /\ reader.cursor.revision[2] <= Started
        /\ reader.cursor.revision[2] = Started =>
             \E V : /\ Cardinality(V) = reader.cursor.revision[1]
                    /\ Kept(Started, Runs("ended"), Shelved, V, reader.seen, reader.cursor.offset)
    BY <1>3 DEF Follows
  <2>2. reader.cursor.offset \in Nat \ {0}
    <3>1. reader.cursor \in Cursors
      BY DEF PagesTyped, RequestFits, ReaderRow
    <3>2. reader.cursor.offset \in Nat
      BY <3>1 DEF Cursors
    <3>3. QED
      BY <2>1, <3>2
  <2>3. ASSUME reader.cursor.revision[2] = Started
        PROVE  \E V : /\ Cardinality(V) = reader.cursor.revision[1]
                      /\ Kept(Started, Runs("ended")', Shelved', V, reader.seen, reader.cursor.offset)
    <3>1. PICK V : /\ Cardinality(V) = reader.cursor.revision[1]
                   /\ Kept(Started, Runs("ended"), Shelved, V, reader.seen, reader.cursor.offset)
      BY <2>1, <2>3
    <3>2. Kept(Started, Runs("ended")', Shelved', V, reader.seen, reader.cursor.offset)
      BY <2>2, <3>1
    <3>3. QED
      BY <3>1, <3>2
  <2>4. QED
    BY <1>1, <2>1, <2>3 DEF Follows
<1>4. QED
  BY <1>2, <1>3

LEMMA IndexStartRun ==
    ASSUME PagesTyped, IndexInv, StartRun
    PROVE  IndexInv'
<1>1. Started' = Started + 1 /\ Started \in Nat
  BY StartRunEffect DEF PagesTyped, RunsFollow
<1>2. ASSUME Follows, SameRequest PROVE Follows'
  <2>1. reader'.cursor = reader.cursor /\ reader'.seen = reader.seen
    BY <1>2 DEF SameRequest
  <2>2. CASE reader.cursor = NoCursor /\ reader.seen = <<>>
    BY <2>1, <2>2 DEF Follows
  <2>3. CASE ~(reader.cursor = NoCursor /\ reader.seen = <<>>)
    <3>1. /\ reader.cursor.revision \in Nat \X Nat /\ reader.cursor.offset >= 1
          /\ reader.cursor.revision[2] <= Started
      BY <1>2, <2>3 DEF Follows
    <3>2. reader.cursor.revision[2] \in Nat
      BY <3>1
    <3>3. reader.cursor.revision[2] <= Started' /\ reader.cursor.revision[2] # Started'
      BY <1>1, <3>1, <3>2
    <3>4. QED
      BY <2>1, <3>1, <3>3 DEF Follows
  <2>4. QED
    BY <2>2, <2>3
<1>3. DisturbIf(FALSE)
  BY DEF StartRun, Disturb
<1>4. FALSE \in BOOLEAN
  OBVIOUS
<1>5. QED
  BY <1>2, <1>3, <1>4, BetweenRequests

LEMMA IndexEndStep ==
    ASSUME PagesTyped, IndexInv, EndStep
    PROVE  IndexInv'
<1>1. /\ Started' = Started /\ DisturbIf(FALSE)
      /\ Runs("ended")' = Runs("ended") \cup {Started} /\ Shelved' = Shelved
  BY EndStepEffect
<1>2. Started \in Nat /\ Runs("ended") \in SUBSET (1..Started) /\ Shelved \in SUBSET (1..Started)
  BY RunsAreFinite DEF PagesTyped, RunsFollow
<1>3. \A V, s, k : k \in Nat \ {0} /\ Kept(Started, Runs("ended"), Shelved, V, s, k)
                      => Kept(Started, Runs("ended")', Shelved', V, s, k)
  <2>1. ASSUME NEW V, NEW s, NEW k \in Nat \ {0}, Kept(Started, Runs("ended"), Shelved, V, s, k)
        PROVE  Kept(Started, Runs("ended") \cup {Started}, Shelved, V, s, k)
    BY <1>2, <2>1, KeptEnds
  <2>2. QED
    BY <1>1, <2>1
<1>4. SameRequest /\ Follows => Follows'
  BY <1>1, <1>3, FollowsOn
<1>5. FALSE \in BOOLEAN
  OBVIOUS
<1>6. QED
  BY <1>1, <1>4, <1>5, BetweenRequests

LEMMA IndexMaterialize ==
    ASSUME PagesTyped, IndexInv, Materialize
    PROVE  IndexInv'
<1>1. /\ Started' = Started /\ DisturbIf(FALSE) /\ Started \in Runs("ended")
      /\ Runs("ended")' = Runs("ended") /\ Shelved' = Shelved \cup {Started}
  BY MaterializeEffect
<1>2. \A V, s, k : k \in Nat \ {0} /\ Kept(Started, Runs("ended"), Shelved, V, s, k)
                      => Kept(Started, Runs("ended")', Shelved', V, s, k)
  <2>1. ASSUME NEW V, NEW s, NEW k \in Nat \ {0}, Kept(Started, Runs("ended"), Shelved, V, s, k)
        PROVE  Kept(Started, Runs("ended"), Shelved \cup {Started}, V, s, k)
    BY <1>1, <2>1, KeptCopied
  <2>2. QED
    BY <1>1, <2>1
<1>3. SameRequest /\ Follows => Follows'
  BY <1>1, <1>2, FollowsOn
<1>4. FALSE \in BOOLEAN
  OBVIOUS
<1>5. QED
  BY <1>1, <1>3, <1>4, BetweenRequests

LEMMA IndexRetryStep ==
    ASSUME PagesTyped, IndexInv, RetryStep
    PROVE  IndexInv'
<1> DEFINE lost == MovesUp(Started)
<1>1. /\ Started' = Started /\ DisturbIf(lost)
      /\ Runs("ended")' = Runs("ended") \ {Started} /\ Shelved' = Shelved
  BY RetryStepEffect
<1>2. Started \in Nat /\ Runs("ended") \in SUBSET (1..Started) /\ Shelved \in SUBSET (1..Started)
  BY RunsAreFinite DEF PagesTyped, RunsFollow
<1>3. lost \in BOOLEAN /\ (~lost => ~ \E q \in Runs("ended") \ Shelved : q < Started)
  BY DEF MovesUp, Unshelved
<1> HIDE DEF lost
<1>4. ASSUME ~lost
      PROVE  \A V, s, k : k \in Nat \ {0} /\ Kept(Started, Runs("ended"), Shelved, V, s, k)
                      => Kept(Started, Runs("ended")', Shelved', V, s, k)
  <2>1. ASSUME NEW V, NEW s, NEW k \in Nat \ {0}, Kept(Started, Runs("ended"), Shelved, V, s, k)
        PROVE  Kept(Started, Runs("ended") \ {Started}, Shelved, V, s, k)
    BY <1>2, <1>3, <1>4, <2>1, KeptRetried
  <2>2. QED
    BY <1>1, <2>1
<1>5. ~lost /\ Follows /\ SameRequest => Follows'
  BY <1>1, <1>4, FollowsOn
<1>6. QED
  BY <1>1, <1>3, <1>5, BetweenRequests

LEMMA IndexCollectRun ==
    ASSUME PagesTyped, IndexInv, CollectRun
    PROVE  IndexInv'
<1>1. PICK r \in Runs("ended") :
         /\ Started' = Started /\ DisturbIf(shelf[r] = NoRow \/ MovesUp(r))
         /\ Runs("ended")' = Runs("ended") \ {r} /\ Shelved' = Shelved
  BY CollectRunEffect
<1> DEFINE lost == shelf[r] = NoRow \/ MovesUp(r)
<1>2. Started \in Nat /\ Runs("ended") \in SUBSET (1..Started) /\ Shelved \in SUBSET (1..Started)
  BY RunsAreFinite DEF PagesTyped, RunsFollow
<1>3. lost \in BOOLEAN /\ DisturbIf(lost)
      /\ (~lost => r \in Shelved /\ ~ \E q \in Runs("ended") \ Shelved : q < r)
  <2>1. r \in Ordinals
    BY DEF Runs
  <2>2. QED
    BY <1>1, <2>1 DEF MovesUp, Unshelved, Shelved
<1> HIDE DEF lost
<1>4. ASSUME ~lost
      PROVE  \A V, s, k : k \in Nat \ {0} /\ Kept(Started, Runs("ended"), Shelved, V, s, k)
                      => Kept(Started, Runs("ended")', Shelved', V, s, k)
  <2>1. ASSUME NEW V, NEW s, NEW k \in Nat \ {0}, Kept(Started, Runs("ended"), Shelved, V, s, k)
        PROVE  Kept(Started, Runs("ended") \ {r}, Shelved, V, s, k)
    BY <1>2, <1>3, <1>4, <2>1, KeptCollected
  <2>2. QED
    BY <1>1, <2>1
<1>5. ~lost /\ Follows /\ SameRequest => Follows'
  BY <1>1, <1>4, FollowsOn
<1>6. QED
  BY <1>3, <1>5, BetweenRequests

LEMMA SameOffered ==
    ASSUME SameRows
    PROVE  /\ Started' = Started /\ Runs("ended")' = Runs("ended") /\ Shelved' = Shelved
           /\ Unshelved' = Unshelved /\ Offered' = Offered
<1>1. Started' = Started /\ Runs("ended")' = Runs("ended") /\ Shelved' = Shelved
  BY DEF SameRows
<1>2. QED
  BY <1>1 DEF Unshelved, Offered

LEMMA FollowsSame ==
    ASSUME Follows, SameRows, reader'.cursor = reader.cursor, reader'.seen = reader.seen
    PROVE  Follows'
<1>1. Started' = Started /\ Runs("ended")' = Runs("ended") /\ Shelved' = Shelved
  BY SameOffered
<1>2. QED
  BY <1>1 DEF Follows

\* Whoever copies the steps of the next page leaves nobody of it out.
LEMMA CopiedNext ==
    ASSUME PagesTyped, SameRows, NEW k \in Nat, NEW P \in Nat, Ahead(Runs("ended"), Shelved, k),
           reader'.todo = ToCopy(Among(Runs("ended"), k, P))
    PROVE  Pending(k + P)' /\ \A row \in reader'.todo : row.run \in Runs("ended")'
<1> DEFINE E == Runs("ended")
           T == Among(E, k, P)
<1>1. E \in SUBSET Nat /\ IsFiniteSet(E) /\ Unshelved = E \ Shelved
  <2>1. Runs("ended") \in SUBSET Offered /\ Offered \in SUBSET Nat /\ IsFiniteSet(Runs("ended"))
    BY RunsAreFinite
  <2>2. QED
    BY <2>1 DEF Unshelved
<1>2. T \in SUBSET E
  BY AmongIsPart
<1>3. /\ \A row \in ToCopy(T) : row.run \in E
      /\ \A r \in T \ Shelved : \E row \in ToCopy(T) : row.run = r
  <2> HIDE DEF T
  <2>1. QED
    BY <1>2, ToCopyIs
<1>4. \A r \in E : Place(E, r) \in k..(k + P - 1) => r \in T
  BY DEF Among, Place
<1>5. ASSUME NEW r \in E \ Shelved, ~(Place(E, r) >= k + P)
      PROVE  \E row \in ToCopy(T) : row.run = r
  <2> HIDE DEF T, E
  <2>1. r \in Nat /\ Place(E, r) \in Nat
    BY <1>1, PlacesGrow
  <2>2. Place(E, r) >= k
    BY DEF Ahead, E
  <2>3. Place(E, r) \in k..(k + P - 1)
    BY <1>5, <2>1, <2>2
  <2>4. QED
    BY <1>3, <1>4, <2>3
<1>6. /\ Unshelved' = Unshelved /\ Runs("ended")' = E /\ reader'.todo = ToCopy(T)
  BY SameOffered
<1>7. \A r \in Unshelved : Place(E, r) >= k + P \/ \E row \in ToCopy(T) : row.run = r
  <2> HIDE DEF T, E
  <2>1. QED
    BY <1>1, <1>5
<1>8. Pending(k + P)'
  <2> HIDE DEF T, E
  <2>1. QED
    BY <1>6, <1>7 DEF Pending
<1>9. QED
  BY <1>3, <1>6, <1>8

LEMMA NothingPends ==
    ASSUME NEW m, Pending(m), reader.todo = {}
    PROVE  Ahead(Runs("ended"), Shelved, m)
BY DEF Pending, Ahead, Unshelved

LEMMA AllIsAhead ==
    ASSUME PagesTyped
    PROVE  Ahead(Runs("ended"), Shelved, 0)
<1>1. Runs("ended") \in SUBSET Nat /\ IsFiniteSet(Runs("ended"))
  BY RunsAreFinite
<1>2. \A r \in Runs("ended") : r \in Nat /\ Place(Runs("ended"), r) \in Nat
  BY <1>1, PlacesGrow
<1>3. \A r \in Runs("ended") : Place(Runs("ended"), r) >= 0
  BY <1>2
<1>4. QED
  BY <1>3 DEF Ahead

LEMMA IndexOpen ==
    ASSUME PagesTyped, Open
    PROVE  IndexInv'
<1>1. /\ reader'.pc = "ensure" /\ reader'.cursor = NoCursor /\ reader'.seen = <<>>
      /\ reader'.todo = {}
  BY OpenEffect
<1>2. Follows'
  BY <1>1 DEF Follows
<1>3. OverviewInv' /\ PagesInv'
  BY <1>1, <1>2 DEF OverviewInv, PagesInv
<1>4. QED
  BY <1>1, <1>3 DEF IndexInv

LEMMA IndexFollow ==
    ASSUME PagesTyped, IndexInv, Follow
    PROVE  IndexInv'
<1>1. /\ SameRows /\ reader.pc = "open" /\ reader'.pc = "ensure"
      /\ reader'.kind = reader.kind /\ reader'.cursor = reader.cursor
      /\ reader'.seen = reader.seen /\ reader'.calm = reader.calm /\ reader'.todo = {}
  BY FollowEffect
<1>2. SUFFICES ASSUME reader.calm, reader.kind \in {"overview", "index"}
               PROVE  OverviewInv' /\ PagesInv'
  BY <1>1 DEF IndexInv
<1>3. OverviewInv'
  BY <1>1 DEF OverviewInv
<1>4. PagesInv'
  <2>1. reader.kind = "index" => Follows
    BY <1>1, <1>2 DEF IndexInv, PagesInv
  <2>2. reader.kind = "index" => Follows'
    BY <1>1, <2>1, FollowsSame
  <2>3. QED
    BY <1>1, <2>2 DEF PagesInv
<1>5. QED
  BY <1>3, <1>4

LEMMA IndexEnsure ==
    ASSUME PagesTyped, IndexInv, Ensure
    PROVE  IndexInv'
<1>1. /\ SameRows /\ reader.pc = "ensure"
      /\ reader'.kind = reader.kind /\ reader'.cursor = reader.cursor
      /\ reader'.seen = reader.seen /\ reader'.calm = reader.calm
      /\ reader.kind = "index" => reader'.pc = "count"
      /\ reader.kind = "overview" => reader'.pc = "page"
      /\ reader.kind # "inspect" => reader'.todo = ToCopy(Among(Runs("ended"), 0, Window))
  BY EnsureEffect
<1>2. SUFFICES ASSUME reader.calm, reader.kind \in {"overview", "index"}
               PROVE  /\ \A row \in reader'.todo : row.run \in Runs("ended")'
                      /\ OverviewInv' /\ PagesInv'
  BY <1>1 DEF IndexInv
<1>3. Pending(0 + Window)' /\ \A row \in reader'.todo : row.run \in Runs("ended")'
  <2>1. Window \in Nat /\ 0 \in Nat /\ Ahead(Runs("ended"), Shelved, 0)
    BY PagesNumbers, AllIsAhead
  <2>2. reader'.todo = ToCopy(Among(Runs("ended"), 0, Window))
    BY <1>1, <1>2
  <2>3. QED
    BY <1>1, <2>1, <2>2, CopiedNext
<1>4. OverviewInv'
  <2>1. 0 + Window = Window
    BY PagesNumbers
  <2>2. QED
    BY <1>1, <1>3, <2>1 DEF OverviewInv
<1>5. PagesInv'
  <2>1. reader.kind = "index" => Follows
    BY <1>1, <1>2 DEF IndexInv, PagesInv
  <2>2. reader.kind = "index" => Follows'
    BY <1>1, <2>1, FollowsSame
  <2>3. QED
    BY <1>1, <2>2 DEF PagesInv
<1>6. QED
  BY <1>3, <1>4, <1>5

LEMMA FollowsCopied ==
    ASSUME Follows, NEW r \in Runs("ended"), Started' = Started, Runs("ended")' = Runs("ended"),
           Shelved' = Shelved \cup {r}, reader'.cursor = reader.cursor, reader'.seen = reader.seen
    PROVE  Follows'
<1>1. CASE reader.cursor = NoCursor /\ reader.seen = <<>>
  BY <1>1 DEF Follows
<1>2. CASE ~(reader.cursor = NoCursor /\ reader.seen = <<>>)
  <2>1. /\ reader.cursor.revision \in Nat \X Nat /\ reader.cursor.offset >= 1
        /\ reader.cursor.revision[2] <= Started
        /\ reader.cursor.revision[2] = Started =>
             \E V : /\ Cardinality(V) = reader.cursor.revision[1]
                    /\ Kept(Started, Runs("ended"), Shelved, V, reader.seen, reader.cursor.offset)
    BY <1>2 DEF Follows
  <2>2. \A V, s, k : Kept(Started, Runs("ended"), Shelved, V, s, k)
                        => Kept(Started, Runs("ended"), Shelved \cup {r}, V, s, k)
    BY KeptCopied
  <2>3. reader.cursor.revision[2] = Started =>
             \E V : /\ Cardinality(V) = reader.cursor.revision[1]
                    /\ Kept(Started, Runs("ended"), Shelved \cup {r}, V, reader.seen, reader.cursor.offset)
    BY <2>1, <2>2
  <2>4. QED
    BY <2>1, <2>3 DEF Follows
<1>3. QED
  BY <1>1, <1>2

LEMMA IndexCopyRow ==
    ASSUME PagesTyped, IndexInv, CopyRow
    PROVE  IndexInv'
<1>1. /\ Started' = Started /\ Runs("ended")' = Runs("ended")
      /\ reader'.kind = reader.kind /\ reader'.pc = reader.pc
      /\ reader'.cursor = reader.cursor /\ reader'.seen = reader.seen
      /\ reader'.at = reader.at /\ reader'.total = reader.total /\ reader'.calm = reader.calm
  BY CopyRowEffect
<1>2. PICK row \in reader.todo :
         /\ reader'.todo = reader.todo \ {row}
         /\ row.run \in Runs("ended") => Shelved' = Shelved \cup {row.run}
  BY CopyRowEffect
<1>3. SUFFICES ASSUME reader.calm, reader.kind \in {"overview", "index"}
               PROVE  /\ \A x \in reader'.todo : x.run \in Runs("ended")'
                      /\ reader'.pc # "missing" /\ OverviewInv' /\ PagesInv'
  BY <1>1 DEF IndexInv
<1>4. row.run \in Runs("ended") /\ Shelved' = Shelved \cup {row.run}
      /\ \A x \in reader.todo : x.run \in Runs("ended")
  BY <1>2, <1>3 DEF IndexInv
<1>5. /\ reader.pc # "missing" /\ reader.pc # "done"
  BY <1>2 DEF PagesTyped, RequestFits
<1>6. Offered' = Offered /\ Unshelved' = Unshelved \ {row.run}
  BY <1>1, <1>4 DEF Offered, Unshelved
<1>7. ASSUME NEW m, Pending(m) PROVE Pending(m)'
  <2>1. \A r \in Unshelved' : \/ Place(Runs("ended"), r) >= m
                              \/ \E x \in reader'.todo : x.run = r
    BY <1>2, <1>6, <1>7 DEF Pending
  <2>2. QED
    BY <1>1, <2>1 DEF Pending
<1>8. OverviewInv'
  <2>1. SUFFICES ASSUME reader.kind = "overview"
                 PROVE  /\ reader.pc = "page" => Pending(Window)'
                        /\ reader.pc = "count" =>
                             /\ Good(Offered, reader.seen, Len(reader.seen))
                             /\ Ahead(Runs("ended"), Shelved', Len(reader.seen))
                             /\ WasAll(Len(reader.seen))'
    BY <1>1, <1>5, <1>6 DEF OverviewInv
  <2>2. OverviewInv
    BY <1>3 DEF IndexInv
  <2>3. ASSUME reader.pc = "page" PROVE Pending(Window)'
    BY <1>7, <2>1, <2>2, <2>3 DEF OverviewInv
  <2>4. ASSUME reader.pc = "count"
        PROVE  /\ Good(Offered, reader.seen, Len(reader.seen))
               /\ Ahead(Runs("ended"), Shelved', Len(reader.seen))
               /\ WasAll(Len(reader.seen))'
    <3>1. /\ Good(Offered, reader.seen, Len(reader.seen))
          /\ Ahead(Runs("ended"), Shelved, Len(reader.seen)) /\ WasAll(Len(reader.seen))
      BY <2>1, <2>2, <2>4 DEF OverviewInv
    <3>2. Ahead(Runs("ended"), Shelved', Len(reader.seen))
      BY <1>4, <3>1 DEF Ahead
    <3>3. Shelved = Offered => Shelved' = Shelved
      BY <1>4 DEF Offered
    <3>4. WasAll(Len(reader.seen))'
      BY <1>1, <1>6, <3>1, <3>3 DEF WasAll
    <3>5. QED
      BY <3>1, <3>2, <3>4
  <2>5. QED
    BY <2>3, <2>4
<1>9. PagesInv'
  <2>1. SUFFICES ASSUME reader.kind = "index"
                 PROVE  /\ reader.pc \in {"open", "ensure", "count"} => Follows'
                        /\ reader.pc = "page" => /\ Good(Offered, reader.seen, reader.at)
                                                 /\ Pending(reader.at + PageSize)'
                                                 /\ reader.total = Cardinality(Offered)
    BY <1>1, <1>5, <1>6 DEF PagesInv
  <2>2. PagesInv
    BY <1>3 DEF IndexInv
  <2>3. ASSUME reader.pc \in {"open", "ensure", "count"} PROVE Follows'
    <3>1. Follows
      BY <2>1, <2>2, <2>3 DEF PagesInv
    <3>2. QED
      BY <1>1, <1>4, <3>1, FollowsCopied
  <2>4. ASSUME reader.pc = "page"
        PROVE  /\ Good(Offered, reader.seen, reader.at) /\ Pending(reader.at + PageSize)'
               /\ reader.total = Cardinality(Offered)
    <3>1. /\ Good(Offered, reader.seen, reader.at) /\ Pending(reader.at + PageSize)
          /\ reader.total = Cardinality(Offered)
      BY <2>1, <2>2, <2>4 DEF PagesInv
    <3> DEFINE m == reader.at + PageSize
    <3>2. Unshelved' = Unshelved \ {row.run}
      BY <1>6
    <3>3. \A r \in Unshelved' : \/ Place(Runs("ended"), r) >= m
                                \/ \E x \in reader'.todo : x.run = r
      BY <1>2, <3>1, <3>2 DEF Pending
    <3>4. Pending(reader.at + PageSize)'
      BY <1>1, <3>3 DEF Pending
    <3>5. QED
      BY <3>1, <3>4
  <2>5. QED
    BY <2>3, <2>4
<1>10. QED
  BY <1>1, <1>2, <1>4, <1>5, <1>8, <1>9

LEMMA IndexCountRows ==
    ASSUME PagesTyped, IndexInv, CountRows
    PROVE  IndexInv'
<1>1. /\ SameRows /\ reader.pc = "count" /\ reader'.pc = "missing"
      /\ reader'.total = Cardinality(Shelved) /\ reader'.todo = {}
      /\ reader'.kind = reader.kind /\ reader'.cursor = reader.cursor
      /\ reader'.seen = reader.seen /\ reader'.calm = reader.calm
  BY CountRowsEffect
<1>2. /\ Runs("ended")' = Runs("ended") /\ Shelved' = Shelved /\ Offered' = Offered
  BY <1>1, SameOffered
<1>3. SUFFICES ASSUME reader.calm, reader.kind \in {"overview", "index"}
               PROVE  OverviewInv' /\ PagesInv'
  BY <1>1, <1>2 DEF IndexInv
<1>4. OverviewInv'
  <2>1. OverviewInv
    BY <1>3 DEF IndexInv
  <2>2. QED
    BY <1>1, <1>2, <2>1 DEF OverviewInv, WasAll
<1>5. PagesInv'
  <2>1. reader.kind = "index" => Follows
    BY <1>1, <1>3 DEF IndexInv, PagesInv
  <2>2. reader.kind = "index" => Follows'
    BY <1>1, <2>1, FollowsSame
  <2>3. QED
    BY <1>1, <2>2 DEF PagesInv
<1>6. QED
  BY <1>4, <1>5

\* Where the answer says that the index goes on, it does.
LEMMA CursorFollows ==
    ASSUME PagesTyped, SameRows, NEW k \in Nat, NEW t \in Nat,
           Good(Offered, reader'.seen, k), Ahead(Runs("ended"), Shelved, k),
           t = Cardinality(Offered), k \in 1..(t - 1),
           reader'.cursor = CursorAt(<<t, Started>>, k, t)
    PROVE  Follows'
<1>1. /\ Started \in Nat /\ <<t, Started>> \in Revisions
  BY DEF PagesTyped, RunsFollow, Revisions
<1>2. reader'.cursor = [revision |-> <<t, Started>>, offset |-> k]
  BY <1>1, CursorAtIs
<1>3. /\ Runs("ended") \in SUBSET (1..Started) /\ Shelved \in SUBSET (1..Started)
      /\ Offered = Runs("ended") \cup Shelved
  BY RunsAreFinite DEF Offered
<1>4. Kept(Started, Runs("ended"), Shelved, Offered, reader'.seen, k)
  BY <1>1, <1>3, AllIsKept
<1>5. reader'.cursor.revision = <<t, Started>> /\ reader'.cursor.offset = k
  BY <1>2
<1>6. /\ Started' = Started /\ Runs("ended")' = Runs("ended") /\ Shelved' = Shelved
  BY SameOffered
<1>7. /\ reader'.cursor.revision \in Nat \X Nat /\ reader'.cursor.offset >= 1
      /\ reader'.cursor.revision[2] = Started /\ reader'.cursor.revision[1] = t
      /\ Started <= Started
  BY <1>1, <1>5
<1>8. \E V : /\ Cardinality(V) = reader'.cursor.revision[1]
             /\ Kept(Started, Runs("ended"), Shelved, V, reader'.seen, reader'.cursor.offset)
  BY <1>4, <1>5, <1>7
<1>9. QED
  BY <1>6, <1>7, <1>8 DEF Follows

\* An answer that says no more has shown all, any other one has a cursor to follow.
LEMMA AnswerInv ==
    ASSUME PagesTyped, SameRows, NEW k \in Nat, NEW t \in Nat, reader'.kind = "index",
           Good(Offered, reader'.seen, k), Ahead(Runs("ended"), Shelved, k), WasAll(k),
           t = Cardinality(Offered), reader'.cursor = CursorAt(<<t, Started>>, k, t),
           reader'.pc = IF reader'.cursor = NoCursor THEN "done" ELSE "open"
    PROVE  OverviewInv' /\ PagesInv'
<1>1. OverviewInv'
  BY DEF OverviewInv
<1>2. <<t, Started>> \in Revisions
  BY DEF PagesTyped, RunsFollow, Revisions
<1>3. CASE k \in 1..(t - 1)
  <2>1. Follows'
    BY <1>3, CursorFollows
  <2>2. reader'.pc = "open"
    BY <1>2, <1>3, CursorAtIs
  <2>3. QED
    BY <1>1, <2>1, <2>2 DEF PagesInv
<1>4. CASE k \notin 1..(t - 1)
  <2>1. reader'.pc = "done"
    BY <1>2, <1>4, CursorAtIs
  <2>2. Shelved = Offered /\ k = Cardinality(Shelved) /\ Shelved' = Shelved
    BY <1>4, SameOffered DEF WasAll
  <2>3. Good(Shelved', reader'.seen, Cardinality(Shelved'))
    BY <2>2
  <2>4. QED
    BY <1>1, <2>1, <2>3 DEF PagesInv
<1>5. QED
  BY <1>3, <1>4

LEMMA NothingSeen == ASSUME NEW V PROVE Good(V, <<>>, 0)
BY EmptyIsTyped DEF Good

\* The index accepts the cursor: nothing has changed that matters.
LEMMA AcceptedIsCurrent ==
    ASSUME PagesTyped, Follows, NEW t, t = Cardinality(Offered), NEW k, k = reader.cursor.offset,
           \/ reader.cursor = NoCursor
           \/ reader.cursor.revision = <<t, Started>>
    PROVE  k \in Nat /\ Good(Offered, reader.seen, k) /\ Ahead(Runs("ended"), Shelved, k)
<1>1. reader.cursor \in Cursors /\ k \in Nat
  <2>1. reader.cursor \in Cursors
    BY DEF PagesTyped, RequestFits, ReaderRow
  <2>2. QED
    BY <2>1 DEF Cursors
<1>2. CASE reader.cursor = NoCursor /\ reader.seen = <<>>
  <2>1. k = 0
    BY <1>2, NoCursorIs
  <2>2. QED
    BY <1>2, <2>1, NothingSeen, AllIsAhead
<1>3. CASE ~(reader.cursor = NoCursor /\ reader.seen = <<>>)
  <2>1. /\ reader.cursor.offset >= 1
        /\ reader.cursor.revision[2] = Started =>
             \E V : /\ Cardinality(V) = reader.cursor.revision[1]
                    /\ Kept(Started, Runs("ended"), Shelved, V, reader.seen, reader.cursor.offset)
    BY <1>3 DEF Follows
  <2>2. reader.cursor # NoCursor
    BY <2>1, NoCursorIs
  <2>3. reader.cursor.revision[1] = t /\ reader.cursor.revision[2] = Started
    BY <2>2
  <2>4. PICK V : Cardinality(V) = t /\ Kept(Started, Runs("ended"), Shelved, V, reader.seen, k)
    BY <2>1, <2>3
  <2>5. /\ Runs("ended") \in SUBSET (1..Started) /\ Shelved \in SUBSET (1..Started)
        /\ Offered = Runs("ended") \cup Shelved /\ Started \in Nat
    BY RunsAreFinite DEF Offered, PagesTyped, RunsFollow
  <2>6. QED
    BY <1>1, <2>4, <2>5, KeptIsAll
<1>4. QED
  BY <1>2, <1>3

LEMMA IndexCountMissing ==
    ASSUME PagesTyped, IndexInv, CountMissing
    PROVE  IndexInv'
<1> DEFINE t == reader.total + Cardinality(Unshelved)
<1>1. /\ SameRows /\ reader.pc = "missing" /\ t \in Nat
      /\ reader.kind \in {"overview", "index"}
  BY CountMissingEffect DEF PagesTyped, RequestFits
<1>2. CASE reader.kind = "overview"
  <2>1. /\ reader'.kind = "index" /\ reader'.calm = reader.calm /\ reader'.seen = reader.seen
        /\ reader'.cursor = CursorAt(<<t, Started>>, Len(reader.seen), t)
        /\ reader'.pc = IF reader'.cursor = NoCursor THEN "done" ELSE "open"
    BY <1>2, CountMissingEffect
  <2>2. reader'.todo = {}
    <3>1. PagesTyped'
      BY CountMissingEffect
    <3>2. reader'.pc \in {"open", "done"}
      BY <2>1
    <3>3. QED
      BY <3>1, <3>2 DEF PagesTyped, RequestFits
  <2>3. SUFFICES ASSUME reader.calm PROVE OverviewInv' /\ PagesInv'
    BY <2>1, <2>2 DEF IndexInv
  <2>4. /\ Good(Offered, reader.seen, Len(reader.seen))
        /\ Ahead(Runs("ended"), Shelved, Len(reader.seen)) /\ WasAll(Len(reader.seen))
        /\ reader.total = Cardinality(Shelved)
    BY <1>1, <1>2, <2>3 DEF IndexInv, OverviewInv
  <2>5. t = Cardinality(Offered)
    BY <2>4, RunsAreFinite
  <2>6. PICK k \in Nat : k = Len(reader.seen)
    BY <2>4, LenProperties DEF Good
  <2> HIDE DEF t
  <2>7. QED
    BY <1>1, <2>1, <2>4, <2>5, <2>6, AnswerInv
<1>3. CASE reader.kind = "index" /\ reader' # Nobody
  <2>1. /\ reader'.kind = reader.kind /\ reader'.calm = reader.calm
        /\ reader'.seen = reader.seen /\ reader'.cursor = reader.cursor
        /\ reader'.pc = "page" /\ reader'.total = t /\ reader'.at = reader.cursor.offset
        /\ reader'.todo = ToCopy(Among(Runs("ended"), reader.cursor.offset, PageSize))
        /\ \/ reader.cursor = NoCursor
           \/ reader.cursor.revision = <<t, Started>>
    BY <1>3, CountMissingEffect
  <2>2. SUFFICES ASSUME reader.calm
                 PROVE  /\ \A row \in reader'.todo : row.run \in Runs("ended")'
                        /\ OverviewInv' /\ PagesInv'
    BY <2>1 DEF IndexInv
  <2>3. Follows /\ reader.total = Cardinality(Shelved)
    BY <1>1, <1>3, <2>2 DEF IndexInv, PagesInv
  <2>4. t = Cardinality(Offered)
    BY <2>3, RunsAreFinite
  <2> HIDE DEF t
  <2>5. PICK k : k = reader.cursor.offset
    OBVIOUS
  <2>6. k \in Nat /\ Good(Offered, reader.seen, k) /\ Ahead(Runs("ended"), Shelved, k)
    BY <2>1, <2>3, <2>4, <2>5, AcceptedIsCurrent
  <2>7. Pending(k + PageSize)' /\ \A row \in reader'.todo : row.run \in Runs("ended")'
    BY <1>1, <2>1, <2>5, <2>6, PagesNumbers, CopiedNext
  <2>8. OverviewInv'
    BY <1>3, <2>1 DEF OverviewInv
  <2>9. Offered' = Offered
    BY <1>1, SameOffered
  <2>10. PagesInv'
    <3>1. reader'.at = k /\ Pending(k + PageSize)'
      BY <2>1, <2>5, <2>7
    <3>2. Pending(reader.at + PageSize)'
      BY <3>1 DEF Pending
    <3>3. QED
      BY <2>1, <2>4, <2>6, <2>9, <3>1, <3>2 DEF PagesInv
  <2>11. QED
    BY <2>7, <2>8, <2>10
<1>4. QED
  BY <1>1, <1>2, <1>3, NobodyReads

LEMMA IndexReadOverview ==
    ASSUME PagesTyped, IndexInv, ReadOverview
    PROVE  IndexInv'
<1> DEFINE page == Newest(Shelved, 0, Window)
           L == Len(page)
<1>1. /\ SameRows /\ reader.pc = "page" /\ reader.kind = "overview"
      /\ reader.todo = {} /\ reader'.pc = "count" /\ reader'.todo = {}
      /\ reader'.kind = reader.kind /\ reader'.calm = reader.calm /\ reader'.seen = page
  BY ReadOverviewEffect
<1>2. SUFFICES ASSUME reader.calm PROVE OverviewInv' /\ PagesInv'
  BY <1>1 DEF IndexInv
<1>3. Ahead(Runs("ended"), Shelved, Window)
  <2>1. Pending(Window)
    BY <1>1, <1>2 DEF IndexInv, OverviewInv
  <2>2. QED
    BY <1>1, <2>1, NothingPends
<1>4. /\ Offered \in SUBSET Nat /\ IsFiniteSet(Offered) /\ Shelved \in SUBSET Offered
      /\ Runs("ended") \in SUBSET Offered /\ Window \in Nat \ {0}
      /\ Runs("ended") \in SUBSET (1..Started) /\ Started \in Nat
  BY RunsAreFinite, PagesNumbers DEF PagesTyped, RunsFollow
<1>5. \A r \in Offered \ Shelved : Place(Runs("ended"), r) >= 0 + Window
  <2>1. 0 + Window = Window /\ Offered \ Shelved = Runs("ended") \ Shelved
    BY <1>4 DEF Offered
  <2>2. QED
    BY <1>3, <2>1 DEF Ahead
<1> DEFINE rest == <<>> \o page
<1>6. /\ L \in Nat /\ L <= Window /\ Good(Offered, rest, 0 + L)
      /\ 0 + L \notin 1..(Cardinality(Offered) - 1) => Shelved = Offered /\ 0 + L = Cardinality(Shelved)
  <2>1. Good(Offered, <<>>, 0) /\ 0 \in Nat
    BY NothingSeen
  <2>2. \A s : Good(Offered, s, 0) =>
           /\ Len(Newest(Shelved, 0, Window)) \in Nat /\ Len(Newest(Shelved, 0, Window)) <= Window
           /\ Good(Offered, s \o Newest(Shelved, 0, Window), 0 + Len(Newest(Shelved, 0, Window)))
           /\ 0 + Len(Newest(Shelved, 0, Window)) \notin 1..(Cardinality(Offered) - 1) =>
                Shelved = Offered /\ 0 + Len(Newest(Shelved, 0, Window)) = Cardinality(Shelved)
    BY <1>4, <1>5, <2>1, PageGoesOn
  <2>3. QED
    BY <2>1, <2>2
<1>7. rest = page
  <2>1. page \in Seq(Shelved)
    <3>1. Shelved \in SUBSET Nat /\ IsFiniteSet(Shelved) /\ 0 \in Nat
      BY <1>4, RunsAreFinite
    <3>2. QED
      BY <1>4, <3>1, PageIs
  <2> HIDE DEF page
  <2>2. QED
    BY <2>1
<1> HIDE DEF page, L, rest
<1>8. L = Len(page) /\ 0 + L = L
  BY <1>6 DEF L
<1>9. Ahead(Runs("ended"), Shelved, L)
  BY <1>3, <1>4, <1>6, AheadOfLess
<1>10. WasAll(L)
  BY <1>6, <1>8 DEF WasAll
<1>11. Offered' = Offered /\ Shelved' = Shelved /\ Runs("ended")' = Runs("ended")
  BY <1>1, SameOffered
<1>12. OverviewInv'
  <2>1. Good(Offered, page, L)
    BY <1>6, <1>7, <1>8
  <2>2. QED
    BY <1>1, <1>8, <1>9, <1>10, <1>11, <2>1 DEF OverviewInv, WasAll
<1>13. PagesInv'
  BY <1>1 DEF PagesInv
<1>14. QED
  BY <1>12, <1>13

LEMMA IndexReadPage ==
    ASSUME PagesTyped, IndexInv, ReadPage
    PROVE  IndexInv'
<1> DEFINE page == Newest(Shelved, reader.at, PageSize)
           j == reader.at + Len(page)
<1>1. /\ SameRows /\ reader.pc = "page" /\ reader.kind = "index"
      /\ reader.todo = {} /\ reader'.todo = {} /\ reader'.kind = reader.kind
      /\ reader'.calm = reader.calm /\ reader'.seen = reader.seen \o page /\ j \in Nat
      /\ reader'.cursor = CursorAt(<<reader.total, Started>>, j, reader.total)
      /\ reader'.pc = IF reader'.cursor = NoCursor THEN "done" ELSE "open"
  BY ReadPageEffect
<1>2. SUFFICES ASSUME reader.calm PROVE OverviewInv' /\ PagesInv'
  <2>1. reader'.pc # "missing"
    BY <1>1
  <2>2. QED
    BY <1>1, <2>1 DEF IndexInv
<1>3. /\ Good(Offered, reader.seen, reader.at) /\ Pending(reader.at + PageSize)
      /\ reader.total = Cardinality(Offered)
  BY <1>1, <1>2 DEF IndexInv, PagesInv
<1>4. PICK a \in Nat : a = reader.at
  BY DEF PagesTyped, RequestFits, ReaderRow
<1>5. PICK s : s = reader.seen
  OBVIOUS
<1>6. PageSize \in Nat \ {0} /\ a + PageSize \in Nat
  BY PagesNumbers
<1>7. Ahead(Runs("ended"), Shelved, a + PageSize)
  BY <1>1, <1>3, <1>4 DEF Pending, Ahead, Unshelved
<1>8. /\ Offered \in SUBSET Nat /\ IsFiniteSet(Offered) /\ Shelved \in SUBSET Offered
      /\ Runs("ended") \in SUBSET Offered /\ Cardinality(Offered) \in Nat
      /\ Runs("ended") \in SUBSET (1..Started) /\ Started \in Nat
  BY RunsAreFinite DEF PagesTyped, RunsFollow
<1>9. \A r \in Offered \ Shelved : Place(Runs("ended"), r) >= a + PageSize
  BY <1>7, <1>8 DEF Ahead, Offered
<1> DEFINE p == Newest(Shelved, a, PageSize)
           L == Len(p)
<1>10. /\ L \in Nat /\ L <= PageSize /\ Good(Offered, s \o p, a + L)
       /\ a + L \notin 1..(Cardinality(Offered) - 1) => Shelved = Offered /\ a + L = Cardinality(Shelved)
  <2>1. Good(Offered, s, a)
    BY <1>3, <1>4, <1>5
  <2>2. QED
    BY <1>4, <1>6, <1>8, <1>9, <2>1, PageGoesOn
<1>11. reader'.seen = s \o p /\ j = a + L
  BY <1>1, <1>4, <1>5
<1> HIDE DEF p, L, page, j
<1>12. PICK k \in Nat : k = a + L
  BY <1>10
<1>13. PICK t \in Nat : t = reader.total /\ t = Cardinality(Offered)
  BY <1>3, <1>8
<1>14. Ahead(Runs("ended"), Shelved, k)
  <2>1. k <= a + PageSize
    BY <1>6, <1>10, <1>12
  <2>2. QED
    BY <1>6, <1>7, <1>8, <1>12, <2>1, AheadOfLess
<1>15. WasAll(k) /\ Good(Offered, reader'.seen, k)
  BY <1>10, <1>11, <1>12 DEF WasAll
<1>16. /\ reader'.cursor = CursorAt(<<t, Started>>, k, t) /\ reader'.kind = "index"
  BY <1>1, <1>11, <1>12, <1>13
<1>17. QED
  BY <1>1, <1>13, <1>14, <1>15, <1>16, AnswerInv

LEMMA IndexInspect ==
    ASSUME PagesTyped, Inspect
    PROVE  IndexInv'
<1>1. reader' = Nobody \/ reader'.kind = "inspect"
  BY InspectEffect
<1>2. CASE reader'.kind = "inspect"
  BY <1>2 DEF IndexInv
<1>3. QED
  BY <1>1, <1>2, NobodyReads

LEMMA IndexStep ==
    ASSUME PagesTyped, IndexInv, DeliverablesNext
    PROVE  IndexInv'
BY IndexStartRun, IndexEndStep, IndexMaterialize, IndexRetryStep, IndexCollectRun,
   IndexOpen, IndexFollow, IndexEnsure, IndexCopyRow, IndexCountRows, IndexCountMissing,
   IndexReadOverview, IndexReadPage, IndexInspect DEF DeliverablesNext

LEMMA PagesTypedStep ==
    ASSUME PagesTyped, DeliverablesNext
    PROVE  PagesTyped'
<1>1. CASE StartRun \/ EndStep \/ Materialize \/ RetryStep \/ CollectRun
  BY <1>1, StartRunEffect, EndStepEffect, MaterializeEffect, RetryStepEffect, CollectRunEffect
<1>2. CASE Open \/ Follow \/ Ensure \/ CopyRow \/ CountRows
  BY <1>2, OpenEffect, FollowEffect, EnsureEffect, CopyRowEffect, CountRowsEffect
<1>3. CASE CountMissing \/ ReadOverview
  BY <1>3, CountMissingEffect, ReadOverviewEffect
<1>4. CASE ReadPage \/ Inspect
  BY <1>4, ReadPageEffect, InspectEffect
<1>5. QED
  BY <1>1, <1>2, <1>3, <1>4 DEF DeliverablesNext

\* What a reader has, as far as it got.
PagesInvariant == PagesTyped /\ LineByLine /\ IndexInv

LEMMA PagesStart ==
    ASSUME DeliverablesInit
    PROVE  PagesInvariant
<1>1. /\ stepOf = [r \in Ordinals |-> "absent"] /\ output = [r \in Ordinals |-> Void]
      /\ shelf = [r \in Ordinals |-> NoRow] /\ retried = 0 /\ reader = Nobody
  BY DEF DeliverablesInit
<1>2. DocumentsTyped
  BY <1>1, PagesNumbers DEF DocumentsTyped, StepStatuses
<1>3. Ordinals \ Runs("absent") = {} /\ Runs("running") = {} /\ Shelved = {}
  BY <1>1 DEF Runs, Shelved
<1>4. Started = 0
  BY <1>3, FS_EmptySet DEF Started
<1>5. RunsFollow
  BY <1>3, <1>4 DEF RunsFollow
<1>6. /\ reader.kind = "none" /\ reader.pc = "idle" /\ reader.todo = {} /\ reader.seen = <<>>
  BY <1>1 DEF Nobody
<1>7. RequestFits
  BY <1>1, <1>6, NobodyFits, EmptyIsTyped DEF RequestFits
<1>8. LineByLine /\ IndexInv
  BY <1>6 DEF LineByLine, IndexInv
<1>9. QED
  BY <1>2, <1>5, <1>7, <1>8 DEF PagesInvariant, PagesTyped

LEMMA PagesKept ==
    ASSUME PagesInvariant, [DeliverablesNext]_deliverableVars
    PROVE  PagesInvariant'
<1>1. PagesTyped /\ LineByLine /\ IndexInv
  BY DEF PagesInvariant
<1>2. CASE DeliverablesNext
  BY <1>1, <1>2, PagesTypedStep, LinesStep, IndexStep DEF PagesInvariant
<1>3. CASE UNCHANGED deliverableVars
  <2>1. UNCHANGED <<stepOf, output, shelf, retried, reader>>
    BY <1>3 DEF deliverableVars
  <2>2. /\ SameRows /\ DocumentsTyped' /\ RunsFollow' /\ reader' = reader
    BY <1>1, <2>1, OnlyAsks
  <2>3. /\ Started' = Started /\ Runs("ended")' = Runs("ended") /\ Shelved' = Shelved
        /\ Unshelved' = Unshelved /\ Offered' = Offered
    BY <2>2, SameOffered
  <2>4. RequestFits'
    BY <1>1, <2>2, <2>3 DEF PagesTyped, RequestFits
  <2>5. LineByLine'
    BY <1>1, <2>2 DEF LineByLine
  <2>6. OverviewInv => OverviewInv'
    BY <2>2, <2>3 DEF OverviewInv, Pending, WasAll
  <2>7. Follows => Follows'
    BY <2>2, FollowsSame
  <2>8. PagesInv => PagesInv'
    BY <2>2, <2>3, <2>7 DEF PagesInv, Pending
  <2>9. IndexInv'
    BY <1>1, <2>2, <2>3, <2>6, <2>8 DEF IndexInv
  <2>10. QED
    BY <2>2, <2>4, <2>5, <2>9 DEF PagesInvariant, PagesTyped
<1>4. QED
  BY <1>2, <1>3

LEMMA PagesAreRight ==
    ASSUME PagesInvariant
    PROVE  ReadersSeeOneDocument
<1>1. PagesTyped /\ LineByLine /\ IndexInv
  BY DEF PagesInvariant
<1>2. PagesAreOneDocument
  BY <1>1 DEF LineByLine, UpTo, PagesAreOneDocument
<1>3. IndexIsComplete
  <2>1. SUFFICES ASSUME reader.kind = "index", reader.pc = "done", reader.calm
                 PROVE  \A r, q \in Among(Shelved, 0, Cardinality(Shelved)) :
                          /\ Cardinality({i \in DOMAIN reader.seen : reader.seen[i] = r}) = 1
                          /\ \A i, j \in DOMAIN reader.seen :
                                reader.seen[i] = r /\ reader.seen[j] = q /\ r > q => i < j
    BY DEF IndexIsComplete
  <2>2. Good(Shelved, reader.seen, Cardinality(Shelved))
    BY <1>1, <2>1 DEF IndexInv, PagesInv
  <2>3. Shelved \in SUBSET Nat /\ IsFiniteSet(Shelved)
    BY <1>1, RunsAreFinite
  <2>4. Among(Shelved, 0, Cardinality(Shelved)) \in SUBSET Shelved
    BY AmongIsPart
  <2>5. PICK s : s = reader.seen
    OBVIOUS
  <2>6. \A r, q \in Shelved :
           /\ Cardinality({i \in DOMAIN s : s[i] = r}) = 1
           /\ \A i, j \in DOMAIN s : s[i] = r /\ s[j] = q /\ r > q => i < j
    BY <2>2, <2>3, <2>5, WholeIsOnce
  <2>7. QED
    BY <2>4, <2>5, <2>6
<1>4. QED
  BY <1>2, <1>3 DEF ReadersSeeOneDocument

\* Whoever reads a phase's report in pages has read one report of one run when
\* the cursors end, whatever ends, is retried or is collected meanwhile; whoever
\* reads the index has each deliverable once, the newest first, unless something
\* happened inside a request, or between two of them a step nobody had copied
\* changed its place.
THEOREM ReadersStayWithOneDocument == Spec => []ReadersSeeOneDocument
<1>1. DeliverablesInit => PagesInvariant
  BY PagesStart
<1>2. PagesInvariant /\ [DeliverablesNext]_deliverableVars => PagesInvariant'
  BY PagesKept
<1>3. PagesInvariant => ReadersSeeOneDocument
  BY PagesAreRight
<1>4. QED
  BY <1>1, <1>2, <1>3, DeliverablesOnly, PTL

=============================================================================
