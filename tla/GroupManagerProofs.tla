------------------------- MODULE GroupManagerProofs --------------------------
(***************************************************************************)
(* What the run of GroupManager checks for two workers and two signals,    *)
(* for any number of both and of kinds of signals.  That one stop() at a   *)
(* time proceeds rests on the mutex: a handler that is past the lock is    *)
(* the only one, on any thread and in any depth, and stop_guard names its  *)
(* thread.                                                                 *)
(***************************************************************************)
EXTENDS GroupManager, TLAPS

(* Where the threads are.                                                  *)
Places ==
  /\ DOMAIN at = Thread
  /\ at[Main] \in {"start", "push", "check", "round", "done"}
  /\ \A w \in Worker :
       at[w] \in {"none", "subscribe", "check", "recv", "interrupted", "ended"}
  /\ at[Query] \in {"none", "check", "recv", "again", "interrupted", "ended"}
  /\ at[Proxy] \in {"forward", "interrupted", "ended"}

(* The vector of threads: no thread is in it twice.                        *)
Vector ==
  /\ threads \in Seq(Worker \cup {Query})
  /\ \A i, j \in DOMAIN threads : threads[i] = threads[j] => i = j

Handlers ==
  /\ handler \in [Thread -> Seq(Frame)]
  /\ stop_guard \in Thread \cup {None}

Rest ==
  /\ continue_processing \in BOOLEAN /\ registered \in BOOLEAN
  /\ post \in [waiting : BOOLEAN, reach : SUBSET Worker]
  /\ inbox \subseteq Worker
  /\ aborted \in BOOLEAN /\ stray \in BOOLEAN
  /\ signals \in 0..MaxSignal

(* The type invariant is these four parts.                                 *)
LEMMA TypeParts == TypeOK <=> Places /\ Vector /\ Handlers /\ Rest
  BY DEF TypeOK, Places, Vector, Handlers, Rest

-----------------------------------------------------------------------------
(* The threads.                                                            *)
LEMMA GoesTo ==
  ASSUME NEW th, NEW from, NEW to, DOMAIN at = Thread, th \in Thread,
         Goes(th, from, to)
  PROVE  /\ at[th] = from /\ at'[th] = to /\ DOMAIN at' = Thread
         /\ \A u \in Thread : u # th => at'[u] = at[u]
  BY DEF Goes

(* The threads with a role of their own are no workers.                    *)
LEMMA ThreadsDiffer ==
  /\ Main # Query /\ Main # Proxy /\ Query # Proxy
  /\ Main \in Thread /\ Query \in Thread /\ Proxy \in Thread
  /\ \A w \in Worker : w \in Thread /\ w # Main /\ w # Query /\ w # Proxy
  BY GroupAssumption DEF Thread

(* At first the threads are where Places allows them.                      *)
LEMMA PlacesInit == Init => Places
<1> SUFFICES ASSUME Init PROVE Places
  OBVIOUS
<1>1. at = [th \in Thread |-> CASE th = Main -> "start"
                                [] th = Proxy -> "forward"
                                [] OTHER -> "none"]
  BY DEF Init
<1>2. at[Main] = "start" /\ at[Query] = "none" /\ at[Proxy] = "forward"
  BY <1>1, ThreadsDiffer
<1>3. \A w \in Worker : at[w] = "none"
  BY <1>1, ThreadsDiffer
<1> QED
  BY <1>1, <1>2, <1>3 DEF Places

(* A step moves a thread only to a place of its own.                       *)
LEMMA PlacesStep == Places /\ [Next]_vars => Places'
<1> SUFFICES ASSUME Places, [Next]_vars PROVE Places'
  OBVIOUS
<1> USE ThreadsDiffer
<1>1. CASE UNCHANGED at
  BY <1>1 DEF Places
<1>2. ASSUME NEW th \in Worker \cup {Query}, Create(th) PROVE Places'
  <2>1. DOMAIN at = Thread /\ th \in Thread /\ th # Main /\ th # Proxy
    BY DEF Places
  <2>2. /\ DOMAIN at' = Thread
        /\ at'[Main] = "push"
        /\ at'[th] = IF th = Query THEN "check" ELSE "subscribe"
        /\ \A u \in Thread : u # Main /\ u # th => at'[u] = at[u]
    BY <1>2, <2>1 DEF Create, Following
  <2>3. at'[Proxy] = at[Proxy]
    BY <2>1, <2>2
  <2>4. at'[Query] = "check" \/ at'[Query] = at[Query]
    BY <2>1, <2>2
  <2>5. \A w \in Worker : at'[w] = "subscribe" \/ at'[w] = at[w]
    BY <2>1, <2>2
  <2> QED
    BY <2>2, <2>3, <2>4, <2>5 DEF Places
<1>3. ASSUME NEW th \in Worker \cup {Query}, PushThread(th) PROVE Places'
  <2>1. PICK to \in {"check", "start"} : Goes(Main, "push", to)
    BY <1>3 DEF PushThread
  <2> QED
    BY <2>1, GoesTo DEF Places
<1>4. CASE ProcessLoop
  <2>1. PICK from, to \in {"round", "done", "check"} : Goes(Main, from, to)
    BY <1>4 DEF ProcessLoop
  <2> QED
    BY <2>1, GoesTo DEF Places
<1>5. ASSUME NEW w \in Worker, WorkerRuns(w) PROVE Places'
  <2>1. PICK from, to \in {"subscribe", "check", "recv", "ended"} :
         Goes(w, from, to)
    BY <1>5 DEF WorkerRuns, Following
  <2> QED
    BY <2>1, GoesTo DEF Places
<1>6. CASE QueryRuns \/ Ask
  <2>1. CASE UNCHANGED at
    BY <2>1, <1>1
  <2>2. CASE ~UNCHANGED at
    <3>1. PICK from, to \in {"check", "recv", "again", "ended"} :
           Goes(Query, from, to)
      BY <1>6, <2>2 DEF QueryRuns, Ask
    <3> QED
      BY <3>1, GoesTo DEF Places
  <2> QED
    BY <2>1, <2>2
<1>7. ASSUME NEW th \in Thread, Resume(th) PROVE Places'
  <2>1. CASE th = Proxy
    BY <1>7, <2>1, GoesTo DEF Resume, Places
  <2>2. CASE th # Proxy
    BY <1>7, <2>2, <1>1 DEF Resume
  <2> QED
    BY <2>1, <2>2
<1>8. ASSUME NEW th \in Thread, NEW kind \in Kind, Signal(kind, th)
      PROVE  Places'
  <2>1. PICK next \in BrokenOff(th) : at' = [at EXCEPT ![th] = next]
    BY <1>8 DEF Signal
  <2>2. \/ next = at[th]
        \/ next = "interrupted" /\ at[th] \in {"recv", "forward"}
    BY <2>1 DEF BrokenOff
  <2>3. /\ DOMAIN at' = Thread /\ at'[th] = next
        /\ \A u \in Thread : u # th => at'[u] = at[u]
    BY <2>1 DEF Places
  <2> QED
    BY <2>2, <2>3 DEF Places
<1>9. ASSUME NEW th \in Thread, StopStep(th) PROVE UNCHANGED at
  BY <1>9 DEF StopStep, LockGuard, TestFlag, Close, PostStop, JoinAll
<1>10. ASSUME Forward \/ UNCHANGED vars PROVE UNCHANGED at
  BY <1>10 DEF Forward, vars
<1> QED
  BY <1>1, <1>2, <1>3, <1>4, <1>5, <1>6, <1>7, <1>8, <1>9, <1>10
  DEF Next, MainStep

(* main pushes each thread once.                                           *)
LEMMA VectorStep == Vector /\ [Next]_vars => Vector'
<1> SUFFICES ASSUME Vector, [Next]_vars PROVE Vector'
  OBVIOUS
<1>1. CASE UNCHANGED threads
  BY <1>1 DEF Vector
<1>2. ASSUME NEW th \in Worker \cup {Query}, PushThread(th) PROVE Vector'
  <2>1. /\ threads' = Append(threads, th)
        /\ \A i \in DOMAIN threads : threads[i] # th
    BY <1>2 DEF PushThread, Pushed
  <2>2. /\ threads' \in Seq(Worker \cup {Query})
        /\ Len(threads) \in Nat /\ DOMAIN threads = 1..Len(threads)
        /\ DOMAIN threads' = 1..(Len(threads) + 1)
        /\ threads'[Len(threads) + 1] = th
        /\ \A i \in 1..Len(threads) : threads'[i] = threads[i]
    BY <2>1 DEF Vector
  <2>3. \A i \in DOMAIN threads' : i \in DOMAIN threads \/ i = Len(threads) + 1
    BY <2>2
  <2> QED
    BY <2>1, <2>2, <2>3 DEF Vector
<1>3. ASSUME NEW th \in Thread,
             \/ StopStep(th) \/ Resume(th)
             \/ \E kind \in Kind : Signal(kind, th)
      PROVE  UNCHANGED threads
  BY <1>3 DEF StopStep, LockGuard, TestFlag, Close, PostStop, JoinAll, Resume,
              Signal
<1>4. ASSUME \/ ProcessLoop \/ \E th \in Worker \cup {Query} : Create(th)
             \/ \E w \in Worker : WorkerRuns(w)
             \/ QueryRuns \/ Ask \/ Forward \/ UNCHANGED vars
      PROVE  UNCHANGED threads
  BY <1>4 DEF ProcessLoop, Create, WorkerRuns, QueryRuns, Ask, Forward, vars
<1> QED
  BY <1>1, <1>2, <1>3, <1>4 DEF Next, MainStep

-----------------------------------------------------------------------------
(***************************************************************************)
(* The handlers.                                                           *)
(***************************************************************************)
(* Between the lock and the unlock of stop_guard.                          *)
Section == {"locked", "close", "post", "join"}

Steps == {"enter"} \cup Section

(* The innermost handler of th takes a step, and the others stay.          *)
LEMMA StopGoesTo ==
  ASSUME Handlers, NEW th \in Thread, handler[th] # <<>>,
         NEW step \in Steps, StopGoes(th, step)
  PROVE  /\ handler' \in [Thread -> Seq(Frame)]
         /\ DOMAIN handler'[th] = DOMAIN handler[th]
         /\ 1 \in DOMAIN handler[th] /\ Head(handler[th]) = handler[th][1]
         /\ handler'[th][1].at = step
         /\ \A i \in DOMAIN handler[th] :
              i # 1 => handler'[th][i] = handler[th][i]
         /\ \A u \in Thread : u # th => handler'[u] = handler[u]
<1> DEFINE h == handler[th]
           f == [h[1] EXCEPT !.at = step]
           g == <<f>> \o Tail(h)
<1>1. h \in Seq(Frame) /\ h # <<>>
  BY DEF Handlers
<1>2. /\ Len(h) \in Nat /\ Len(h) > 0 /\ DOMAIN h = 1..Len(h)
      /\ h[1] \in Frame /\ Head(h) = h[1] /\ Tail(h) \in Seq(Frame)
      /\ Len(Tail(h)) = Len(h) - 1
      /\ \A i \in 1..(Len(h) - 1) : Tail(h)[i] = h[i + 1]
  BY <1>1
<1>3. f \in Frame /\ f.at = step
  BY <1>2 DEF Frame, Steps, Section
<1>4. handler' = [handler EXCEPT ![th] = g]
  BY DEF StopGoes
<1>5. /\ handler'[th] = g
      /\ \A u \in Thread : u # th => handler'[u] = handler[u]
  BY <1>4 DEF Handlers
<1> HIDE DEF f, h
<1>6. g \in Seq(Frame) /\ Len(g) = Len(h) /\ g[1] = f
  BY <1>2, <1>3
<1>7. \A i \in 2..Len(h) : g[i] = h[i]
  BY <1>2, <1>3
<1> HIDE DEF g
<1>8. handler' \in [Thread -> Seq(Frame)]
  BY <1>4, <1>6 DEF Handlers
<1>9. /\ DOMAIN g = DOMAIN h /\ 1 \in DOMAIN h
      /\ \A i \in DOMAIN h : i # 1 => i \in 2..Len(h)
  BY <1>2, <1>6
<1> QED
  BY <1>2, <1>3, <1>5, <1>6, <1>7, <1>8, <1>9 DEF h

(* The innermost handler of th returns.                                    *)
LEMMA StopReturnsTo ==
  ASSUME Handlers, NEW th \in Thread, handler[th] # <<>>, StopReturns(th)
  PROVE  /\ handler' \in [Thread -> Seq(Frame)] /\ stop_guard' = None
         /\ 1 \in DOMAIN handler[th] /\ Head(handler[th]) = handler[th][1]
         /\ \A i \in DOMAIN handler'[th] :
              /\ i + 1 \in DOMAIN handler[th] /\ i + 1 # 1
              /\ handler'[th][i] = handler[th][i + 1]
         /\ \A i \in DOMAIN handler[th] :
              i # 1 => \E j \in DOMAIN handler'[th] :
                         i = j + 1 /\ handler'[th][j] = handler[th][i]
         /\ \A u \in Thread : u # th => handler'[u] = handler[u]
<1> DEFINE h == handler[th]
           g == Tail(h)
<1>1. h \in Seq(Frame) /\ h # <<>>
  BY DEF Handlers
<1>2. /\ Len(h) \in Nat /\ Len(h) > 0 /\ DOMAIN h = 1..Len(h)
      /\ Head(h) = h[1] /\ g \in Seq(Frame) /\ DOMAIN g = 1..(Len(h) - 1)
      /\ \A i \in 1..(Len(h) - 1) : g[i] = h[i + 1]
  BY <1>1
<1>3. handler' = [handler EXCEPT ![th] = g] /\ stop_guard' = None
  BY DEF StopReturns
<1>4. /\ handler'[th] = g
      /\ \A u \in Thread : u # th => handler'[u] = handler[u]
      /\ handler' \in [Thread -> Seq(Frame)]
  BY <1>2, <1>3 DEF Handlers
<1> HIDE DEF g, h
<1>5. \A i \in DOMAIN h : i # 1 => i - 1 \in DOMAIN g /\ i = (i - 1) + 1
  BY <1>2
<1>6. \A i \in DOMAIN h : i # 1 => \E j \in DOMAIN g : i = j + 1 /\ g[j] = h[i]
  BY <1>2, <1>5
<1>7. \A i \in DOMAIN g : i + 1 \in DOMAIN h /\ i + 1 # 1 /\ g[i] = h[i + 1]
  BY <1>2
<1> QED
  BY <1>2, <1>3, <1>4, <1>6, <1>7 DEF h

(* A signal puts a handler in front of the others, before the lock.        *)
LEMMA SignalTo ==
  ASSUME Handlers, NEW th \in Thread, NEW kind \in Kind, Signal(kind, th),
         handler' # handler
  PROVE  /\ handler' \in [Thread -> Seq(Frame)]
         /\ 1 \in DOMAIN handler'[th] /\ handler'[th][1].at = "enter"
         /\ \A i \in DOMAIN handler[th] :
              i + 1 \in DOMAIN handler'[th] /\ handler'[th][i + 1] = handler[th][i]
         /\ \A i \in DOMAIN handler'[th] :
              i # 1 => \E j \in DOMAIN handler[th] :
                         i = j + 1 /\ handler'[th][i] = handler[th][j]
         /\ \A u \in Thread : u # th => handler'[u] = handler[u]
<1> DEFINE h == handler[th]
           f == [kind |-> kind, at |-> "enter"]
           g == <<f>> \o h
<1>1. h \in Seq(Frame)
  BY DEF Handlers
<1>2. f \in Frame /\ f.at = "enter"
  BY DEF Frame
<1>3. handler' = [handler EXCEPT ![th] = g]
  BY DEF Signal
<1> HIDE DEF f, h
<1>4. /\ g \in Seq(Frame) /\ Len(h) \in Nat /\ DOMAIN h = 1..Len(h)
      /\ DOMAIN g = 1..(Len(h) + 1) /\ g[1] = f
      /\ \A i \in 1..Len(h) : g[i + 1] = h[i]
  BY <1>1, <1>2
<1> HIDE DEF g
<1>5. /\ handler'[th] = g
      /\ \A u \in Thread : u # th => handler'[u] = handler[u]
      /\ handler' \in [Thread -> Seq(Frame)]
  BY <1>3, <1>4 DEF Handlers
<1>6. \A i \in DOMAIN g : i # 1 => i - 1 \in DOMAIN h /\ i = (i - 1) + 1
  BY <1>4
<1>7. \A i \in DOMAIN g : i # 1 => \E j \in DOMAIN h : i = j + 1 /\ g[i] = h[j]
  BY <1>4, <1>6
<1>8. 1 \in DOMAIN g /\ \A i \in DOMAIN h : i + 1 \in DOMAIN g
  BY <1>4
<1> QED
  BY <1>2, <1>4, <1>5, <1>7, <1>8 DEF h

(* Past the lock there is one handler, on the thread stop_guard names.     *)
Guarded ==
  \A t \in Thread : \A i \in At(t, Section) :
    stop_guard = t /\ \A j \in At(t, Section) : i = j

(* A step of stop() inside the section leaves the section as it is.        *)
LEMMA InsideSection ==
  ASSUME Handlers, Guarded, NEW th \in Thread, NEW from \in Section,
         InStop(th, from), NEW to \in Section, StopGoes(th, to),
         stop_guard' = stop_guard
  PROVE  Handlers' /\ Guarded'
<1>1. handler[th] # <<>> /\ Head(handler[th]).at = from
  BY DEF InStop
<1>2. /\ handler' \in [Thread -> Seq(Frame)]
      /\ DOMAIN handler'[th] = DOMAIN handler[th]
      /\ 1 \in DOMAIN handler[th] /\ Head(handler[th]) = handler[th][1]
      /\ handler'[th][1].at = to
      /\ \A i \in DOMAIN handler[th] :
           i # 1 => handler'[th][i] = handler[th][i]
      /\ \A u \in Thread : u # th => handler'[u] = handler[u]
  BY <1>1, StopGoesTo DEF Steps
<1>3. At(th, Section)' = At(th, Section)
  BY <1>1, <1>2 DEF At
<1>4. \A u \in Thread : u # th => At(u, Section)' = At(u, Section)
  BY <1>2 DEF At
<1>5. \A t \in Thread : At(t, Section)' = At(t, Section)
  BY <1>3, <1>4
<1> QED
  BY <1>2, <1>5 DEF Handlers, Guarded

(* The way out of the section leaves it empty.                             *)
LEMMA OutOfSection ==
  ASSUME Handlers, Guarded, NEW th \in Thread, NEW from \in Section,
         InStop(th, from), StopReturns(th)
  PROVE  Handlers' /\ Guarded'
<1>1. handler[th] # <<>> /\ Head(handler[th]).at = from
  BY DEF InStop
<1>2. /\ handler' \in [Thread -> Seq(Frame)] /\ stop_guard' = None
      /\ 1 \in DOMAIN handler[th] /\ Head(handler[th]) = handler[th][1]
      /\ \A i \in DOMAIN handler'[th] :
           /\ i + 1 \in DOMAIN handler[th] /\ i + 1 # 1
           /\ handler'[th][i] = handler[th][i + 1]
      /\ \A u \in Thread : u # th => handler'[u] = handler[u]
  BY <1>1, StopReturnsTo
<1>3. 1 \in At(th, Section)
  BY <1>1, <1>2 DEF At
<1>4. At(th, Section)' = {}
  BY <1>2, <1>3 DEF At, Guarded
<1>5. \A u \in Thread : u # th => At(u, Section)' = {}
  BY <1>2, <1>3 DEF At, Guarded
<1> QED
  BY <1>2, <1>4, <1>5 DEF Handlers, Guarded

(* The mutex stays with the one frame that is past lock_guard, also when a *)
(* signal puts a new frame on top of it.                                   *)
LEMMA GuardedStep == Handlers /\ Guarded /\ [Next]_vars => Handlers' /\ Guarded'
<1> SUFFICES ASSUME Handlers, Guarded, [Next]_vars
             PROVE  Handlers' /\ Guarded'
  OBVIOUS
<1>1. CASE UNCHANGED <<handler, stop_guard>>
  BY <1>1 DEF Handlers, Guarded, At
<1>2. ASSUME NEW th \in Thread, LockGuard(th) PROVE Handlers' /\ Guarded'
  <2>1. /\ handler[th] # <<>> /\ Head(handler[th]).at = "enter"
        /\ stop_guard = None /\ stop_guard' = th /\ StopGoes(th, "locked")
    BY <1>2 DEF LockGuard, InStop, MayLock
  <2>2. /\ handler' \in [Thread -> Seq(Frame)]
        /\ DOMAIN handler'[th] = DOMAIN handler[th]
        /\ \A i \in DOMAIN handler[th] :
             i # 1 => handler'[th][i] = handler[th][i]
        /\ \A u \in Thread : u # th => handler'[u] = handler[u]
    BY <2>1, StopGoesTo DEF Steps, Section
  <2>3. \A t \in Thread : At(t, Section) = {}
    BY <2>1, GroupAssumption DEF Guarded
  <2>4. \A u \in Thread : u # th => At(u, Section)' = {}
    BY <2>2, <2>3 DEF At
  <2>5. At(th, Section)' \subseteq {1}
    BY <2>2, <2>3 DEF At
  <2> QED
    BY <2>1, <2>2, <2>4, <2>5 DEF Handlers, Guarded
<1>3. ASSUME NEW th \in Thread, TestFlag(th) PROVE Handlers' /\ Guarded'
  <2>1. CASE StopGoes(th, "close") /\ UNCHANGED stop_guard
    BY <1>3, <2>1, InsideSection DEF TestFlag, Section
  <2>2. CASE StopReturns(th)
    BY <1>3, <2>2, OutOfSection DEF TestFlag, Section
  <2> QED
    BY <1>1, <1>3, <2>1, <2>2 DEF TestFlag
<1>4. ASSUME NEW th \in Thread, Close(th) PROVE Handlers' /\ Guarded'
  BY <1>4, InsideSection DEF Close, Section
<1>5. ASSUME NEW th \in Thread, PostStop(th) PROVE Handlers' /\ Guarded'
  BY <1>5, InsideSection DEF PostStop, Section, flagVars
<1>6. ASSUME NEW th \in Thread, JoinAll(th) PROVE Handlers' /\ Guarded'
  <2>1. CASE StopReturns(th)
    BY <1>6, <2>1, OutOfSection DEF JoinAll, Section
  <2> QED
    BY <1>1, <1>6, <2>1 DEF JoinAll
<1>7. ASSUME NEW th \in Thread, NEW kind \in Kind, Signal(kind, th)
      PROVE  Handlers' /\ Guarded'
  <2>1. stop_guard' = stop_guard
    BY <1>7 DEF Signal, flagVars
  <2>2. CASE handler' # handler
    <3>1. /\ handler' \in [Thread -> Seq(Frame)]
          /\ 1 \in DOMAIN handler'[th] /\ handler'[th][1].at = "enter"
          /\ \A i \in DOMAIN handler'[th] :
               i # 1 => \E j \in DOMAIN handler[th] :
                          i = j + 1 /\ handler'[th][i] = handler[th][j]
          /\ \A u \in Thread : u # th => handler'[u] = handler[u]
      BY <1>7, <2>2, SignalTo
    <3>2. \A i \in At(th, Section)' :
            \E j \in At(th, Section) : i = j + 1
      BY <3>1 DEF At, Section
    <3>3. \A u \in Thread : u # th => At(u, Section)' = At(u, Section)
      BY <3>1 DEF At
    <3>4. \A i \in At(th, Section)' :
            stop_guard = th /\ \A j \in At(th, Section)' : i = j
      BY <3>2 DEF Guarded
    <3> QED
      BY <2>1, <3>1, <3>3, <3>4 DEF Handlers, Guarded
  <2> QED
    BY <1>1, <2>1, <2>2
<1>8. ASSUME NEW th \in Thread, Resume(th) PROVE UNCHANGED <<handler, stop_guard>>
  BY <1>8 DEF Resume, signalVars, flagVars
<1>9. ASSUME \/ MainStep \/ \E w \in Worker : WorkerRuns(w)
             \/ QueryRuns \/ Ask \/ Forward \/ UNCHANGED vars
      PROVE  UNCHANGED <<handler, stop_guard>>
  BY <1>9 DEF MainStep, ProcessLoop, Create, PushThread, WorkerRuns, QueryRuns,
              Ask, Forward, vars, signalVars, flagVars
<1> QED
  BY <1>1, <1>2, <1>3, <1>4, <1>5, <1>6, <1>7, <1>8, <1>9 DEF Next, StopStep

-----------------------------------------------------------------------------
(* The flags, the mail and the counters.                                   *)
LEMMA RestStep == Rest /\ [Next]_vars => Rest'
<1> SUFFICES ASSUME Rest, [Next]_vars PROVE Rest'
  OBVIOUS
<1>1. ASSUME NEW th \in Thread, StopStep(th) PROVE Rest'
  <2>1. CASE PostStop(th)
    BY <2>1 DEF PostStop, Rest, Subscribed, flagVars
  <2>2. CASE ~PostStop(th)
    BY <1>1, <2>2 DEF StopStep, LockGuard, TestFlag, Close, Lowered, JoinAll,
                      Rest, stopVars
  <2> QED
    BY <2>1, <2>2
<1>2. ASSUME NEW th \in Thread,
             Resume(th) \/ \E kind \in Kind : Signal(kind, th)
      PROVE  Rest'
  <2>1. CASE Resume(th)
    BY <2>1 DEF Resume, Rest, flagVars, signalVars, stopVars
  <2>2. ASSUME NEW kind \in Kind, Signal(kind, th) PROVE Rest'
    <3>1. /\ signals' = signals + 1 /\ signals < MaxSignal
          /\ stray' \in BOOLEAN
          /\ UNCHANGED <<continue_processing, registered, post, inbox, aborted>>
      BY <2>2 DEF Signal, flagVars, stopVars
    <3>2. signals' \in 0..MaxSignal
      BY <3>1, GroupAssumption DEF Rest
    <3> QED
      BY <3>1, <3>2 DEF Rest
  <2> QED
    BY <1>2, <2>1, <2>2
<1>3. CASE Forward
  <2>1. /\ inbox' \subseteq Worker
        /\ post' \in [waiting : BOOLEAN, reach : SUBSET Worker]
    BY <1>3 DEF Forward, Rest, Subscribed
  <2> QED
    BY <1>3, <2>1 DEF Forward, Rest, flagVars, signalVars
<1>4. ASSUME NEW w \in Worker, WorkerRuns(w) PROVE Rest'
  BY <1>4 DEF WorkerRuns, Rest, flagVars, signalVars
<1>5. CASE MainStep \/ QueryRuns \/ Ask \/ UNCHANGED vars
  BY <1>5 DEF MainStep, ProcessLoop, Create, PushThread, QueryRuns, Ask, Rest,
              vars, flagVars, signalVars, stopVars
<1> QED
  BY <1>1, <1>2, <1>3, <1>4, <1>5 DEF Next

-----------------------------------------------------------------------------
(***************************************************************************)
(* STOP on its way.                                                        *)
(***************************************************************************)
Posting == \E th \in Thread : At(th, {"post"}) # {}

(* A handler that is about to post STOP is still there after any step but  *)
(* its own.                                                                *)
LEMMA PostingStays ==
  ASSUME Handlers, Posting, [Next]_vars,
         \A th \in Thread : ~PostStop(th)
  PROVE  Posting'
<1>1. PICK p \in Thread : At(p, {"post"}) # {}
  BY DEF Posting
<1>2. PICK i \in DOMAIN handler[p] : handler[p][i].at = "post"
  BY <1>1 DEF At
<1>3. CASE UNCHANGED handler
  BY <1>3 DEF Posting, At
<1>4. ASSUME \E j \in DOMAIN handler'[p] : handler'[p][j] = handler[p][i]
      PROVE  Posting'
  BY <1>2, <1>4 DEF Posting, At
<1>5. ASSUME NEW th \in Thread, NEW from \in Steps \ {"post"},
             NEW to \in Steps, InStop(th, from), StopGoes(th, to)
      PROVE  Posting'
  <2>1. handler[th] # <<>> /\ Head(handler[th]).at = from
    BY <1>5 DEF InStop
  <2>2. /\ DOMAIN handler'[th] = DOMAIN handler[th]
        /\ Head(handler[th]) = handler[th][1]
        /\ \A j \in DOMAIN handler[th] :
             j # 1 => handler'[th][j] = handler[th][j]
        /\ \A u \in Thread : u # th => handler'[u] = handler[u]
    BY <1>5, <2>1, StopGoesTo
  <2>3. p # th \/ i # 1
    BY <1>2, <2>1, <2>2
  <2> QED
    BY <1>2, <1>4, <2>2, <2>3
<1>6. ASSUME NEW th \in Thread, NEW from \in Steps \ {"post"},
             InStop(th, from), StopReturns(th)
      PROVE  Posting'
  <2>1. handler[th] # <<>> /\ Head(handler[th]).at = from
    BY <1>6 DEF InStop
  <2>2. /\ Head(handler[th]) = handler[th][1]
        /\ \A j \in DOMAIN handler[th] :
             j # 1 => \E k \in DOMAIN handler'[th] :
                        j = k + 1 /\ handler'[th][k] = handler[th][j]
        /\ \A u \in Thread : u # th => handler'[u] = handler[u]
    BY <1>6, <2>1, StopReturnsTo
  <2>3. p # th \/ i # 1
    BY <1>2, <2>1, <2>2
  <2> QED
    BY <1>2, <1>4, <2>2, <2>3
<1>7. ASSUME NEW th \in Thread, NEW kind \in Kind, Signal(kind, th),
             handler' # handler
      PROVE  Posting'
  <2>1. /\ \A j \in DOMAIN handler[th] : /\ j + 1 \in DOMAIN handler'[th]
                                       /\ handler'[th][j + 1] = handler[th][j]
        /\ \A u \in Thread : u # th => handler'[u] = handler[u]
    BY <1>7, SignalTo
  <2> QED
    BY <1>2, <1>4, <2>1
<1>8. ASSUME NEW th \in Thread, StopStep(th) PROVE Posting'
  <2>1. CASE LockGuard(th)
    BY <2>1, <1>5 DEF LockGuard, Steps, Section
  <2>2. CASE TestFlag(th)
    BY <2>2, <1>3, <1>5, <1>6 DEF TestFlag, Steps, Section
  <2>3. CASE Close(th)
    BY <2>3, <1>5 DEF Close, Steps, Section
  <2>4. CASE JoinAll(th)
    BY <2>4, <1>3, <1>6 DEF JoinAll, Steps, Section
  <2> QED
    BY <1>8, <2>1, <2>2, <2>3, <2>4 DEF StopStep
<1>9. ASSUME \/ MainStep \/ \E w \in Worker : WorkerRuns(w)
             \/ QueryRuns \/ Ask \/ Forward \/ UNCHANGED vars
             \/ \E th \in Thread : Resume(th)
      PROVE  UNCHANGED handler
  BY <1>9 DEF MainStep, ProcessLoop, Create, PushThread, WorkerRuns, QueryRuns,
              Ask, Forward, Resume, vars, signalVars
<1> QED
  BY <1>3, <1>7, <1>8, <1>9 DEF Next

(* The flag is never raised; a worker comes to recv only while it is up,   *)
(* and the proxy, once it has ended, does not come back.                   *)
LEMMA ToRecv ==
  ASSUME Places, [Next]_vars, NEW w \in Worker, at'[w] = "recv"
  PROVE  at[w] = "recv" \/ continue_processing
<1> USE ThreadsDiffer DEF Places
<1>1. ASSUME NEW th \in Worker \cup {Query}, Create(th) PROVE at'[w] = at[w]
  <2>1. /\ at' = [at EXCEPT ![Main] = "push",
                            ![th] = IF th = Query THEN "check" ELSE "subscribe"]
        /\ th \in Thread
    BY <1>1 DEF Create, Following
  <2>2. th = w => at'[w] = "subscribe"
    BY <2>1
  <2> QED
    BY <2>1, <2>2
<1>2. ASSUME NEW th \in Worker \cup {Query}, PushThread(th) PROVE at'[w] = at[w]
  BY <1>2, GoesTo DEF PushThread
<1>3. CASE ProcessLoop
  BY <1>3, GoesTo DEF ProcessLoop
<1>4. ASSUME NEW v \in Worker, WorkerRuns(v)
      PROVE  at'[w] = at[w] \/ continue_processing
  <2>1. CASE Goes(v, "subscribe", "check")
    BY <2>1, GoesTo
  <2>2. CASE Goes(v, "check", IF continue_processing THEN "recv" ELSE "ended")
    BY <2>2, GoesTo
  <2>3. CASE Goes(v, "recv", "check")
    BY <2>3, GoesTo
  <2> QED
    BY <1>4, <2>1, <2>2, <2>3 DEF WorkerRuns, Following
<1>5. CASE QueryRuns \/ Ask
  BY <1>5, GoesTo DEF QueryRuns, Ask
<1>6. ASSUME NEW th \in Thread, Resume(th) PROVE at'[w] = at[w]
  BY <1>6, GoesTo DEF Resume
<1>7. ASSUME NEW th \in Thread, NEW kind \in Kind, Signal(kind, th)
      PROVE  at'[w] = at[w]
  <2>1. PICK next \in BrokenOff(th) : at' = [at EXCEPT ![th] = next]
    BY <1>7 DEF Signal
  <2>2. next = at[th] \/ next = "interrupted"
    BY <2>1 DEF BrokenOff
  <2> QED
    BY <2>1, <2>2
<1>8. ASSUME Forward \/ UNCHANGED vars \/ \E th \in Thread : StopStep(th)
      PROVE  at' = at
  BY <1>8 DEF Forward, vars, StopStep, LockGuard, TestFlag, Close, PostStop,
              JoinAll
<1> QED
  BY <1>1, <1>2, <1>3, <1>4, <1>5, <1>6, <1>7, <1>8 DEF Next, MainStep

(* The proxy never comes back to forwarding.                               *)
LEMMA ProxyStays ==
  ASSUME Places, [Next]_vars, at'[Proxy] = "forward"
  PROVE  at[Proxy] = "forward"
<1> USE ThreadsDiffer DEF Places
<1>1. ASSUME NEW th \in Worker \cup {Query}, Create(th)
      PROVE  at'[Proxy] = at[Proxy]
  BY <1>1 DEF Create
<1>2. ASSUME NEW th \in Worker \cup {Query}, PushThread(th)
      PROVE  at'[Proxy] = at[Proxy]
  BY <1>2, GoesTo DEF PushThread
<1>3. CASE ProcessLoop
  BY <1>3, GoesTo DEF ProcessLoop
<1>4. ASSUME NEW v \in Worker, WorkerRuns(v) PROVE at'[Proxy] = at[Proxy]
  <2>1. PICK from, to \in {"subscribe", "check", "recv", "ended"} :
         Goes(v, from, to)
    BY <1>4 DEF WorkerRuns, Following
  <2> QED
    BY <2>1, GoesTo
<1>5. CASE QueryRuns \/ Ask
  BY <1>5, GoesTo DEF QueryRuns, Ask
<1>6. ASSUME NEW th \in Thread, Resume(th) PROVE at'[Proxy] = at[Proxy]
  BY <1>6, GoesTo DEF Resume
<1>7. ASSUME NEW th \in Thread, NEW kind \in Kind, Signal(kind, th)
      PROVE  at'[Proxy] = at[Proxy]
  <2>1. PICK next \in BrokenOff(th) : at' = [at EXCEPT ![th] = next]
    BY <1>7 DEF Signal
  <2>2. next = at[th] \/ next = "interrupted"
    BY <2>1 DEF BrokenOff
  <2> QED
    BY <2>1, <2>2
<1>8. ASSUME Forward \/ UNCHANGED vars \/ \E th \in Thread : StopStep(th)
      PROVE  at' = at
  BY <1>8 DEF Forward, vars, StopStep, LockGuard, TestFlag, Close, PostStop,
              JoinAll
<1> QED
  BY <1>1, <1>2, <1>3, <1>4, <1>5, <1>6, <1>7, <1>8 DEF Next, MainStep

(* A worker that goes into recv after the flag is down is one that STOP    *)
(* reaches.                                                                *)
LEMMA OnItsWayStep ==
  Places /\ Handlers /\ StopOnItsWay /\ [Next]_vars => StopOnItsWay'
<1> SUFFICES ASSUME Places, Handlers, StopOnItsWay, [Next]_vars,
                    NEW w \in Worker, at'[w] = "recv",
                    ~continue_processing', at'[Proxy] = "forward"
             PROVE  \/ w \in inbox'
                    \/ post'.waiting /\ w \in post'.reach
                    \/ Posting'
  BY DEF StopOnItsWay, Posting
<1> USE ThreadsDiffer
<1>1. ASSUME NEW th \in Thread, Close(th) PROVE Posting'
  <2>1. /\ handler[th] # <<>> /\ StopGoes(th, "post")
    BY <1>1 DEF Close, InStop
  <2>2. /\ DOMAIN handler'[th] = DOMAIN handler[th]
        /\ 1 \in DOMAIN handler[th] /\ handler'[th][1].at = "post"
    BY <2>1, StopGoesTo DEF Steps, Section
  <2> QED
    BY <2>2 DEF Posting, At
<1>2. CASE \A th \in Thread : ~Close(th)
  <2>1. ~continue_processing
    BY <1>2 DEF Next, MainStep, StopStep, ProcessLoop, Create, PushThread,
                WorkerRuns, QueryRuns, Ask, Forward, LockGuard, TestFlag,
                PostStop, JoinAll, Resume, Signal, flagVars, vars
  <2>2. at[w] = "recv" /\ at[Proxy] = "forward"
    BY <2>1, ToRecv, ProxyStays
  <2>3. \/ w \in inbox
        \/ post.waiting /\ w \in post.reach
        \/ Posting
    BY <2>1, <2>2 DEF StopOnItsWay, Posting
  <2>4. ASSUME NEW th \in Thread, PostStop(th)
        PROVE  post'.waiting /\ w \in post'.reach
    BY <2>2, <2>4 DEF PostStop, Subscribed
  <2>5. CASE \A th \in Thread : ~PostStop(th)
    <3>1. CASE Posting
      BY <2>5, <3>1, PostingStays
    <3>2. CASE Forward
      BY <2>3, <3>1, <3>2 DEF Forward
    <3>3. ASSUME NEW v \in Worker, WorkerRuns(v)
          PROVE  post' = post /\ (w \in inbox => w \in inbox')
      <4>1. CASE inbox' = inbox
        BY <3>3, <4>1 DEF WorkerRuns
      <4>2. CASE Goes(v, "recv", "check") /\ inbox' = inbox \ {v}
        <5>1. v # w
          BY <4>2, GoesTo DEF Places
        <5> QED
          BY <3>3, <4>2, <5>1 DEF WorkerRuns
      <4> QED
        BY <3>3, <4>1, <4>2 DEF WorkerRuns
    <3>4. CASE UNCHANGED stopVars
      BY <2>3, <3>1, <3>4 DEF stopVars
    <3>5. ASSUME \/ MainStep \/ QueryRuns \/ Ask \/ UNCHANGED vars
                 \/ \E th \in Thread :
                      \/ StopStep(th) \/ Resume(th)
                      \/ \E kind \in Kind : Signal(kind, th)
          PROVE  UNCHANGED stopVars
      BY <2>5, <3>5 DEF MainStep, StopStep, ProcessLoop, Create, PushThread,
         QueryRuns, Ask, LockGuard, TestFlag, Close, JoinAll, Resume, Signal,
         stopVars, vars
    <3> QED
      BY <2>3, <3>1, <3>2, <3>3, <3>4, <3>5 DEF Next
  <2> QED
    BY <2>4, <2>5
<1> QED
  BY <1>1, <1>2

-----------------------------------------------------------------------------
(* The inductive invariant: the types, the mutex, and STOP on its way.     *)
IInv == TypeOK /\ Guarded /\ StopOnItsWay

(* Every reachable state satisfies the invariant.                          *)
THEOREM Invariance == Spec => []IInv
<1>1. Init => IInv
  <2> SUFFICES ASSUME Init PROVE IInv
    OBVIOUS
  <2>1. Vector /\ Rest
    <3>1. post \in [waiting : BOOLEAN, reach : SUBSET Worker]
      BY DEF Init
    <3>2. Vector
      BY DEF Init, Vector
    <3>3. 0 \in 0..MaxSignal
      BY GroupAssumption
    <3> QED
      BY <3>1, <3>2, <3>3 DEF Init, Rest
  <2>2. Handlers
    BY DEF Init, Handlers
  <2>3. Guarded
    BY DEF Init, Guarded, At
  <2>4. StopOnItsWay
    BY DEF Init, StopOnItsWay
  <2> QED
    BY <2>1, <2>2, <2>3, <2>4, PlacesInit, TypeParts DEF IInv
<1>2. IInv /\ [Next]_vars => IInv'
  <2> SUFFICES ASSUME IInv, [Next]_vars PROVE IInv'
    OBVIOUS
  <2>1. Places /\ Vector /\ Handlers /\ Rest /\ Guarded /\ StopOnItsWay
    BY TypeParts DEF IInv
  <2>2. Places' /\ Vector' /\ Handlers' /\ Rest' /\ Guarded' /\ StopOnItsWay'
    BY <2>1, PlacesStep, VectorStep, GuardedStep, RestStep, OnItsWayStep
  <2>3. TypeOK'
    BY <2>2 DEF TypeOK, Places, Vector, Handlers, Rest
  <2> QED
    BY <2>2, <2>3 DEF IInv
<1> QED
  BY <1>1, <1>2, PTL DEF Spec

(* The types hold in every state.                                          *)
THEOREM TypeCorrect == Spec => []TypeOK
<1>1. IInv => TypeOK
  BY DEF IInv
<1> QED
  BY <1>1, Invariance, PTL

(* For any number of threads and signals, nested or not, one stop() at a   *)
(* time proceeds, as the comment at manager.cpp:18 has it.                 *)
THEOREM StopsExclude == Spec => []OneStopAtATime
<1>1. IInv => OneStopAtATime
  BY DEF IInv, Guarded, OneStopAtATime, At, Section
<1> QED
  BY <1>1, Invariance, PTL

(* For any number of workers, none waits for a STOP that is not coming,    *)
(* wherever the signal found it in run().                                  *)
THEOREM StopComes == Spec => []StopOnItsWay
<1>1. IInv => StopOnItsWay
  BY DEF IInv
<1> QED
  BY <1>1, Invariance, PTL
=============================================================================
