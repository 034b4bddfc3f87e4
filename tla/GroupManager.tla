---------------------------- MODULE GroupManager ----------------------------
(***************************************************************************)
(* The threads of a group and how they stop (src/src/group/manager.h,      *)
(* manager.cpp, client.cpp; src/src/lib/plane/cpp/control.cpp).            *)
(*                                                                         *)
(* main calls start(), which creates a worker for each cell and the thread *)
(* that takes queries, and then process(), whose rounds are the subject of *)
(* Discovery.  SIGINT and SIGTERM run stop() on some thread: it clears     *)
(* continue_processing, posts STOP to the control plane and joins the      *)
(* threads.  A proxy thread of the control plane hands STOP to the workers *)
(* that have subscribed.  (main.cpp has the call of start() commented out; *)
(* this is the class with its calls as manager.h describes them.)          *)
(*                                                                         *)
(* What is known of ZeroMQ and of signals: recv blocks until there is a    *)
(* message, and throws if a signal interrupts it; a second recv on a REP   *)
(* socket that has not replied throws; a subscription made before STOP is  *)
(* posted counts, a later one may.  A signal goes to the main thread, or   *)
(* to some other one while main handles a signal of that kind.  What is    *)
(* thrown in a thread ends the process.  A handler comes between two       *)
(* actions of a thread: that it may also interrupt push_back, or do what   *)
(* is not safe in a handler, is left out.                                  *)
(***************************************************************************)
EXTENDS Naturals, Sequences

CONSTANTS
  Workers,            (* hardware_concurrency(): threads with a cell       *)
  Main, Query, Proxy, (* the other threads                                 *)
  None,               (* no thread                                         *)
  Kind,               (* kinds of signals: SIGINT, SIGTERM                 *)
  MaxSignal           (* bound: signals that are delivered                 *)

Worker == 1..Workers
Thread == Worker \cup {Main, Query, Proxy}

ASSUME GroupAssumption ==
  /\ Workers \in Nat
  /\ Main # Query /\ Main # Proxy /\ Query # Proxy
  /\ {Main, Query, Proxy} \cap Worker = {}
  /\ None \notin Thread
  /\ MaxSignal \in Nat

VARIABLES
  at,                   (* where each thread is                            *)
  threads,              (* the vector of threads, in order of creation     *)
  continue_processing,
  registered,           (* whether _manager is set                         *)
  stop_guard,           (* the thread that has locked it, or None          *)
  handler,              (* for each thread, the signal handlers it is in,  *)
                        (* the innermost first                             *)
  post,                 (* whether STOP is at the proxy, and who is certain*)
                        (* to get it                                       *)
  inbox,                (* the workers with STOP waiting for them          *)
  aborted,              (* an exception has ended the process              *)
  signals,              (* how many signals were delivered                 *)
  stray                 (* history: one of them not to the main thread     *)

flagVars == <<continue_processing, registered, stop_guard>>
stopVars == <<post, inbox>>
signalVars == <<handler, signals, stray>>
vars == <<at, threads, flagVars, signalVars, stopVars, aborted>>

Frame == [kind : Kind, at : {"enter", "locked", "close", "post", "join"}]

TypeOK ==
  /\ DOMAIN at = Thread
  /\ at[Main] \in {"start", "push", "check", "round", "done"}
  /\ \A w \in Worker :
       at[w] \in {"none", "subscribe", "check", "recv", "interrupted", "ended"}
  /\ at[Query] \in {"none", "check", "recv", "again", "interrupted", "ended"}
  /\ at[Proxy] \in {"forward", "interrupted", "ended"}
  /\ threads \in Seq(Worker \cup {Query})
  /\ \A i, j \in DOMAIN threads : threads[i] = threads[j] => i = j
  /\ continue_processing \in BOOLEAN /\ registered \in BOOLEAN
  /\ stop_guard \in Thread \cup {None}
  /\ handler \in [Thread -> Seq(Frame)]
  /\ post \in [waiting : BOOLEAN, reach : SUBSET Worker]
  /\ inbox \subseteq Worker
  /\ aborted \in BOOLEAN /\ stray \in BOOLEAN
  /\ signals \in 0..MaxSignal

Init ==
  /\ at = [th \in Thread |->
             CASE th = Main -> "start"
               [] th = Proxy -> "forward"
               [] OTHER -> "none"]
  /\ threads = <<>>
  /\ continue_processing = TRUE /\ registered = TRUE
  /\ stop_guard = None
  /\ handler = [th \in Thread |-> <<>>]
  /\ post = [waiting |-> FALSE, reach |-> {}]
  /\ inbox = {}
  /\ aborted = FALSE /\ stray = FALSE
  /\ signals = 0

Goes(th, from, to) ==
  /\ at[th] = from
  /\ at' = [at EXCEPT ![th] = to]

(* th executes its own code: no handler runs on it.                        *)
Runs(th) == ~aborted /\ handler[th] = <<>>

-----------------------------------------------------------------------------
(***************************************************************************)
(* start() and process().  A thread runs before it is in the vector.       *)
(***************************************************************************)
(* Faulty: a worker subscribes after it has looked at the flag.            *)
FaultyFollowing ==
  [created |-> "check", check |-> "subscribe", subscribe |-> "recv"]

Following == [created |-> "subscribe", subscribe |-> "check", check |-> "recv"]

Create(th) ==
  /\ Runs(Main)
  /\ at[Main] = "start" /\ at[th] = "none"
  /\ \A w \in Worker : th = Query \/ w < th => at[w] # "none"
  /\ at' = [at EXCEPT ![Main] = "push",
                      ![th] = IF th = Query THEN "check"
                              ELSE Following["created"]]
  /\ UNCHANGED <<threads, flagVars, signalVars, stopVars, aborted>>

(* Faulty: a thread is put into the vector twice.                          *)
FaultyPushed(th) == threads \o <<th, th>>

Pushed(th) == Append(threads, th)

PushThread(th) ==
  /\ Runs(Main)
  /\ at[th] # "none"
  /\ \A i \in DOMAIN threads : threads[i] # th
  /\ threads' = Pushed(th)
  /\ Goes(Main, "push", IF th = Query THEN "check" ELSE "start")
  /\ UNCHANGED <<flagVars, signalVars, stopVars, aborted>>

(* A round is announce(), listen() and a second of sleep.                  *)
ProcessLoop ==
  /\ Runs(Main)
  /\ \/ Goes(Main, "check", IF continue_processing THEN "round" ELSE "done")
     \/ Goes(Main, "round", "check")
  /\ UNCHANGED <<threads, flagVars, signalVars, stopVars, aborted>>

-----------------------------------------------------------------------------
(***************************************************************************)
(* The workers, the thread that takes queries, and the proxy.              *)
(***************************************************************************)
Subscribed == {w \in Worker : at[w] \notin {"none", "subscribe"}}

WorkerRuns(w) ==
  /\ Runs(w)
  /\ \/ Goes(w, "subscribe", Following["subscribe"]) /\ UNCHANGED inbox
     \/ /\ Goes(w, "check",
                IF continue_processing THEN Following["check"] ELSE "ended")
        /\ UNCHANGED inbox
     \/ /\ w \in inbox
        /\ Goes(w, "recv", "check")
        /\ inbox' = inbox \ {w}
  /\ UNCHANGED <<threads, flagVars, signalVars, post, aborted>>

(* A query has been taken off the socket and was not answered.             *)
QueryRuns ==
  /\ Runs(Query)
  /\ \/ /\ Goes(Query, "check", IF continue_processing THEN "recv" ELSE "ended")
        /\ UNCHANGED aborted
     \/ IF continue_processing
          THEN at[Query] = "again" /\ aborted' = TRUE /\ UNCHANGED at
          ELSE Goes(Query, "again", "ended") /\ UNCHANGED aborted
  /\ UNCHANGED <<threads, flagVars, signalVars, stopVars>>

(* A client sends a query.                                                 *)
Ask ==
  /\ Runs(Query)
  /\ Goes(Query, "recv", "again")
  /\ UNCHANGED <<threads, flagVars, signalVars, stopVars, aborted>>

Forward ==
  /\ Runs(Proxy)
  /\ at[Proxy] = "forward"
  /\ post.waiting
  /\ \E late \in SUBSET (Subscribed \ post.reach) :
       inbox' = inbox \cup post.reach \cup late
  /\ post' = [post EXCEPT !.waiting = FALSE]
  /\ UNCHANGED <<at, threads, flagVars, signalVars, aborted>>

-----------------------------------------------------------------------------
(***************************************************************************)
(* Signals.                                                                *)
(***************************************************************************)
(* The kernel does not interrupt a thread for a kind it is handling.       *)
Open(th, kind) ==
  /\ at[th] \notin {"none", "ended", "done"}
  /\ \A i \in DOMAIN handler[th] : handler[th][i].kind # kind

(* A signal may break off recv and the poll of the proxy.                  *)
BrokenOff(th) ==
  IF at[th] \in {"recv", "forward"} /\ handler[th] = <<>>
    THEN {at[th], "interrupted"}
    ELSE {at[th]}

(* sig_term_handler: stop() is called if _manager is set.                  *)
Signal(kind, th) ==
  /\ ~aborted
  /\ at[Main] # "done"
  /\ signals < MaxSignal
  /\ Open(th, kind)
  /\ Open(Main, kind) => th = Main
  /\ signals' = signals + 1
  /\ stray' = (stray \/ th # Main)
  /\ handler' = IF registered
       THEN [handler EXCEPT ![th] = <<[kind |-> kind, at |-> "enter"]>> \o @]
       ELSE handler
  /\ \E next \in BrokenOff(th) : at' = [at EXCEPT ![th] = next]
  /\ UNCHANGED <<threads, flagVars, stopVars, aborted>>

(* Back from the handler: recv throws, zmq_proxy returns.                  *)
Resume(th) ==
  /\ Runs(th)
  /\ IF th = Proxy
       THEN Goes(Proxy, "interrupted", "ended") /\ UNCHANGED aborted
       ELSE at[th] = "interrupted" /\ aborted' = TRUE /\ UNCHANGED at
  /\ UNCHANGED <<threads, flagVars, signalVars, stopVars>>

-----------------------------------------------------------------------------
(***************************************************************************)
(* stop(), on the thread of the handler.                                   *)
(***************************************************************************)
InStop(th, step) ==
  /\ ~aborted
  /\ handler[th] # <<>>
  /\ Head(handler[th]).at = step

StopGoes(th, step) ==
  handler' = [handler EXCEPT ![th] = <<[@[1] EXCEPT !.at = step]>> \o Tail(@)]

StopReturns(th) ==
  /\ handler' = [handler EXCEPT ![th] = Tail(@)]
  /\ stop_guard' = None

(* Faulty: stop_guard is not taken.                                        *)
FaultyMayLock(th) == TRUE

(* A thread that has the mutex waits for it like any other.                *)
MayLock(th) == stop_guard = None

LockGuard(th) ==
  /\ InStop(th, "enter")
  /\ MayLock(th)
  /\ stop_guard' = th
  /\ StopGoes(th, "locked")
  /\ UNCHANGED <<at, threads, continue_processing, registered, signals, stray,
                 stopVars, aborted>>

(* The handler reads _manager twice; the second time it may be null, and   *)
(* then there is no flag to read.                                          *)
TestFlag(th) ==
  /\ InStop(th, "locked")
  /\ IF continue_processing
       THEN StopGoes(th, "close") /\ UNCHANGED <<stop_guard, aborted>>
     ELSE \/ StopReturns(th) /\ UNCHANGED aborted
          \/ /\ ~registered
             /\ aborted' = TRUE
             /\ UNCHANGED <<handler, stop_guard>>
  /\ UNCHANGED <<at, threads, continue_processing, registered, signals, stray,
                 stopVars>>

(* Faulty: the flag is left set.                                           *)
FaultyLowered == continue_processing

Lowered == FALSE

Close(th) ==
  /\ InStop(th, "close")
  /\ registered' = FALSE
  /\ continue_processing' = Lowered
  /\ StopGoes(th, "post")
  /\ UNCHANGED <<at, threads, stop_guard, signals, stray, stopVars, aborted>>

PostStop(th) ==
  /\ InStop(th, "post")
  /\ post' = [waiting |-> TRUE, reach |-> Subscribed]
  /\ StopGoes(th, "join")
  /\ UNCHANGED <<at, threads, flagVars, signals, stray, inbox, aborted>>

(* The threads of the vector are joined in order; joining oneself throws.  *)
JoinAll(th) ==
  LET joined(i) == at[threads[i]] = "ended"
  IN  /\ InStop(th, "join")
      /\ \/ /\ \A i \in DOMAIN threads : joined(i)
            /\ StopReturns(th)
            /\ UNCHANGED aborted
         \/ /\ \E i \in DOMAIN threads :
                 threads[i] = th /\ \A j \in 1..(i - 1) : joined(j)
            /\ aborted' = TRUE
            /\ UNCHANGED <<handler, stop_guard>>
      /\ UNCHANGED <<at, threads, continue_processing, registered, signals,
                     stray, stopVars>>

-----------------------------------------------------------------------------
MainStep ==
  ProcessLoop \/ \E th \in Worker \cup {Query} : Create(th) \/ PushThread(th)

StopStep(th) ==
  LockGuard(th) \/ TestFlag(th) \/ Close(th) \/ PostStop(th) \/ JoinAll(th)

Next ==
  \/ MainStep
  \/ \E w \in Worker : WorkerRuns(w)
  \/ QueryRuns \/ Ask \/ Forward
  \/ \E th \in Thread :
       StopStep(th) \/ Resume(th) \/ \E kind \in Kind : Signal(kind, th)

(* The scheduler runs every thread that can run.  Signals and queries need *)
(* not come.                                                               *)
Fairness ==
  /\ WF_vars(MainStep) /\ WF_vars(QueryRuns) /\ WF_vars(Forward)
  /\ \A w \in Worker : WF_vars(WorkerRuns(w))
  /\ \A th \in Thread : WF_vars(StopStep(th)) /\ WF_vars(Resume(th))

Spec == Init /\ [][Next]_vars /\ Fairness

-----------------------------------------------------------------------------
(***************************************************************************)
(* What holds.                                                             *)
(***************************************************************************)
(* The frames of stop() on th that are at one of these steps.              *)
At(th, steps) == {i \in DOMAIN handler[th] : handler[th][i].at \in steps}

(* manager.cpp:18: "Make sure that only one stop attempt at a time         *)
(* proceeds": two handlers, on two threads or nested on one, are never     *)
(* both between the test of the flag and the end of the joins.             *)
OneStopAtATime ==
  \A t, u \in Thread :
    \A i \in At(t, {"close", "post", "join"}),
       j \in At(u, {"close", "post", "join"}) : t = u /\ i = j

(* A worker that waits for a message although the flag is down has STOP    *)
(* coming, wherever stop() found it -- just created, subscribing, between  *)
(* its look at the flag and recv -- unless a signal has ended the proxy.   *)
StopOnItsWay ==
  \A w \in Worker :
    at[w] = "recv" /\ ~continue_processing /\ at[Proxy] = "forward"
    => \/ w \in inbox
       \/ post.waiting /\ w \in post.reach
       \/ \E th \in Thread : At(th, {"post"}) # {}

(* Once stop() joins the threads every worker ends, also one that start()  *)
(* is about to create when the signal comes, and creates when the handler  *)
(* has returned -- unless a query has made the process end, or a signal    *)
(* has come to another thread than main.  A stop() that a second handler   *)
(* interrupts on its own thread while it holds stop_guard never comes to   *)
(* the joins: the second waits for the first, and the workers for both.    *)
StopReachesWorkers ==
  \A w \in Worker :
    (\E th \in Thread : At(th, {"join"}) # {})
      ~> (at[w] = "ended" \/ aborted \/ stray)

-----------------------------------------------------------------------------
(* manager.h:56-57 says that process() "Stops when stop() is called, or    *)
(* SIGTERM is sent."                                                       *)
ProcessStops ==
  (handler[Main] # <<>>) ~> (at[Main] = "done" \/ aborted \/ stray)
=============================================================================
