------------------------ MODULE NetworkClients_proofs -----------------------
(***************************************************************************)
(* Proofs about the two network clients, for any threads, URLs, headers    *)
(* and number of calls.                                                    *)
(***************************************************************************)
EXTENDS NetworkClients, SequenceTheorems, TLAPS

USE ThreadAssumption, NilAssumption, MaxRequestsAssumption, MethodAssumption

-----------------------------------------------------------------------------
(* The part of the type invariant that the proofs need.                    *)
NetType == /\ request \in [Request -> Call]
           /\ at \in [Thread -> Place]
           /\ allSessionTask \in Seq(Request)
           /\ qfTimeout \in {30, 60, Nil}
           /\ slipped \in SUBSET Request
           /\ at[Main].doing = "adding" => at[Main].request \in Request

(* Calls are numbered in turn.                                             *)
InTurn == /\ \A r \in Request : request[r].sent = "unmade" => request[r] = Unmade
          /\ \A r, s \in Request :
               request[r].sent = "unmade" /\ r < s => request[s].sent = "unmade"

(* While a cancelAllRequest is about to empty the array, the only running  *)
(* requests are those it slipped.                                          *)
Adding(r) == at[Main].doing = "adding" /\ at[Main].request = r
Running(r) == request[r].by \in QFMethod /\ request[r].sent = "running"
NoneBehind ==
  (\E th \in Thread : at[th].doing = "removing")
    => \A r \in Request : Running(r) => Adding(r) \/ r \in slipped

QFInv == NetType /\ InTurn /\ NoneBehind /\ RunningCanBeCancelled

(* Between the two steps of a configuration that no other overlaps, the    *)
(* time-out is the one that the first has set.                             *)
Configuration ==
  /\ at \in [Thread -> Place]
  /\ httpHeader \in Header \cup {Nil}
  /\ \A th \in Thread :
       at[th].doing = "configuring" /\ th \notin overtaken => httpTimeout = 15
  /\ ConfigurationIsOwn

-----------------------------------------------------------------------------
(* What a place looks like after a thread has moved.                       *)
LEMMA MovesType ==
  ASSUME NEW th \in Thread, at \in [Thread -> Place], NEW p \in Place,
         at' = [at EXCEPT ![th] = p]
  PROVE  /\ at' \in [Thread -> Place] /\ at'[th] = p
         /\ \A o \in Thread \ {th} : at'[o] = at[o]
  OBVIOUS

LEMMA OutsidePlace == Outside \in Place
  BY DEF Outside, Place

LEMMA InitConfiguration == Init => Configuration
<1>1. Outside \in Place /\ Outside.doing = "nothing"
  BY DEF Outside, Place
<1>. QED
  BY <1>1 DEF Init, TasksInit, HTTPInit, Configuration, ConfigurationIsOwn

(* Steps that leave the shared serializer alone: no thread comes to        *)
(* prepare a request by them.                                              *)
LEMMA Undisturbed ==
  ASSUME Configuration, at' \in [Thread -> Place],
         UNCHANGED <<httpHeader, httpTimeout>>,
         \A th \in Thread :
           at'[th].doing \in {"configuring", "sending"} => at'[th] = at[th],
         \A th \in Thread :
           at'[th].doing \in {"configuring", "sending"} /\ th \notin overtaken'
             => th \notin overtaken
  PROVE  Configuration'
  BY DEF Configuration, ConfigurationIsOwn

LEMMA ConfiguresConfiguration ==
  ASSUME Configuration, NEW th \in Thread, NEW header \in Header \cup {Nil},
         NEW sync \in BOOLEAN, Configures(th, header, sync)
  PROVE  Configuration'
<1>. DEFINE p == [Outside EXCEPT !.doing = "configuring", !.header = header,
                                 !.sync = sync]
<1>1. p \in Place /\ p.doing = "configuring"
  BY DEF Outside, Place
<1>2. /\ at' \in [Thread -> Place] /\ at'[th] = p
      /\ \A o \in Thread \ {th} : at'[o] = at[o]
  BY <1>1, MovesType DEF Configures, Configuration
<1>3. /\ httpTimeout' = 15 /\ httpHeader' = httpHeader
      /\ overtaken' = overtaken \cup OthersPreparing(th)
  BY DEF Configures
<1>. QED
  BY <1>1, <1>2, <1>3 DEF Configuration, ConfigurationIsOwn, OthersPreparing

LEMMA InstallsConfiguration ==
  ASSUME Configuration, NEW th \in Thread, InstallsSerializer(th)
  PROVE  Configuration'
<1>1. /\ at' \in [Thread -> Place] /\ at'[th].doing = "sending"
      /\ at'[th].header = at[th].header /\ at[th].header \in Header \cup {Nil}
      /\ \A o \in Thread \ {th} : at'[o] = at[o]
  BY DEF InstallsSerializer, Configuration, Place
<1>2. /\ Installs(at[th].header) /\ at[th].doing = "configuring"
      /\ overtaken' = overtaken \cup OthersPreparing(th)
  BY DEF InstallsSerializer, Is
<1>. QED
  BY <1>1, <1>2 DEF Configuration, ConfigurationIsOwn, OthersPreparing, Installs

(* Steps in which one thread goes to a place of no configuration.          *)
LEMMA StepsAside ==
  ASSUME Configuration, NEW th \in Thread, NEW p \in Place,
         p.doing \notin {"configuring", "sending"},
         at' = [at EXCEPT ![th] = p],
         UNCHANGED <<httpHeader, httpTimeout>>,
         overtaken' \in {overtaken, overtaken \ {th}}
  PROVE  Configuration'
<1>1. /\ at' \in [Thread -> Place] /\ at'[th] = p
      /\ \A o \in Thread \ {th} : at'[o] = at[o]
  BY MovesType DEF Configuration
<1>. QED
  BY <1>1, Undisturbed

LEMMA SendsAside ==
  ASSUME Configuration, NEW th \in Thread, NEW sync \in BOOLEAN,
         Sends(th, sync), UNCHANGED <<httpHeader, httpTimeout>>,
         overtaken' \in {overtaken, overtaken \ {th}}
  PROVE  Configuration'
<1>1. PICK r \in Request :
        IF sync /\ session # "invalid"
        THEN at' = [at EXCEPT ![th] = [Outside EXCEPT !.doing = "waiting",
                                         !.request = r, !.sync = TRUE]]
        ELSE at' = [at EXCEPT ![th] = Outside]
  BY DEF Sends, Leaves
<1>. DEFINE p == [Outside EXCEPT !.doing = "waiting", !.request = r,
                                 !.sync = TRUE]
<1>2. p \in Place /\ p.doing = "waiting"
  BY DEF Outside, Place
<1>3. Outside \in Place /\ Outside.doing = "nothing"
  BY DEF Outside, Place
<1>4. CASE at' = [at EXCEPT ![th] = p]
  BY <1>2, <1>4, StepsAside
<1>5. CASE at' = [at EXCEPT ![th] = Outside]
  BY <1>3, <1>5, StepsAside
<1>. QED
  BY <1>1, <1>4, <1>5

(* A completion block moves only threads that wait.                        *)
LEMMA SignalsConfiguration ==
  ASSUME Configuration, NEW r \in Request, HTTPCompletes(r)
  PROVE  Configuration'
<1>1. at' = [th \in Thread |->
               IF at[th].doing = "waiting" /\ at[th].request = r THEN Outside
               ELSE at[th]]
  BY DEF HTTPCompletes, Signals
<1>2. Outside \in Place /\ Outside.doing = "nothing"
  BY DEF Outside, Place
<1>3. UNCHANGED <<httpHeader, httpTimeout, overtaken>>
  BY DEF HTTPCompletes, httpVars
<1>4. at \in [Thread -> Place]
  BY DEF Configuration
<1>5. at' \in [Thread -> Place]
  BY <1>1, <1>2, <1>4
<1>6. \A th \in Thread :
        at'[th].doing \in {"configuring", "sending"} => at'[th] = at[th]
  BY <1>1, <1>2
<1>. QED
  BY <1>3, <1>5, <1>6, Undisturbed

LEMMA HTTPNextConfiguration ==
  ASSUME Configuration, HTTPNext
  PROVE  Configuration'
<1>1. ASSUME NEW th \in Thread, NEW header \in Header \cup {Nil},
             NEW sync \in BOOLEAN, Configures(th, header, sync)
      PROVE  Configuration'
  BY <1>1, ConfiguresConfiguration
<1>2. ASSUME NEW th \in Thread, InstallsSerializer(th)
      PROVE  Configuration'
  BY <1>2, InstallsConfiguration
<1>3. ASSUME NEW th \in Thread, SendsConfigured(th)
      PROVE  Configuration'
  <2>1. at[th].sync \in BOOLEAN
    BY DEF Configuration, Place
  <2>2. /\ Sends(th, at[th].sync) /\ overtaken' = overtaken \ {th}
        /\ UNCHANGED <<httpHeader, httpTimeout>>
    BY <1>3 DEF SendsConfigured
  <2>. QED
    BY <2>1, <2>2, SendsAside
<1>4. ASSUME NEW th \in Thread, NEW sync \in BOOLEAN, SendsDirectly(th, sync)
      PROVE  Configuration'
  BY <1>4, SendsAside DEF SendsDirectly, httpVars
<1>5. ASSUME NEW th \in Thread, CancelAsynRequest(th)
      PROVE  Configuration'
  BY <1>5 DEF CancelAsynRequest, Configuration, ConfigurationIsOwn
<1>6. ASSUME NEW r \in Request, HTTPCompletes(r)
      PROVE  Configuration'
  BY <1>6, SignalsConfiguration
<1>. QED
  BY <1>1, <1>2, <1>3, <1>4, <1>5, <1>6 DEF HTTPNext

LEMMA QFNextConfiguration ==
  ASSUME Configuration, QFNext, UNCHANGED httpVars
  PROVE  Configuration'
<1>1. UNCHANGED <<httpHeader, httpTimeout, overtaken>>
  BY DEF httpVars
<1>2. /\ Outside \in Place /\ Outside.doing = "nothing"
      /\ at \in [Thread -> Place]
  BY DEF Outside, Place, Configuration
<1>3. ASSUME NEW th \in Thread, Leaves(th)
      PROVE  Configuration'
  BY <1>1, <1>2, <1>3, StepsAside DEF Leaves
<1>4. ASSUME NEW th \in Thread, NEW doing \in {"cancelling", "removing"},
             at' = [at EXCEPT ![th].doing = doing]
      PROVE  Configuration'
  <2>. DEFINE p == [at[th] EXCEPT !.doing = doing]
  <2>1. p \in Place /\ p.doing = doing
    BY <1>2 DEF Place
  <2>2. at' = [at EXCEPT ![th] = p]
    BY <1>4
  <2>. QED
    BY <1>1, <2>1, <2>2, StepsAside
<1>5. ASSUME NEW method \in Method, NEW url \in Url, StartsTask(method, url)
      PROVE  Configuration'
  <2>1. PICK r \in Request :
          at' = [at EXCEPT ![Main] = [Outside EXCEPT !.doing = "adding",
                                                     !.request = r]]
    BY <1>5 DEF StartsTask
  <2>. DEFINE p == [Outside EXCEPT !.doing = "adding", !.request = r]
  <2>2. p \in Place /\ p.doing = "adding"
    BY DEF Outside, Place
  <2>. QED
    BY <1>1, <2>1, <2>2, StepsAside
<1>6. ASSUME NEW th \in Thread, NEW url \in Url,
             CancelRequestWithURL(th, url)
      PROVE  Configuration'
  <2>. DEFINE p == [Outside EXCEPT !.doing = "cancellingURL", !.url = url]
  <2>1. p.doing = "cancellingURL" /\ at' = [at EXCEPT ![th] = p]
    BY <1>6 DEF Outside, CancelRequestWithURL
  <2>2. p \in Place
    BY DEF Outside, Place
  <2>. QED
    BY <1>1, <2>1, <2>2, StepsAside
<1>7. ASSUME NEW r \in Request, QFCompletes(r)
      PROVE  Configuration'
  BY <1>1, <1>7 DEF QFCompletes, Configuration, ConfigurationIsOwn
<1>8. AddsTask => Leaves(Main)
  BY DEF AddsTask
<1>9. \A th \in Thread :
        /\ CancelAllRequest(th) => at' = [at EXCEPT ![th].doing = "cancelling"]
        /\ CancelsTasks(th) => at' = [at EXCEPT ![th].doing = "removing"]
        /\ RemovesTasks(th) => Leaves(th)
        /\ CancelsTaskByURL(th) => Leaves(th)
  BY DEF CancelAllRequest, CancelsTasks, RemovesTasks, CancelsTaskByURL
<1>. QED
  BY <1>3, <1>4, <1>5, <1>6, <1>7, <1>8, <1>9 DEF QFNext

LEMMA NextConfiguration ==
  ASSUME Configuration, [Next]_vars
  PROVE  Configuration'
<1>1. CASE QFNext /\ UNCHANGED httpVars
  BY <1>1, QFNextConfiguration
<1>2. CASE HTTPNext /\ UNCHANGED qfVars
  BY <1>2, HTTPNextConfiguration
<1>3. CASE \E r \in Request : Arrives(r) /\ UNCHANGED <<qfVars, httpVars>>
  BY <1>3 DEF Arrives, httpVars, Configuration, ConfigurationIsOwn
<1>4. CASE RunsShow /\ UNCHANGED <<qfVars, httpVars>>
  BY <1>4 DEF RunsShow, httpVars, Configuration, ConfigurationIsOwn
<1>5. CASE UNCHANGED vars
  BY <1>5 DEF vars, taskVars, httpVars, Configuration, ConfigurationIsOwn
<1>. QED
  BY <1>1, <1>2, <1>3, <1>4, <1>5 DEF Next

(* A request of BaseRequest that no other configuration overlaps is sent   *)
(* with its own headers, and without them with its own time-out            *)
(* (BaseRequest and HTTPClient's setrRequestTimeout and                    *)
(* setRequestSerializer).                                                  *)
THEOREM OwnConfiguration == Spec => []ConfigurationIsOwn
<1>1. Init => Configuration
  BY InitConfiguration
<1>2. Configuration /\ [Next]_vars => Configuration'
  BY NextConfiguration
<1>3. Configuration => ConfigurationIsOwn
  BY DEF Configuration
<1>. QED
  BY <1>1, <1>2, <1>3, PTL DEF Spec

-----------------------------------------------------------------------------
(* Once the main thread waits, every step is one of another thread or of   *)
(* none.                                                                   *)
LEMMA OtherMoves ==
  ASSUME at \in [Thread -> Place], NEW th \in Thread \ {Main}, NEW p,
         at' = [at EXCEPT ![th] = p]
  PROVE  at'[Main] = at[Main]
  OBVIOUS

LEMMA OtherSends ==
  ASSUME at \in [Thread -> Place], NEW th \in Thread \ {Main}, NEW sync,
         Sends(th, sync)
  PROVE  at'[Main] = at[Main]
<1>1. \E p : at' = [at EXCEPT ![th] = p]
  BY DEF Sends, Leaves
<1>. QED
  BY <1>1, OtherMoves

LEMMA NextKeepsMain ==
  ASSUME at \in [Thread -> Place], MainWaits, Next
  PROVE  at'[Main] = at[Main]
<1>1. \A block : ~Runs(block)
  BY DEF Runs, Is, MainWaits
<1>2. \A doing : \A th \in Thread : Is(th, doing) /\ doing # "waiting" => th # Main
  BY DEF Is, MainWaits
<1>3. CASE QFNext
  <2>1. \A method \in Method, url \in Url : ~StartsTask(method, url)
    BY <1>2 DEF StartsTask
  <2>2. ~AddsTask
    BY <1>2 DEF AddsTask
  <2>3. \A r \in Request : ~QFCompletes(r)
    BY <1>1 DEF QFCompletes
  <2>4. ASSUME NEW th \in Thread, CancelAllRequest(th)
        PROVE  at'[Main] = at[Main]
    BY <1>2, <2>4, OtherMoves DEF CancelAllRequest
  <2>5. ASSUME NEW th \in Thread, CancelsTasks(th)
        PROVE  at'[Main] = at[Main]
    BY <1>2, <2>5, OtherMoves DEF CancelsTasks
  <2>6. ASSUME NEW th \in Thread, RemovesTasks(th)
        PROVE  at'[Main] = at[Main]
    BY <1>2, <2>6, OtherMoves DEF RemovesTasks, Leaves
  <2>7. ASSUME NEW th \in Thread, NEW url \in Url, CancelRequestWithURL(th, url)
        PROVE  at'[Main] = at[Main]
    BY <1>2, <2>7, OtherMoves DEF CancelRequestWithURL
  <2>8. ASSUME NEW th \in Thread, CancelsTaskByURL(th)
        PROVE  at'[Main] = at[Main]
    BY <1>2, <2>8, OtherMoves DEF CancelsTaskByURL, Leaves
  <2>. QED
    BY <1>3, <2>1, <2>2, <2>3, <2>4, <2>5, <2>6, <2>7, <2>8 DEF QFNext
<1>4. CASE HTTPNext
  <2>1. ASSUME NEW th \in Thread, NEW header \in Header \cup {Nil},
               NEW sync \in BOOLEAN, Configures(th, header, sync)
        PROVE  at'[Main] = at[Main]
    BY <1>2, <2>1, OtherMoves DEF Configures
  <2>2. ASSUME NEW th \in Thread, InstallsSerializer(th)
        PROVE  at'[Main] = at[Main]
    BY <1>2, <2>2, OtherMoves DEF InstallsSerializer
  <2>3. ASSUME NEW th \in Thread, SendsConfigured(th)
        PROVE  at'[Main] = at[Main]
    BY <1>2, <2>3, OtherSends DEF SendsConfigured
  <2>4. ASSUME NEW th \in Thread, NEW sync \in BOOLEAN, SendsDirectly(th, sync)
        PROVE  at'[Main] = at[Main]
    BY <1>2, <2>4, OtherSends DEF SendsDirectly
  <2>5. ASSUME NEW th \in Thread, CancelAsynRequest(th)
        PROVE  at'[Main] = at[Main]
    BY <2>5 DEF CancelAsynRequest
  <2>6. \A r \in Request : ~HTTPCompletes(r)
    BY <1>1 DEF HTTPCompletes
  <2>. QED
    BY <1>4, <2>1, <2>2, <2>3, <2>4, <2>5, <2>6 DEF HTTPNext
<1>5. CASE \E r \in Request : Arrives(r)
  BY <1>5 DEF Arrives
<1>6. ~RunsShow
  BY <1>1 DEF RunsShow
<1>. QED
  BY <1>3, <1>4, <1>5, <1>6 DEF Next

(* A synchronous request made on the main thread keeps that thread for     *)
(* ever, whatever the others do (HTTPClient's semaphore wait, and          *)
(* completion blocks that only the main queue runs).                       *)
THEOREM MainStaysWaiting == Spec => MainNeverReturns
<1>1. Init => Configuration
  BY InitConfiguration
<1>2. Configuration /\ [Next]_vars => Configuration'
  BY NextConfiguration
<1>3. Configuration /\ [Next]_vars
        => [MainWaits => at'[Main] = at[Main]]_vars
  BY NextKeepsMain DEF Configuration
<1>. QED
  BY <1>1, <1>2, <1>3, PTL DEF Spec, MainNeverReturns

-----------------------------------------------------------------------------
LEMMA InitQFInv == Init => QFInv
<1>. SUFFICES ASSUME Init PROVE QFInv
  OBVIOUS
<1>1. /\ Outside \in Place /\ Outside.doing = "nothing"
      /\ Unmade \in Call /\ Unmade.sent = "unmade" /\ Unmade.by = Nil
  BY DEF Outside, Place, Unmade, Call
<1>2. NetType
  BY <1>1 DEF Init, TasksInit, QFInit, NetType
<1>. QED
  BY <1>1, <1>2 DEF Init, TasksInit, QFInit, QFInv, InTurn, NoneBehind,
                    RunningCanBeCancelled, QFMethod

(* What a step may do to a call that was made.                             *)
Kept(r) == \/ request'[r] = request[r]
           \/ /\ request[r].sent # "unmade"
              /\ request'[r].sent \notin {"unmade", "running"}
              /\ request'[r].by = request[r].by

(* Steps that make no call and leave the array alone.                      *)
LEMMA NothingMade ==
  ASSUME QFInv, request' \in [Request -> Call], \A r \in Request : Kept(r),
         at' \in [Thread -> Place], UNCHANGED qfVars,
         at'[Main] = at[Main] \/ "adding" \notin {at[Main].doing, at'[Main].doing},
         \A th \in Thread : at'[th].doing = "removing" => at'[th] = at[th]
  PROVE  QFInv'
<1>1. UNCHANGED <<allSessionTask, qfTimeout, slipped>>
  BY DEF qfVars
<1>2. NetType'
  BY <1>1 DEF QFInv, NetType
<1>3. InTurn'
  BY DEF QFInv, InTurn, Kept
<1>4. \A r \in Request : Running(r)' => Running(r) /\ (Adding(r) => Adding(r)')
  BY DEF Running, Adding, Kept
<1>5. NoneBehind'
  BY <1>1, <1>4 DEF QFInv, NoneBehind
<1>6. RunningCanBeCancelled'
  BY <1>1, <1>4 DEF QFInv, RunningCanBeCancelled, Running, Adding
<1>. QED
  BY <1>2, <1>3, <1>5, <1>6 DEF QFInv

LEMMA CancelledKept ==
  ASSUME request \in [Request -> Call], NEW R, request' = Cancelled(R)
  PROVE  /\ request' \in [Request -> Call]
         /\ \A r \in Request : Kept(r)
         /\ \A r \in Request :
              request'[r].sent = "running" => request[r].sent = "running" /\ r \notin R
<1>1. \A r \in Request : [request[r] EXCEPT !.sent = "cancelled"] \in Call
  BY DEF Call
<1>. QED
  BY <1>1 DEF Cancelled, Kept, Call

(* A call that is made is the last of those made.                          *)
LEMMA OneMade ==
  ASSUME request \in [Request -> Call], InTurn, NEW r \in Request, IsNext(r),
         NEW c \in Call, c.sent # "unmade", request' = [request EXCEPT ![r] = c]
  PROVE  /\ request' \in [Request -> Call] /\ InTurn'
         /\ request'[r] = c
         /\ \A s \in Request \ {r} : request'[s] = request[s]
         /\ \A s \in Request : s > r => request[s].by = Nil
<1>1. \A s \in Request : r < s => request[s] = Unmade
  BY DEF InTurn, IsNext
<1>2. \A s \in Request : s < r => s \in 1 .. (r - 1)
  BY DEF Request
<1>3. r \in Int /\ \A s \in Request : s \in Int /\ s # r /\ ~(s > r) => s < r
  BY DEF Request
<1>. QED
  BY <1>1, <1>2, <1>3 DEF InTurn, IsNext, Unmade

LEMMA SendsQFInv ==
  ASSUME QFInv, NEW th \in Thread, NEW sync \in BOOLEAN, Sends(th, sync),
         at[th].doing \in {"nothing", "sending"}, UNCHANGED qfVars
  PROVE  QFInv'
<1>1. PICK r \in Request :
        /\ IsNext(r)
        /\ request' = [request EXCEPT
             ![r] = [Unmade EXCEPT !.by = "HTTPClient",
                       !.sent = IF session = "open" THEN "running" ELSE "untasked"]]
        /\ IF sync /\ session # "invalid"
           THEN at' = [at EXCEPT ![th] = [Outside EXCEPT !.doing = "waiting",
                                            !.request = r, !.sync = TRUE]]
           ELSE at' = [at EXCEPT ![th] = Outside]
  BY DEF Sends, Leaves
<1>. DEFINE c == [Unmade EXCEPT !.by = "HTTPClient",
                    !.sent = IF session = "open" THEN "running" ELSE "untasked"]
            p == [Outside EXCEPT !.doing = "waiting", !.request = r, !.sync = TRUE]
<1>2. c \in Call /\ c.sent # "unmade" /\ c.by = "HTTPClient"
  BY DEF Unmade, Call
<1>3. /\ p \in Place /\ p.doing = "waiting"
      /\ Outside \in Place /\ Outside.doing = "nothing"
  BY DEF Outside, Place
<1>4. /\ request \in [Request -> Call] /\ InTurn /\ at \in [Thread -> Place]
      /\ UNCHANGED <<allSessionTask, qfTimeout, slipped>>
  BY DEF QFInv, NetType, qfVars
<1>. HIDE DEF c, p
<1>5. /\ request' \in [Request -> Call] /\ InTurn'
      /\ request'[r] = c
      /\ \A s \in Request \ {r} : request'[s] = request[s]
  BY <1>1, <1>2, <1>4, OneMade DEF c
<1>6. /\ at' \in [Thread -> Place]
      /\ at'[th].doing \in {"waiting", "nothing"}
      /\ \A o \in Thread \ {th} : at'[o] = at[o]
  BY <1>1, <1>3, <1>4, MovesType DEF p
<1>7. NetType'
  BY <1>4, <1>5, <1>6 DEF QFInv, NetType
<1>8. \A s \in Request :
        /\ Running(s)' => Running(s) /\ s # r
        /\ Adding(s) => Adding(s)'
  BY <1>2, <1>5, <1>6 DEF Running, Adding, QFMethod
<1>9. NoneBehind' /\ RunningCanBeCancelled'
  BY <1>4, <1>6, <1>8
     DEF QFInv, NoneBehind, RunningCanBeCancelled, Running, Adding
<1>. QED
  BY <1>5, <1>7, <1>9 DEF QFInv

LEMMA HearsKept ==
  ASSUME request \in [Request -> Call], NEW r \in Request,
         request[r].sent # "unmade", NEW b \in {"success", "failure", Nil},
         Hears(r, b)
  PROVE  request' \in [Request -> Call] /\ \A s \in Request : Kept(s)
<1>. DEFINE c == [request[r] EXCEPT !.sent = "ended", !.heard = b]
<1>0. request[r] \in Call
  OBVIOUS
<1>1. /\ c \in Call /\ c.sent = "ended"
      /\ c.by = request[r].by
  BY <1>0 DEF Call
<1>2. request' = [request EXCEPT ![r] = c]
  BY DEF Hears
<1>. HIDE DEF c
<1>3. request'[r] = c /\ \A s \in Request \ {r} : request'[s] = request[s]
  BY <1>2
<1>. QED
  BY <1>1, <1>2, <1>3 DEF Kept

LEMMA SignalsQFInv ==
  ASSUME QFInv, NEW r \in Request, HTTPCompletes(r), UNCHANGED qfVars
  PROVE  QFInv'
<1>1. /\ at' = [th \in Thread |->
                 IF at[th].doing = "waiting" /\ at[th].request = r THEN Outside
                 ELSE at[th]]
      /\ Hears(r, HTTPBlock(r, request[r].answer))
      /\ request[r].by = "HTTPClient" /\ at[Main].doing = "nothing"
  BY DEF HTTPCompletes, Signals, Runs, Is
<1>2. /\ Outside \in Place /\ Outside.doing = "nothing"
      /\ request \in [Request -> Call] /\ InTurn /\ at \in [Thread -> Place]
  BY DEF Outside, Place, QFInv, NetType
<1>3. request[r].sent # "unmade"
  BY <1>1, <1>2 DEF InTurn, Unmade
<1>4. request' \in [Request -> Call] /\ \A s \in Request : Kept(s)
  BY <1>1, <1>2, <1>3, HearsKept DEF HTTPBlock
<1>5. /\ at' \in [Thread -> Place]
      /\ \A th \in Thread : at'[th].doing = "removing" => at'[th] = at[th]
  BY <1>1, <1>2
<1>. QED
  BY <1>1, <1>4, <1>5, NothingMade

LEMMA HTTPNextQFInv ==
  ASSUME QFInv, HTTPNext, UNCHANGED qfVars
  PROVE  QFInv'
<1>1. at \in [Thread -> Place] /\ request \in [Request -> Call]
  BY DEF QFInv, NetType
<1>2. ASSUME NEW th \in Thread, at[th].doing # "adding", NEW p \in Place,
             p.doing \notin {"adding", "removing"}, at' = [at EXCEPT ![th] = p],
             UNCHANGED request
      PROVE  QFInv'
  <2>1. /\ at' \in [Thread -> Place] /\ at'[th] = p
        /\ \A o \in Thread \ {th} : at'[o] = at[o]
    BY <1>1, <1>2, MovesType
  <2>2. request' \in [Request -> Call] /\ \A r \in Request : Kept(r)
    BY <1>1, <1>2 DEF Kept
  <2>. QED
    BY <1>2, <2>1, <2>2, NothingMade
<1>3. ASSUME NEW th \in Thread, NEW header \in Header \cup {Nil},
             NEW sync \in BOOLEAN, Configures(th, header, sync)
      PROVE  QFInv'
  <2>. DEFINE p == [Outside EXCEPT !.doing = "configuring", !.header = header,
                                   !.sync = sync]
  <2>1. p \in Place /\ p.doing = "configuring"
    BY DEF Outside, Place
  <2>2. /\ at' = [at EXCEPT ![th] = p] /\ UNCHANGED request
        /\ at[th].doing = "nothing"
    BY <1>3 DEF Configures, Is
  <2>. QED
    BY <1>2, <2>1, <2>2
<1>4. ASSUME NEW th \in Thread, InstallsSerializer(th)
      PROVE  QFInv'
  <2>. DEFINE p == [at[th] EXCEPT !.doing = "sending"]
  <2>1. p \in Place /\ p.doing = "sending"
    BY <1>1 DEF Place
  <2>2. /\ at' = [at EXCEPT ![th] = p] /\ UNCHANGED request
        /\ at[th].doing = "configuring"
    BY <1>4 DEF InstallsSerializer, Is
  <2>. QED
    BY <1>2, <2>1, <2>2
<1>5. ASSUME NEW th \in Thread, SendsConfigured(th)
      PROVE  QFInv'
  <2>1. at[th].sync \in BOOLEAN
    BY <1>1 DEF Place
  <2>. QED
    BY <1>5, <2>1, SendsQFInv DEF SendsConfigured, Is
<1>6. ASSUME NEW th \in Thread, NEW sync \in BOOLEAN, SendsDirectly(th, sync)
      PROVE  QFInv'
  BY <1>6, SendsQFInv DEF SendsDirectly, Is
<1>7. ASSUME NEW th \in Thread, CancelAsynRequest(th)
      PROVE  QFInv'
  <2>1. /\ request' = Cancelled({r \in Request : request[r].by = "HTTPClient"})
        /\ UNCHANGED at
    BY <1>7 DEF CancelAsynRequest
  <2>2. request' \in [Request -> Call] /\ \A r \in Request : Kept(r)
    BY <1>1, <2>1, CancelledKept
  <2>. QED
    BY <1>1, <2>1, <2>2, NothingMade
<1>8. ASSUME NEW r \in Request, HTTPCompletes(r)
      PROVE  QFInv'
  BY <1>8, SignalsQFInv
<1>. QED
  BY <1>3, <1>4, <1>5, <1>6, <1>7, <1>8 DEF HTTPNext

-----------------------------------------------------------------------------
LEMMA RemoveAtKeeps ==
  ASSUME NEW S, NEW s \in Seq(S), NEW i \in DOMAIN s
  PROVE  /\ RemoveAt(s, i) \in Seq(S)
         /\ \A j \in DOMAIN s \ {i} : s[j] \in Range(RemoveAt(s, i))
<1>. DEFINE a == SubSeq(s, 1, i - 1)
            b == SubSeq(s, i + 1, Len(s))
<1>1. i \in 1 .. Len(s) /\ Len(s) \in Nat /\ DOMAIN s = 1 .. Len(s)
  OBVIOUS
<1>2. /\ a \in Seq(S) /\ Len(a) = i - 1
      /\ \A j \in 1 .. (i - 1) : a[j] = s[j]
  BY <1>1, SubSeqProperties
<1>3. /\ b \in Seq(S) /\ Len(b) = Len(s) - i
      /\ \A j \in 1 .. (Len(s) - i) : b[j] = s[i + j]
  BY <1>1, SubSeqProperties
<1>4. RemoveAt(s, i) = a \o b
  BY DEF RemoveAt
<1>. HIDE DEF a, b
<1>5. /\ a \o b \in Seq(S) /\ Len(a \o b) = Len(s) - 1
      /\ \A j \in 1 .. (Len(s) - 1) :
           (a \o b)[j] = IF j <= i - 1 THEN a[j] ELSE b[j - (i - 1)]
  <2>1. Len(a) + Len(b) = Len(s) - 1
    BY <1>1, <1>2, <1>3
  <2>2. /\ a \o b \in Seq(S) /\ Len(a \o b) = Len(a) + Len(b)
        /\ \A j \in 1 .. (Len(a) + Len(b)) :
             (a \o b)[j] = IF j <= Len(a) THEN a[j] ELSE b[j - Len(a)]
    BY <1>2, <1>3, ConcatProperties
  <2>. QED
    BY <1>2, <2>1, <2>2
<1>. DEFINE ab == a \o b
<1>. HIDE DEF ab
<1>6. ASSUME NEW j \in DOMAIN s \ {i}
      PROVE  \E k \in 1 .. (Len(s) - 1) : ab[k] = s[j]
  <2>1. CASE j < i
    <3>1. j \in 1 .. (Len(s) - 1) /\ j <= i - 1 /\ j \in 1 .. (i - 1)
      BY <1>1, <1>6, <2>1
    <3>. QED
      BY <1>2, <1>5, <3>1 DEF ab
  <2>2. CASE j > i
    <3>1. /\ j - 1 \in 1 .. (Len(s) - 1) /\ ~(j - 1 <= i - 1)
          /\ j - 1 - (i - 1) = j - i /\ j - i \in 1 .. (Len(s) - i)
          /\ i + (j - i) = j
      BY <1>1, <1>6, <2>2
    <3>2. ab[j - 1] = b[j - 1 - (i - 1)]
      BY <1>5, <3>1 DEF ab
    <3>3. b[j - i] = s[i + (j - i)]
      BY <1>3, <3>1
    <3>. QED
      BY <3>1, <3>2, <3>3
  <2>. QED
    BY <1>1, <1>6, <2>1, <2>2
<1>7. ab \in Seq(S) /\ Len(ab) = Len(s) - 1
  BY <1>5 DEF ab
<1>8. DOMAIN ab = 1 .. (Len(s) - 1)
  BY <1>7
<1>. QED
  <2>1. \A j \in DOMAIN s \ {i} : s[j] \in Range(ab)
    BY <1>6, <1>8 DEF Range
  <2>. QED
    BY <1>4, <1>7, <2>1 DEF ab

LEMMA StartsQFInv ==
  ASSUME QFInv, NEW method \in Method, NEW url \in Url, StartsTask(method, url)
  PROVE  QFInv'
<1>. DEFINE c(r) == [Unmade EXCEPT !.by = method, !.url = url, !.sent = "running"]
            p(r) == [Outside EXCEPT !.doing = "adding", !.request = r]
<1>1. PICK r \in Request :
        /\ IsNext(r)
        /\ request' = [request EXCEPT ![r] = c(r)]
        /\ at' = [at EXCEPT ![Main] = p(r)]
  BY DEF StartsTask
<1>2. /\ request \in [Request -> Call] /\ InTurn /\ at \in [Thread -> Place]
      /\ qfTimeout \in {30, 60, Nil} /\ method \in QFMethod
  BY DEF QFInv, NetType
<1>3. /\ qfTimeout' \in {30, 60} /\ at[Main].doing = "nothing"
      /\ UNCHANGED <<allSessionTask, slipped>>
  BY <1>2 DEF StartsTask, TimeoutFor, Is
<1>4. c(r) \in Call /\ c(r).sent = "running" /\ c(r).by = method
  BY <1>2 DEF Unmade, Call, QFMethod
<1>5. p(r) \in Place /\ p(r).doing = "adding" /\ p(r).request = r
  BY DEF Outside, Place
<1>. HIDE DEF c, p
<1>6. /\ request' \in [Request -> Call] /\ InTurn'
      /\ request'[r] = c(r)
      /\ \A s \in Request \ {r} : request'[s] = request[s]
      /\ \A s \in Request : s > r => request[s].by = Nil
  BY <1>1, <1>2, <1>4, OneMade
<1>7. /\ at' \in [Thread -> Place] /\ at'[Main] = p(r)
      /\ \A o \in Thread \ {Main} : at'[o] = at[o]
  BY <1>1, <1>2, <1>5, MovesType
<1>8. NetType'
  <2>1. at'[Main].request \in Request /\ qfTimeout' \in {30, 60, Nil}
    BY <1>3, <1>5, <1>7
  <2>. QED
    BY <1>3, <1>6, <1>7, <2>1 DEF QFInv, NetType
<1>9. Adding(r)' /\ \A s \in Request : ~Adding(s) /\ (s # r /\ Running(s)' => Running(s))
  BY <1>3, <1>5, <1>6, <1>7 DEF Adding, Running
<1>10. NoneBehind' /\ RunningCanBeCancelled'
  BY <1>3, <1>5, <1>7, <1>9
     DEF QFInv, NoneBehind, RunningCanBeCancelled, Running, Adding
<1>. QED
  BY <1>6, <1>8, <1>10 DEF QFInv

LEMMA AddsQFInv ==
  ASSUME QFInv, AddsTask
  PROVE  QFInv'
<1>1. /\ at \in [Thread -> Place] /\ allSessionTask \in Seq(Request)
      /\ slipped \in SUBSET Request
      /\ Outside \in Place /\ Outside.doing = "nothing"
  BY DEF QFInv, NetType, Outside, Place
<1>2. /\ at[Main].doing = "adding" /\ UNCHANGED <<request, qfTimeout>>
      /\ at' = [at EXCEPT ![Main] = Outside]
      /\ allSessionTask' = Append(allSessionTask, at[Main].request)
      /\ slipped' = IF \E th \in Thread : at[th].doing = "removing"
                    THEN slipped \cup {at[Main].request}
                    ELSE slipped
  BY DEF AddsTask, Is, Leaves
<1>3. /\ at' \in [Thread -> Place] /\ at'[Main] = Outside
      /\ \A o \in Thread \ {Main} : at'[o] = at[o]
  BY <1>1, <1>2, MovesType
<1>4. at[Main].request \in Request
  BY <1>2 DEF QFInv, NetType
<1>5. /\ allSessionTask' \in Seq(Request)
      /\ Range(allSessionTask') = Range(allSessionTask) \cup {at[Main].request}
  <2>. DEFINE s == allSessionTask
              e == at[Main].request
  <2>1. /\ Append(s, e) \in Seq(Request) /\ Len(Append(s, e)) = Len(s) + 1
        /\ Append(s, e)[Len(s) + 1] = e
        /\ \A i \in 1 .. Len(s) : Append(s, e)[i] = s[i]
    BY <1>1, <1>4, AppendProperties
  <2>2. DOMAIN s = 1 .. Len(s) /\ Len(s) \in Nat
    BY <1>1
  <2>3. DOMAIN Append(s, e) = 1 .. (Len(s) + 1)
    BY <2>1, <2>2
  <2>4. 1 .. (Len(s) + 1) = 1 .. Len(s) \cup {Len(s) + 1}
    BY <2>2
  <2>. HIDE DEF s, e
  <2>5. Range(Append(s, e)) = Range(s) \cup {e}
    BY <2>1, <2>2, <2>3, <2>4 DEF Range
  <2>. QED
    BY <1>2, <2>1, <2>5 DEF s, e
<1>6. NetType'
  BY <1>1, <1>2, <1>3, <1>4, <1>5 DEF QFInv, NetType
<1>7. InTurn'
  BY <1>2 DEF QFInv, InTurn
<1>8. \A r \in Request : Running(r)' => Running(r)
  BY <1>2 DEF Running
<1>9. NoneBehind'
  BY <1>1, <1>2, <1>3, <1>8 DEF QFInv, NoneBehind, Adding
<1>10. RunningCanBeCancelled'
  BY <1>2, <1>5 DEF QFInv, RunningCanBeCancelled
<1>. QED
  BY <1>6, <1>7, <1>9, <1>10 DEF QFInv

LEMMA CancelsQFInv ==
  ASSUME QFInv, NEW th \in Thread, CancelsTasks(th)
  PROVE  QFInv'
<1>. DEFINE p == [at[th] EXCEPT !.doing = "removing"]
<1>2. /\ at[th].doing = "cancelling" /\ at' = [at EXCEPT ![th] = p]
      /\ request' = Cancelled(Range(allSessionTask))
      /\ UNCHANGED <<allSessionTask, qfTimeout, slipped>>
  BY DEF CancelsTasks, Is, qfVars
<1>3. /\ request \in [Request -> Call] /\ at \in [Thread -> Place]
      /\ p \in Place /\ p.doing = "removing"
  BY DEF QFInv, NetType, Place
<1>. HIDE DEF p
<1>4. /\ at' \in [Thread -> Place] /\ at'[th].doing = "removing"
      /\ \A o \in Thread \ {th} : at'[o] = at[o]
  BY <1>2, <1>3, MovesType
<1>5. /\ request' \in [Request -> Call] /\ \A r \in Request : Kept(r)
      /\ \A r \in Request :
           request'[r].sent = "running"
             => request[r].sent = "running" /\ r \notin Range(allSessionTask)
  BY <1>2, <1>3, CancelledKept
<1>6. NetType'
  BY <1>2, <1>4, <1>5 DEF QFInv, NetType
<1>7. InTurn'
  BY <1>2, <1>5 DEF QFInv, InTurn, Kept
<1>8. \A r \in Request :
        /\ Running(r)' => Running(r) /\ r \notin Range(allSessionTask)
        /\ Adding(r) => Adding(r)'
  BY <1>2, <1>4, <1>5 DEF Running, Adding, Kept
<1>9. \A r \in Request : Running(r)' => Adding(r)' \/ r \in slipped'
  BY <1>2, <1>8 DEF QFInv, RunningCanBeCancelled, Running, Adding
<1>. QED
  BY <1>6, <1>7, <1>9 DEF QFInv, NoneBehind, RunningCanBeCancelled, Running, Adding

LEMMA RemovesQFInv ==
  ASSUME QFInv, NEW th \in Thread, RemovesTasks(th)
  PROVE  QFInv'
<1>1. /\ at \in [Thread -> Place] /\ Outside \in Place /\ Outside.doing = "nothing"
  BY DEF QFInv, NetType, Outside, Place
<1>2. /\ at[th].doing = "removing" /\ at' = [at EXCEPT ![th] = Outside]
      /\ allSessionTask' = <<>> /\ UNCHANGED <<request, qfTimeout, slipped>>
  BY DEF RemovesTasks, Is, Leaves
<1>3. /\ at' \in [Thread -> Place] /\ at'[th] = Outside
      /\ \A o \in Thread \ {th} : at'[o] = at[o]
  BY <1>1, <1>2, MovesType
<1>4. NetType'
  BY <1>1, <1>2, <1>3 DEF QFInv, NetType
<1>5. InTurn'
  BY <1>2 DEF QFInv, InTurn
<1>6. \A r \in Request :
        /\ Running(r)' => Running(r)
        /\ Adding(r) => Adding(r)'
  BY <1>2, <1>3 DEF Running, Adding
<1>7. \A r \in Request : Running(r)' => Adding(r)' \/ r \in slipped'
  BY <1>2, <1>6 DEF QFInv, NoneBehind
<1>. QED
  BY <1>4, <1>5, <1>7 DEF QFInv, NoneBehind, RunningCanBeCancelled, Running, Adding

LEMMA CancelsByURLQFInv ==
  ASSUME QFInv, NEW th \in Thread, CancelsTaskByURL(th)
  PROVE  QFInv'
<1>1. /\ request \in [Request -> Call] /\ at \in [Thread -> Place]
      /\ allSessionTask \in Seq(Request)
      /\ Outside \in Place /\ Outside.doing = "nothing"
  BY DEF QFInv, NetType, Outside, Place
<1>2. /\ at[th].doing = "cancellingURL" /\ at' = [at EXCEPT ![th] = Outside]
      /\ CancelsByURL(at[th].url) /\ UNCHANGED <<qfTimeout, slipped>>
  BY DEF CancelsTaskByURL, Is, Leaves
<1>3. /\ at' \in [Thread -> Place] /\ at'[th] = Outside
      /\ \A o \in Thread \ {th} : at'[o] = at[o]
  BY <1>1, <1>2, MovesType
<1>4. /\ request' \in [Request -> Call] /\ \A r \in Request : Kept(r)
      /\ allSessionTask' \in Seq(Request)
      /\ \A r \in Request :
           request'[r].sent = "running"
             => /\ request[r].sent = "running"
                /\ r \in Range(allSessionTask) => r \in Range(allSessionTask')
  <2>1. CASE UNCHANGED <<request, allSessionTask>>
    BY <1>1, <2>1 DEF Kept
  <2>2. CASE Matching(at[th].url) # {}
    <3>1. PICK i \in DOMAIN allSessionTask :
            /\ request' = Cancelled({allSessionTask[i]})
            /\ allSessionTask' = RemoveAt(allSessionTask, i)
      BY <1>2, <2>2 DEF CancelsByURL, Matching
    <3>2. /\ request' \in [Request -> Call] /\ \A r \in Request : Kept(r)
          /\ \A r \in Request :
               request'[r].sent = "running"
                 => request[r].sent = "running" /\ r # allSessionTask[i]
      BY <1>1, <3>1, CancelledKept
    <3>3. /\ allSessionTask' \in Seq(Request)
          /\ \A j \in DOMAIN allSessionTask \ {i} :
               allSessionTask[j] \in Range(allSessionTask')
      BY <1>1, <3>1, RemoveAtKeeps
    <3>. QED
      BY <3>2, <3>3 DEF Range
  <2>. QED
    BY <1>2, <2>1, <2>2 DEF CancelsByURL
<1>5. NetType'
  BY <1>1, <1>2, <1>3, <1>4 DEF QFInv, NetType
<1>6. InTurn'
  BY <1>2, <1>4 DEF QFInv, InTurn, Kept
<1>7. \A r \in Request :
        /\ Running(r)' => /\ Running(r)
                          /\ r \in Range(allSessionTask) => r \in Range(allSessionTask')
        /\ Adding(r) => Adding(r)'
  BY <1>2, <1>3, <1>4 DEF Running, Adding, Kept
<1>8. NoneBehind'
  BY <1>1, <1>2, <1>3, <1>7 DEF QFInv, NoneBehind
<1>9. RunningCanBeCancelled'
  BY <1>2, <1>7 DEF QFInv, RunningCanBeCancelled, Running, Adding
<1>. QED
  BY <1>5, <1>6, <1>8, <1>9 DEF QFInv

LEMMA QFNextQFInv ==
  ASSUME QFInv, QFNext
  PROVE  QFInv'
<1>1. /\ at \in [Thread -> Place] /\ request \in [Request -> Call] /\ InTurn
  BY DEF QFInv, NetType
<1>2. ASSUME NEW th \in Thread, at[th].doing = "nothing", NEW p \in Place,
             p.doing \in {"cancelling", "cancellingURL"},
             at' = [at EXCEPT ![th] = p], UNCHANGED request, UNCHANGED qfVars
      PROVE  QFInv'
  <2>1. /\ at' \in [Thread -> Place] /\ at'[th] = p
        /\ \A o \in Thread \ {th} : at'[o] = at[o]
    BY <1>1, <1>2, MovesType
  <2>2. request' \in [Request -> Call] /\ \A r \in Request : Kept(r)
    BY <1>1, <1>2 DEF Kept
  <2>. QED
    BY <1>2, <2>1, <2>2, NothingMade
<1>3. ASSUME NEW th \in Thread, CancelAllRequest(th)
      PROVE  QFInv'
  <2>. DEFINE p == [at[th] EXCEPT !.doing = "cancelling"]
  <2>1. p \in Place /\ p.doing = "cancelling"
    BY <1>1 DEF Place
  <2>2. /\ at[th].doing = "nothing" /\ at' = [at EXCEPT ![th] = p]
        /\ UNCHANGED request /\ UNCHANGED qfVars
    BY <1>3 DEF CancelAllRequest, Is
  <2>. QED
    BY <1>2, <2>1, <2>2
<1>4. ASSUME NEW th \in Thread, NEW url \in Url, CancelRequestWithURL(th, url)
      PROVE  QFInv'
  <2>. DEFINE p == [Outside EXCEPT !.doing = "cancellingURL", !.url = url]
  <2>1. p \in Place /\ p.doing = "cancellingURL"
    BY DEF Outside, Place
  <2>2. /\ at[th].doing = "nothing" /\ at' = [at EXCEPT ![th] = p]
        /\ UNCHANGED request /\ UNCHANGED qfVars
    BY <1>4 DEF CancelRequestWithURL, Is
  <2>. QED
    BY <1>2, <2>1, <2>2
<1>5. ASSUME NEW r \in Request, QFCompletes(r)
      PROVE  QFInv'
  <2>. DEFINE b == IF stopped' THEN Nil ELSE QFBlock(r, request[r].answer)
  <2>1. /\ Hears(r, b) /\ UNCHANGED <<at, qfVars>> /\ request[r].by \in QFMethod
    BY <1>5 DEF QFCompletes
  <2>2. request[r].sent # "unmade"
    BY <1>1, <2>1 DEF InTurn, Unmade, QFMethod
  <2>3. b \in {"success", "failure", Nil}
    BY DEF QFBlock
  <2>. HIDE DEF b
  <2>4. request' \in [Request -> Call] /\ \A s \in Request : Kept(s)
    BY <1>1, <2>1, <2>2, <2>3, HearsKept
  <2>. QED
    BY <1>1, <2>1, <2>4, NothingMade
<1>. QED
  BY <1>3, <1>4, <1>5, StartsQFInv, AddsQFInv, CancelsQFInv, RemovesQFInv,
     CancelsByURLQFInv DEF QFNext

LEMMA NextQFInv ==
  ASSUME QFInv, [Next]_vars
  PROVE  QFInv'
<1>1. /\ at \in [Thread -> Place] /\ request \in [Request -> Call]
  BY DEF QFInv, NetType
<1>2. CASE QFNext
  BY <1>2, QFNextQFInv
<1>3. CASE HTTPNext /\ UNCHANGED qfVars
  BY <1>3, HTTPNextQFInv
<1>4. ASSUME NEW r \in Request, Arrives(r), UNCHANGED qfVars
      PROVE  QFInv'
  <2>1. PICK a \in Answer :
          request' = [request EXCEPT ![r].sent = "answered", ![r].answer = a]
    BY <1>4 DEF Arrives
  <2>. DEFINE c == [request[r] EXCEPT !.sent = "answered", !.answer = a]
  <2>2. request[r] \in Call /\ request[r].sent # "unmade" /\ UNCHANGED at
    BY <1>1, <1>4 DEF Arrives
  <2>3. /\ c \in Call /\ c.sent = "answered"
        /\ c.by = request[r].by
    BY <2>2 DEF Call
  <2>4. request' = [request EXCEPT ![r] = c]
    BY <2>1
  <2>. HIDE DEF c
  <2>5. request'[r] = c /\ \A s \in Request \ {r} : request'[s] = request[s]
    BY <1>1, <2>4
  <2>6. request' \in [Request -> Call] /\ \A s \in Request : Kept(s)
    BY <1>1, <2>2, <2>3, <2>4, <2>5 DEF Kept
  <2>. QED
    BY <1>1, <1>4, <2>2, <2>6, NothingMade
<1>5. ASSUME UNCHANGED <<request, at>>, UNCHANGED qfVars
      PROVE  QFInv'
  <2>1. request' \in [Request -> Call] /\ \A r \in Request : Kept(r)
    BY <1>1, <1>5 DEF Kept
  <2>. QED
    BY <1>1, <1>5, <2>1, NothingMade
<1>6. CASE RunsShow /\ UNCHANGED qfVars
  BY <1>5, <1>6 DEF RunsShow
<1>7. CASE UNCHANGED vars
  BY <1>5, <1>7 DEF vars, taskVars
<1>. QED
  BY <1>2, <1>3, <1>4, <1>6, <1>7 DEF Next

LEMMA QFInvHolds == Spec => []QFInv
<1>1. QFInv /\ [Next]_vars => QFInv'
  BY NextQFInv
<1>. QED
  BY <1>1, InitQFInv, PTL DEF Spec

(* Every running task of QFNetworking is where the cancel methods look for *)
(* it, but for those that were added between the loop of cancelAllRequest  *)
(* and its removeAllObjects (QFNetworking's allSessionTask).               *)
THEOREM RunningInArray == Spec => []RunningCanBeCancelled
<1>1. QFInv => RunningCanBeCancelled
  BY DEF QFInv
<1>. QED
  BY <1>1, QFInvHolds, PTL

-----------------------------------------------------------------------------
(***************************************************************************)
(* The main queue and the activity indicator of NetworkClients.            *)
(*                                                                         *)
(* A block that shows the indicator may wait in the main queue while the   *)
(* request it was dispatched for is answered.  That it is not the last to  *)
(* run is an invariant of the order of the queue (LaterBlocks): behind it  *)
(* is the completion block of a request, or one is still to come, or a     *)
(* request is to blame.                                                    *)
(***************************************************************************)
(* A completion block is in the queue once, while its request is answered. *)
Queued(r) == \E i \in DOMAIN mainQueue : mainQueue[i] = r
QueueInv ==
  /\ mainQueue \in Seq(Request \cup {Show})
  /\ \A r \in Request : request[r].sent = "answered" <=> Queued(r)
  /\ \A i, j \in DOMAIN mainQueue :
       mainQueue[i] = mainQueue[j] /\ mainQueue[i] # Show => i = j

Pending(r) == request[r].sent \in {"running", "cancelled"}
Blames(r) == \/ request[r].by \in QFMethod /\ request[r].answer = "error"
             \/ request[r].sent = "untasked"
Blamed == \E r \in Request : Blames(r)

IndicatorInv == indicator => Blamed \/ \E r \in Request : IsOpen(r)
LaterBlocks ==
  \A i \in DOMAIN mainQueue :
    mainQueue[i] = Show
      => \/ Blamed
         \/ \E r \in Request : Pending(r)
         \/ \E j \in DOMAIN mainQueue : i < j /\ mainQueue[j] \in Request

LightInv == QueueInv /\ IndicatorInv /\ LaterBlocks

-----------------------------------------------------------------------------
LEMMA InitLight == Init => LightInv
<1>. SUFFICES ASSUME Init PROVE LightInv
  OBVIOUS
<1>1. mainQueue = <<>> /\ indicator = FALSE /\ \A r \in Request : request[r] = Unmade
  BY DEF Init, TasksInit
<1>2. mainQueue \in Seq(Request \cup {Show}) /\ DOMAIN mainQueue = {}
  BY <1>1
<1>. QED
  BY <1>1, <1>2 DEF LightInv, QueueInv, Queued, IndicatorInv, LaterBlocks, Unmade

(* What a step that runs no completion block leaves of a request.          *)
Goes(r) == /\ request'[r].sent = "answered" <=> request[r].sent = "answered"
           /\ Pending(r) => Pending(r)'
           /\ Blames(r) => Blames(r)'

(* Steps that leave the main queue alone, and show the indicator at most   *)
(* for a request of their own.                                             *)
LEMMA CalmStep ==
  ASSUME LightInv, UNCHANGED mainQueue, \A r \in Request : Goes(r),
         indicator' => indicator \/ Blamed' \/ \E r \in Request : Pending(r)'
  PROVE  LightInv'
<1>1. QueueInv'
  BY DEF LightInv, QueueInv, Queued, Goes
<1>2. (Blamed => Blamed') /\ \A r \in Request : IsOpen(r) => IsOpen(r)'
  BY DEF Blamed, Goes, IsOpen, Pending
<1>3. IndicatorInv'
  BY <1>2 DEF LightInv, IndicatorInv, IsOpen, Pending
<1>4. LaterBlocks'
  BY <1>2 DEF LightInv, LaterBlocks, Goes
<1>. QED
  BY <1>1, <1>3, <1>4 DEF LightInv

(* What a block at the end of the main queue changes there.                *)
LEMMA Appended ==
  ASSUME QueueInv, NEW b \in Request \cup {Show},
         mainQueue' = Append(mainQueue, b)
  PROVE  /\ mainQueue' \in Seq(Request \cup {Show})
         /\ Len(mainQueue) \in Nat
         /\ DOMAIN mainQueue = 1 .. Len(mainQueue)
         /\ DOMAIN mainQueue' = 1 .. (Len(mainQueue) + 1)
         /\ mainQueue'[Len(mainQueue) + 1] = b
         /\ \A i \in DOMAIN mainQueue :
              /\ i \in DOMAIN mainQueue' /\ i < Len(mainQueue) + 1
              /\ mainQueue'[i] = mainQueue[i]
<1>1. mainQueue \in Seq(Request \cup {Show})
  BY DEF QueueInv
<1>2. /\ mainQueue' \in Seq(Request \cup {Show})
      /\ Len(mainQueue') = Len(mainQueue) + 1
      /\ \A i \in 1 .. Len(mainQueue) : mainQueue'[i] = mainQueue[i]
      /\ mainQueue'[Len(mainQueue) + 1] = b
  BY <1>1, AppendProperties
<1>3. /\ Len(mainQueue) \in Nat /\ DOMAIN mainQueue = 1 .. Len(mainQueue)
      /\ DOMAIN mainQueue' = 1 .. Len(mainQueue')
  BY <1>1, <1>2
<1>. QED
  BY <1>2, <1>3

LEMMA NoShow == Show \notin Request
  BY DEF Show, Request

(* A request sent by a thread other than the main one queues its block.    *)
LEMMA ShowStep ==
  ASSUME LightInv, mainQueue' = Append(mainQueue, Show),
         \A r \in Request : Goes(r), UNCHANGED indicator,
         Blamed' \/ \E r \in Request : Pending(r)'
  PROVE  LightInv'
<1>1. /\ mainQueue' \in Seq(Request \cup {Show})
      /\ Len(mainQueue) \in Nat
      /\ DOMAIN mainQueue = 1 .. Len(mainQueue)
      /\ DOMAIN mainQueue' = 1 .. (Len(mainQueue) + 1)
      /\ mainQueue'[Len(mainQueue) + 1] = Show
      /\ \A i \in DOMAIN mainQueue :
           /\ i \in DOMAIN mainQueue' /\ i < Len(mainQueue) + 1
           /\ mainQueue'[i] = mainQueue[i]
  BY Appended DEF LightInv
<1>2. \A i \in DOMAIN mainQueue' : i \in DOMAIN mainQueue \/ mainQueue'[i] = Show
  BY <1>1
<1>3. \A r \in Request : Queued(r)' <=> Queued(r)
  BY <1>1, <1>2, NoShow DEF Queued
<1>4. QueueInv'
  BY <1>1, <1>2, <1>3 DEF LightInv, QueueInv, Goes
<1>5. IndicatorInv'
  BY DEF LightInv, IndicatorInv, IsOpen, Pending
<1>6. LaterBlocks'
  BY DEF LaterBlocks
<1>. QED
  BY <1>4, <1>5, <1>6 DEF LightInv

(* The completion block of a request joins the queue behind all others.    *)
LEMMA ArrivesLight ==
  ASSUME LightInv, NEW r \in Request, Arrives(r),
         request \in [Request -> Call]
  PROVE  LightInv'
<1>1. PICK a \in Answer :
        request' = [request EXCEPT ![r].sent = "answered", ![r].answer = a]
  BY DEF Arrives
<1>2. /\ request'[r].sent = "answered" /\ request'[r].by = request[r].by
      /\ \A s \in Request \ {r} : request'[s] = request[s]
  BY <1>1 DEF Call
<1>3. /\ Pending(r) /\ mainQueue' = Append(mainQueue, r)
      /\ UNCHANGED indicator
  BY DEF Arrives, Pending
<1>4. /\ mainQueue' \in Seq(Request \cup {Show})
      /\ Len(mainQueue) \in Nat
      /\ DOMAIN mainQueue = 1 .. Len(mainQueue)
      /\ DOMAIN mainQueue' = 1 .. (Len(mainQueue) + 1)
      /\ mainQueue'[Len(mainQueue) + 1] = r
      /\ \A i \in DOMAIN mainQueue :
           /\ i \in DOMAIN mainQueue' /\ i < Len(mainQueue) + 1
           /\ mainQueue'[i] = mainQueue[i]
  BY <1>3, Appended DEF LightInv
<1>5. /\ Len(mainQueue) + 1 \in DOMAIN mainQueue'
      /\ \A i \in DOMAIN mainQueue' :
           i \in DOMAIN mainQueue \/ i = Len(mainQueue) + 1
  BY <1>4
<1>6. ~Queued(r)
  BY <1>3 DEF LightInv, QueueInv, Pending
<1>7. /\ Queued(r)'
      /\ \A s \in Request \ {r} : Queued(s)' <=> Queued(s)
  BY <1>4, <1>5 DEF Queued
<1>8. \A i, j \in DOMAIN mainQueue' :
        mainQueue'[i] = mainQueue'[j] /\ mainQueue'[i] # Show => i = j
  <2>. SUFFICES ASSUME NEW i \in DOMAIN mainQueue', NEW j \in DOMAIN mainQueue',
                       mainQueue'[i] = mainQueue'[j], mainQueue'[i] # Show
                PROVE  i = j
    OBVIOUS
  <2>1. CASE i \in DOMAIN mainQueue /\ j \in DOMAIN mainQueue
    BY <1>4, <2>1 DEF LightInv, QueueInv
  <2>. QED
    BY <1>4, <1>5, <1>6, <2>1 DEF Queued
<1>9. QueueInv'
  BY <1>2, <1>4, <1>7, <1>8 DEF LightInv, QueueInv
<1>10. \A s \in Request : Blames(s) => Blames(s)' \/ s = r
  BY <1>2 DEF Blames
<1>11. IsOpen(r)'
  BY <1>2 DEF IsOpen
<1>12. IndicatorInv'
  BY <1>11 DEF IndicatorInv
<1>13. LaterBlocks'
  BY <1>4, <1>5, NoShow DEF LaterBlocks
<1>. QED
  BY <1>9, <1>12, <1>13 DEF LightInv

-----------------------------------------------------------------------------
(* The main run loop takes a block: the rest of the queue moves up.        *)
LEMMA MovesUp ==
  ASSUME QueueInv, NEW b, Runs(b)
  PROVE  /\ mainQueue' \in Seq(Request \cup {Show})
         /\ b \in Request \cup {Show}
         /\ 1 \in DOMAIN mainQueue /\ mainQueue[1] = b
         /\ \A i \in DOMAIN mainQueue' :
              i \in Nat /\ i + 1 \in DOMAIN mainQueue /\ mainQueue'[i] = mainQueue[i + 1]
         /\ \A i \in DOMAIN mainQueue : i # 1 =>
              i - 1 \in DOMAIN mainQueue' /\ mainQueue'[i - 1] = mainQueue[i]
<1>1. /\ mainQueue \in Seq(Request \cup {Show}) /\ mainQueue # <<>>
      /\ Head(mainQueue) = b /\ mainQueue' = Tail(mainQueue)
  BY DEF QueueInv, Runs
<1>2. /\ mainQueue' \in Seq(Request \cup {Show})
      /\ b \in Request \cup {Show}
      /\ Len(mainQueue') = Len(mainQueue) - 1
      /\ \A i \in 1 .. Len(mainQueue') : mainQueue'[i] = mainQueue[i + 1]
  BY <1>1, HeadTailProperties
<1>3. /\ Len(mainQueue) \in Nat /\ DOMAIN mainQueue = 1 .. Len(mainQueue)
      /\ DOMAIN mainQueue' = 1 .. Len(mainQueue')
      /\ Len(mainQueue) # 0 /\ mainQueue[1] = b
  BY <1>1, <1>2
<1>4. /\ \A i \in DOMAIN mainQueue' :
           i \in Nat /\ i + 1 \in DOMAIN mainQueue /\ mainQueue'[i] = mainQueue[i + 1]
      /\ 1 \in DOMAIN mainQueue
  BY <1>2, <1>3
<1>5. \A i \in DOMAIN mainQueue : i # 1 =>
        /\ i - 1 \in 1 .. Len(mainQueue') /\ (i - 1) + 1 = i
  BY <1>2, <1>3
<1>. QED
  BY <1>2, <1>3, <1>4, <1>5

(* Behind a block that shows the indicator and is gone, the others find    *)
(* behind them what they found before.                                     *)
LEMMA RunsLater ==
  ASSUME QueueInv, LaterBlocks, NEW b, Runs(b), Blamed => Blamed',
         \A r \in Request : Pending(r) => Pending(r)'
  PROVE  LaterBlocks'
<1>1. /\ \A i \in DOMAIN mainQueue' :
           i \in Nat /\ i + 1 \in DOMAIN mainQueue /\ mainQueue'[i] = mainQueue[i + 1]
      /\ \A i \in DOMAIN mainQueue : i # 1 =>
           i - 1 \in DOMAIN mainQueue' /\ mainQueue'[i - 1] = mainQueue[i]
  BY MovesUp
<1>2. DOMAIN mainQueue \subseteq Nat
  BY DEF QueueInv
<1>. SUFFICES ASSUME NEW i \in DOMAIN mainQueue', mainQueue'[i] = Show, ~Blamed',
                     \A r \in Request : ~Pending(r)'
              PROVE  \E j \in DOMAIN mainQueue' : i < j /\ mainQueue'[j] \in Request
  BY DEF LaterBlocks
<1>3. PICK j \in DOMAIN mainQueue : i + 1 < j /\ mainQueue[j] \in Request
  BY <1>1 DEF LaterBlocks
<1>4. j # 1 /\ i < j - 1
  BY <1>1, <1>2, <1>3
<1>. QED
  BY <1>1, <1>3, <1>4

LEMMA RunsShowLight ==
  ASSUME LightInv, RunsShow
  PROVE  LightInv'
<1>1. Runs(Show) /\ UNCHANGED request
  BY DEF RunsShow
<1>2. /\ mainQueue' \in Seq(Request \cup {Show})
      /\ 1 \in DOMAIN mainQueue /\ mainQueue[1] = Show
      /\ \A i \in DOMAIN mainQueue' :
           i \in Nat /\ i + 1 \in DOMAIN mainQueue /\ mainQueue'[i] = mainQueue[i + 1]
      /\ \A i \in DOMAIN mainQueue : i # 1 =>
           i - 1 \in DOMAIN mainQueue' /\ mainQueue'[i - 1] = mainQueue[i]
  BY <1>1, MovesUp DEF LightInv
<1>3. \A r \in Request : Queued(r)' <=> Queued(r)
  BY <1>2, NoShow DEF Queued
<1>4. \A i, j \in DOMAIN mainQueue' :
        mainQueue'[i] = mainQueue'[j] /\ mainQueue'[i] # Show => i = j
  BY <1>2 DEF LightInv, QueueInv
<1>5. QueueInv'
  BY <1>1, <1>2, <1>3, <1>4 DEF LightInv, QueueInv
<1>6. (Blamed => Blamed') /\ \A r \in Request : Pending(r) => Pending(r)'
  BY <1>1 DEF Blamed, Blames, Pending
<1>7. LaterBlocks'
  BY <1>1, <1>6, RunsLater DEF LightInv
<1>8. Blamed \/ \E r \in Request : IsOpen(r)
  <2>1. CASE \E j \in DOMAIN mainQueue : mainQueue[j] \in Request
    BY <2>1 DEF LightInv, QueueInv, Queued, IsOpen
  <2>. QED
    BY <1>2, <2>1 DEF LightInv, LaterBlocks, Pending, IsOpen
<1>9. IndicatorInv'
  BY <1>1, <1>8 DEF IndicatorInv, Blamed, Blames, IsOpen
<1>. QED
  BY <1>5, <1>7, <1>9 DEF LightInv

(* A completion block ends its request, and hides the indicator unless its *)
(* request is to blame.                                                    *)
LEMMA CompletesLight ==
  ASSUME LightInv, request \in [Request -> Call], NEW r \in Request, Runs(r),
         NEW b, Hears(r, b),
         indicator' => Blames(r) /\ request[r].sent = "answered"
  PROVE  LightInv'
<1>1. /\ request'[r].sent = "ended" /\ request'[r].by = request[r].by
      /\ request'[r].answer = request[r].answer
      /\ \A s \in Request \ {r} : request'[s] = request[s]
  BY DEF Hears, Call
<1>2. /\ mainQueue' \in Seq(Request \cup {Show})
      /\ 1 \in DOMAIN mainQueue /\ mainQueue[1] = r
      /\ \A i \in DOMAIN mainQueue' :
           i \in Nat /\ i + 1 \in DOMAIN mainQueue /\ mainQueue'[i] = mainQueue[i + 1]
      /\ \A i \in DOMAIN mainQueue : i # 1 =>
           i - 1 \in DOMAIN mainQueue' /\ mainQueue'[i - 1] = mainQueue[i]
  BY MovesUp DEF LightInv
<1>3. r # Show
  BY NoShow
<1>4. request[r].sent = "answered"
  BY <1>2 DEF LightInv, QueueInv, Queued
<1>5. ~Queued(r)' /\ \A s \in Request \ {r} : Queued(s)' <=> Queued(s)
  <2>1. \A i \in DOMAIN mainQueue' : mainQueue'[i] # r
    <3>. SUFFICES ASSUME NEW i \in DOMAIN mainQueue', mainQueue'[i] = r PROVE FALSE
      OBVIOUS
    <3>1. i + 1 = 1
      BY <1>2, <1>3 DEF LightInv, QueueInv
    <3>2. i # 0
      BY <1>2
    <3>. QED
      BY <1>2, <3>1, <3>2
  <2>. QED
    BY <1>2, <2>1 DEF Queued
<1>6. \A i, j \in DOMAIN mainQueue' :
        mainQueue'[i] = mainQueue'[j] /\ mainQueue'[i] # Show => i = j
  BY <1>2 DEF LightInv, QueueInv
<1>7. QueueInv'
  <2>1. mainQueue' \in Seq(Request \cup {Show})
    BY <1>2
  <2>2. \A s \in Request : request'[s].sent = "answered" <=> Queued(s)'
    BY <1>1, <1>5 DEF LightInv, QueueInv
  <2>. QED
    BY <2>1, <2>2, <1>6 DEF QueueInv
<1>8. /\ \A s \in Request : Pending(s) => Pending(s)'
      /\ \A s \in Request : Blames(s) => Blames(s)'
  BY <1>1, <1>4 DEF Pending, Blames
<1>9. LaterBlocks'
  BY <1>8, RunsLater DEF LightInv, Blamed
<1>10. IndicatorInv'
  BY <1>8 DEF IndicatorInv, Blamed
<1>. QED
  BY <1>7, <1>9, <1>10 DEF LightInv

-----------------------------------------------------------------------------
LEMMA CancelledGoes ==
  ASSUME request \in [Request -> Call], NEW R, request' = Cancelled(R)
  PROVE  \A r \in Request : Goes(r)
<1>. SUFFICES ASSUME NEW r \in Request PROVE Goes(r)
  OBVIOUS
<1>1. CASE r \in R /\ request[r].sent = "running"
  <2>1. /\ request'[r].sent = "cancelled" /\ request'[r].by = request[r].by
        /\ request'[r].answer = request[r].answer
    BY <1>1 DEF Cancelled, Call
  <2>. QED
    BY <1>1, <2>1 DEF Goes, Pending, Blames
<1>2. CASE ~(r \in R /\ request[r].sent = "running")
  <2>1. request'[r] = request[r]
    BY <1>2 DEF Cancelled
  <2>. QED
    BY <2>1 DEF Goes, Pending, Blames
<1>. QED
  BY <1>1, <1>2

LEMMA SameGoes ==
  ASSUME UNCHANGED request
  PROVE  \A r \in Request : Goes(r)
  BY DEF Goes, Pending, Blames

(* A call that is made was no call, so nothing is known of it.             *)
LEMMA MadeGoes ==
  ASSUME request \in [Request -> Call], InTurn, NEW r \in Request, IsNext(r),
         NEW c \in Call, c.sent \in {"running", "untasked"},
         request' = [request EXCEPT ![r] = c]
  PROVE  /\ \A s \in Request : Goes(s)
         /\ c.sent = "running" => Pending(r)'
         /\ c.sent = "untasked" => Blames(r)'
<1>1. request'[r] = c /\ \A s \in Request \ {r} : request'[s] = request[s]
  OBVIOUS
<1>2. request[r] = Unmade
  BY DEF IsNext, InTurn
<1>3. ~Pending(r) /\ ~Blames(r) /\ request[r].sent # "answered"
  BY <1>2 DEF Unmade, Pending, Blames, QFMethod
<1>. QED
  BY <1>1, <1>3 DEF Goes, Pending, Blames

LEMMA SendsLight ==
  ASSUME LightInv, QFInv, NEW th \in Thread, NEW sync, Sends(th, sync)
  PROVE  LightInv'
<1>. DEFINE c == [Unmade EXCEPT !.by = "HTTPClient",
                    !.sent = IF session = "open" THEN "running" ELSE "untasked"]
<1>1. PICK r \in Request : IsNext(r) /\ request' = [request EXCEPT ![r] = c]
  BY DEF Sends
<1>2. c \in Call /\ c.sent \in {"running", "untasked"}
  BY DEF Unmade, Call
<1>. HIDE DEF c
<1>3. /\ \A s \in Request : Goes(s)
      /\ Blamed' \/ \E s \in Request : Pending(s)'
  BY <1>1, <1>2, MadeGoes DEF QFInv, NetType, Blamed
<1>4. CASE UNCHANGED mainQueue
  BY <1>3, <1>4, CalmStep
<1>5. CASE mainQueue' = Append(mainQueue, Show) /\ UNCHANGED indicator
  BY <1>3, <1>5, ShowStep
<1>. QED
  BY <1>4, <1>5 DEF Sends, ShowsIndicator

LEMMA HTTPNextLight ==
  ASSUME LightInv, QFInv, HTTPNext
  PROVE  LightInv'
<1>1. request \in [Request -> Call]
  BY DEF QFInv, NetType
<1>2. CASE UNCHANGED <<request, mainQueue, indicator>>
  BY <1>2, SameGoes, CalmStep
<1>3. ASSUME NEW th \in Thread, CancelAsynRequest(th)
      PROVE  LightInv'
  BY <1>1, <1>3, CancelledGoes, CalmStep DEF CancelAsynRequest
<1>4. ASSUME NEW r \in Request, HTTPCompletes(r)
      PROVE  LightInv'
  <2>1. Runs(r) /\ Hears(r, HTTPBlock(r, request[r].answer)) /\ ~indicator'
    BY <1>4 DEF HTTPCompletes, HidesIndicator
  <2>. QED
    BY <1>1, <2>1, CompletesLight
<1>5. \A th \in Thread :
        /\ InstallsSerializer(th) => UNCHANGED <<request, mainQueue, indicator>>
        /\ \A header, sync :
             Configures(th, header, sync) => UNCHANGED <<request, mainQueue, indicator>>
  BY DEF InstallsSerializer, Configures
<1>6. \A th \in Thread :
        /\ SendsConfigured(th) => Sends(th, at[th].sync)
        /\ \A sync : SendsDirectly(th, sync) => Sends(th, sync)
  BY DEF SendsConfigured, SendsDirectly
<1>. QED
  BY <1>2, <1>3, <1>4, <1>5, <1>6, SendsLight DEF HTTPNext

LEMMA QFNextLight ==
  ASSUME LightInv, QFInv, QFNext
  PROVE  LightInv'
<1>1. request \in [Request -> Call] /\ InTurn
  BY DEF QFInv, NetType
<1>2. CASE UNCHANGED <<request, mainQueue, indicator>>
  BY <1>2, SameGoes, CalmStep
<1>3. ASSUME NEW method \in Method, NEW url \in Url, StartsTask(method, url)
      PROVE  LightInv'
  <2>. DEFINE c == [Unmade EXCEPT !.by = method, !.url = url, !.sent = "running"]
  <2>1. PICK r \in Request : IsNext(r) /\ request' = [request EXCEPT ![r] = c]
    BY <1>3 DEF StartsTask
  <2>2. c \in Call /\ c.sent = "running"
    <3>1. method \in QFMethod
      BY MethodAssumption
    <3>. QED
      BY <3>1 DEF Unmade, Call, QFMethod
  <2>. HIDE DEF c
  <2>3. (\A s \in Request : Goes(s)) /\ Pending(r)'
    BY <1>1, <2>1, <2>2, MadeGoes
  <2>4. UNCHANGED mainQueue
    BY <1>3 DEF StartsTask
  <2>. QED
    BY <2>3, <2>4, CalmStep
<1>4. ASSUME NEW th \in Thread, CancelsTasks(th)
      PROVE  LightInv'
  BY <1>1, <1>4, CancelledGoes, CalmStep DEF CancelsTasks
<1>5. ASSUME NEW th \in Thread, CancelsTaskByURL(th)
      PROVE  LightInv'
  <2>1. UNCHANGED request \/ \E R : request' = Cancelled(R)
    BY <1>5 DEF CancelsTaskByURL, CancelsByURL
  <2>2. \A r \in Request : Goes(r)
    BY <1>1, <2>1, SameGoes, CancelledGoes
  <2>. QED
    BY <1>5, <2>2, CalmStep DEF CancelsTaskByURL
<1>6. ASSUME NEW r \in Request, QFCompletes(r)
      PROVE  LightInv'
  <2>. DEFINE b == IF stopped' THEN Nil ELSE QFBlock(r, request[r].answer)
  <2>1. /\ Runs(r) /\ Hears(r, b) /\ request[r].by \in QFMethod
        /\ indicator' => request[r].answer = "error"
    BY <1>6 DEF QFCompletes
  <2>. HIDE DEF b
  <2>2. request[r].sent = "answered"
    BY <2>1, MovesUp DEF LightInv, QueueInv, Queued
  <2>. QED
    BY <1>1, <2>1, <2>2, CompletesLight DEF Blames
<1>7. /\ AddsTask => UNCHANGED <<request, mainQueue, indicator>>
      /\ \A th \in Thread :
           /\ CancelAllRequest(th) => UNCHANGED <<request, mainQueue, indicator>>
           /\ RemovesTasks(th) => UNCHANGED <<request, mainQueue, indicator>>
           /\ \A url : CancelRequestWithURL(th, url)
                         => UNCHANGED <<request, mainQueue, indicator>>
  BY DEF AddsTask, CancelAllRequest, RemovesTasks, CancelRequestWithURL
<1>. QED
  BY <1>2, <1>3, <1>4, <1>5, <1>6, <1>7 DEF QFNext

LEMMA NextLight ==
  ASSUME LightInv, QFInv, [Next]_vars
  PROVE  LightInv'
<1>1. request \in [Request -> Call]
  BY DEF QFInv, NetType
<1>2. CASE UNCHANGED vars
  BY <1>2, SameGoes, CalmStep DEF vars, taskVars
<1>. QED
  BY <1>1, <1>2, QFNextLight, HTTPNextLight, ArrivesLight, RunsShowLight DEF Next

LEMMA LightInvHolds == Spec => []LightInv
<1>1. LightInv /\ QFInv /\ [Next]_vars => LightInv'
  BY NextLight
<1>. QED
  BY <1>1, InitLight, QFInvHolds, PTL DEF Spec

(* When nothing is under way the activity indicator is off, unless a       *)
(* request is to blame that nobody hides it after (HTTPClient's block on   *)
(* the main queue and the completion blocks of both clients).              *)
THEOREM IndicatorIsOff == Spec => []IndicatorSettles
<1>1. LightInv => IndicatorSettles
  BY DEF LightInv, IndicatorInv, IndicatorSettles, Quiet, Blamed, Blames
<1>. QED
  BY <1>1, LightInvHolds, PTL

-----------------------------------------------------------------------------
(* The rest of the type invariant.                                         *)
FlagsOK == indicator \in BOOLEAN /\ stopped \in BOOLEAN
Rest == FlagsOK /\ HTTPTypeOK

LEMMA HTTPNextRest ==
  ASSUME Rest, at \in [Thread -> Place], HTTPNext
  PROVE  Rest'
<1>1. CASE UNCHANGED <<indicator, stopped, session, httpHeader, httpTimeout>>
           /\ overtaken' \in SUBSET Thread
  BY <1>1 DEF Rest, FlagsOK, HTTPTypeOK
<1>2. ASSUME NEW th \in Thread, NEW header \in Header \cup {Nil},
             NEW sync \in BOOLEAN, Configures(th, header, sync)
      PROVE  Rest'
  BY <1>2 DEF Rest, FlagsOK, HTTPTypeOK, Configures, SessionAfterGetter, OthersPreparing
<1>3. ASSUME NEW th \in Thread, InstallsSerializer(th)
      PROVE  Rest'
  <2>1. at[th].header \in Header \cup {Nil}
    BY DEF Place
  <2>. QED
    BY <1>3, <2>1
       DEF Rest, FlagsOK, HTTPTypeOK, InstallsSerializer, Installs, OthersPreparing
<1>4. ASSUME NEW th \in Thread, NEW sync, Sends(th, sync),
             UNCHANGED <<session, httpHeader, httpTimeout>>,
             overtaken' \in SUBSET Thread
      PROVE  Rest'
  <2>1. indicator' \in BOOLEAN
    BY <1>4 DEF Rest, FlagsOK, Sends, ShowsIndicator
  <2>2. stopped' \in BOOLEAN
    BY <1>4 DEF Sends
  <2>. QED
    BY <1>4, <2>1, <2>2 DEF Rest, FlagsOK, HTTPTypeOK
<1>5. ASSUME NEW th \in Thread, SendsConfigured(th)
      PROVE  Rest'
  BY <1>4, <1>5 DEF SendsConfigured, Rest, HTTPTypeOK
<1>6. ASSUME NEW th \in Thread, NEW sync \in BOOLEAN, SendsDirectly(th, sync)
      PROVE  Rest'
  BY <1>4, <1>6 DEF SendsDirectly, httpVars, Rest, HTTPTypeOK
<1>7. ASSUME NEW th \in Thread, CancelAsynRequest(th)
      PROVE  Rest'
  BY <1>7 DEF CancelAsynRequest, Rest, FlagsOK, HTTPTypeOK
<1>8. ASSUME NEW r \in Request, HTTPCompletes(r)
      PROVE  Rest'
  BY <1>8 DEF HTTPCompletes, HidesIndicator, httpVars, Rest, FlagsOK, HTTPTypeOK
<1>. QED
  BY <1>2, <1>3, <1>5, <1>6, <1>7, <1>8 DEF HTTPNext

LEMMA QFNextFlags ==
  ASSUME FlagsOK, QFNext
  PROVE  FlagsOK'
<1>1. CASE UNCHANGED <<indicator, stopped>>
  BY <1>1 DEF FlagsOK
<1>2. ASSUME NEW method \in Method, NEW url \in Url, StartsTask(method, url)
      PROVE  FlagsOK'
  BY <1>2 DEF StartsTask, FlagsOK
<1>3. ASSUME AddsTask
      PROVE  FlagsOK'
  <2>1. stopped' \in {FALSE, \E th \in Thread : Enumerates(th)} /\ UNCHANGED indicator
    BY <1>3 DEF AddsTask
  <2>2. stopped' \in BOOLEAN
    BY <2>1, Zenon
  <2>. QED
    BY <2>1, <2>2 DEF FlagsOK
<1>4. ASSUME NEW r \in Request, QFCompletes(r)
      PROVE  FlagsOK'
  <2>1. /\ indicator' \in {indicator, FALSE}
        /\ stopped' \in {TRUE, FALSE, RaisesOnStatus(r)}
    BY <1>4 DEF QFCompletes
  <2>2. RaisesOnStatus(r) \in BOOLEAN
    BY DEF RaisesOnStatus, ReadsStatus
  <2>. QED
    BY <2>1, <2>2 DEF FlagsOK
<1>5. \A th \in Thread :
        /\ CancelAllRequest(th) => UNCHANGED <<indicator, stopped>>
        /\ CancelsTasks(th) => UNCHANGED <<indicator, stopped>>
        /\ RemovesTasks(th) => UNCHANGED <<indicator, stopped>>
        /\ CancelsTaskByURL(th) => UNCHANGED <<indicator, stopped>>
        /\ \A url : CancelRequestWithURL(th, url) => UNCHANGED <<indicator, stopped>>
  BY DEF CancelAllRequest, CancelsTasks, RemovesTasks, CancelsTaskByURL,
     CancelRequestWithURL
<1>. QED
  BY <1>1, <1>2, <1>3, <1>4, <1>5 DEF QFNext

LEMMA NextRest ==
  ASSUME Rest, QFInv, [Next]_vars
  PROVE  Rest'
<1>1. at \in [Thread -> Place]
  BY DEF QFInv, NetType
<1>2. CASE UNCHANGED httpVars /\ FlagsOK'
  BY <1>2 DEF httpVars, Rest, HTTPTypeOK
<1>3. CASE UNCHANGED httpVars /\ UNCHANGED <<indicator, stopped>>
  BY <1>3 DEF httpVars, Rest, FlagsOK, HTTPTypeOK
<1>4. CASE QFNext /\ UNCHANGED httpVars
  BY <1>2, <1>4, QFNextFlags DEF Rest
<1>5. CASE RunsShow /\ UNCHANGED httpVars
  BY <1>2, <1>5 DEF RunsShow, Rest, FlagsOK
<1>6. CASE \E r \in Request : Arrives(r) /\ UNCHANGED <<qfVars, httpVars>>
  BY <1>3, <1>6 DEF Arrives
<1>7. CASE UNCHANGED vars
  BY <1>3, <1>7 DEF vars, taskVars
<1>. QED
  BY <1>1, <1>4, <1>5, <1>6, <1>7, HTTPNextRest DEF Next

(* Requests, threads, queue, array and session manager keep their types,   *)
(* and a request is answered while, and only while, its completion block   *)
(* is in the main queue (QFNetworking, HTTPClient and AFNetworking's       *)
(* dispatch to the main queue).                                            *)
THEOREM NetworkTypeOK == Spec => []TypeOK
<1>1. Init => Rest
  BY NilAssumption DEF Init, TasksInit, HTTPInit, Rest, FlagsOK, HTTPTypeOK
<1>2. Rest /\ QFInv /\ [Next]_vars => Rest'
  BY NextRest
<1>3. Rest /\ QFInv /\ LightInv => TypeOK
  BY DEF Rest, FlagsOK, QFInv, NetType, LightInv, QueueInv, Queued, TypeOK,
     TasksTypeOK, QFTypeOK
<1>. QED
  BY <1>1, <1>2, <1>3, QFInvHolds, LightInvHolds, PTL DEF Spec
=============================================================================
