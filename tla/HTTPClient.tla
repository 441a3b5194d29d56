----------------------------- MODULE HTTPClient -----------------------------
(***************************************************************************)
(* HTTPClient and BaseRequest: a request first configures the session      *)
(* manager that every request shares (its time-out, its headers, the       *)
(* content types it accepts) and is then sent, without waiting or with     *)
(* the calling thread waiting on a semaphore that the completion block     *)
(* signals.  Every thread may call both.                                   *)
(*                                                                         *)
(* A step is one access to the shared session manager.  The accepted       *)
(* content types are the same for all requests and are left out; so are    *)
(* the cache of responses, which is only ever given nil objects, and       *)
(* downloads, which have a session manager of their own.                   *)
(***************************************************************************)
EXTENDS SessionTasks

VARIABLES
  session,      \* the session of the session manager
  httpHeader,   \* headers of its request serializer
  httpTimeout,  \* timeoutInterval of its request serializer
  overtaken     \* history: threads that are preparing a request and during
                \* this another thread configured one

httpVars == <<session, httpHeader, httpTimeout, overtaken>>

HTTPTypeOK ==
  /\ session \in {"none", "open", "invalid"}
  /\ httpHeader \in Header \cup {Nil}
  /\ httpTimeout \in {15, 60}
  /\ overtaken \in SUBSET Thread

HTTPInit ==
  /\ session = "none"
  /\ httpHeader = Nil
  /\ httpTimeout = 60
  /\ overtaken = {}

\* The getter sessionManager makes the session manager when there is none.
SessionAfterGetter == IF session = "none" THEN "open" ELSE session

-----------------------------------------------------------------------------
\* Threads that prepare a request while th touches the serializer.
OthersPreparing(th) ==
  {o \in Thread \ {th} : at[o].doing \in {"configuring", "sending"}}

\* A request of BaseRequest: setrRequestTimeout, its own 15 s on whatever
\* serializer is installed ...
Configures(th, header, sync) ==
  /\ Is(th, "nothing") /\ HasRoom
  /\ session' = SessionAfterGetter
  /\ httpTimeout' = 15
  /\ overtaken' = overtaken \cup OthersPreparing(th)
  /\ at' = [at EXCEPT ![th] = [Outside EXCEPT !.doing = "configuring",
                                 !.header = header, !.sync = sync]]
  /\ UNCHANGED <<request, mainQueue, indicator, stopped, httpHeader>>

(* Mutant: the serializer installed for an earlier request is kept.        *)
InstalledOnce(header) ==
  IF header = Nil \/ httpHeader # Nil
  THEN UNCHANGED <<httpHeader, httpTimeout>>
  ELSE /\ httpHeader' = header
       /\ httpTimeout' = 60

\* ... then setRequestSerializer, which for a request with headers installs
\* a new serializer with the default time-out.
Installs(header) ==
  IF header = Nil
  THEN UNCHANGED <<httpHeader, httpTimeout>>
  ELSE /\ httpHeader' = header
       /\ httpTimeout' = 60

InstallsSerializer(th) ==
  /\ Is(th, "configuring")
  /\ Installs(at[th].header)
  /\ at' = [at EXCEPT ![th].doing = "sending"]
  /\ overtaken' = overtaken \cup OthersPreparing(th)
  /\ UNCHANGED <<request, mainQueue, indicator, stopped, session>>

\* The methods of HTTPClient show the indicator in a block dispatched to the
\* main queue when they are called on another thread.
ShowsIndicator(th) ==
  IF th = Main
  THEN indicator' = TRUE /\ UNCHANGED mainQueue
  ELSE mainQueue' = Append(mainQueue, Show) /\ UNCHANGED indicator

\* They use the variable _sessionManager: without one there is no task, and
\* with an invalidated session there is an exception.  A synchronous call
\* waits on its semaphore in the first case too.
Sends(th, sync) ==
  /\ ShowsIndicator(th)
  /\ \E r \in Request :
       /\ IsNext(r)
       /\ request' = [request EXCEPT
            ![r] = [Unmade EXCEPT !.by = "HTTPClient",
                      !.sent = IF session = "open" THEN "running" ELSE "untasked"]]
       /\ IF sync /\ session # "invalid"
          THEN at' = [at EXCEPT ![th] = [Outside EXCEPT !.doing = "waiting",
                                           !.request = r, !.sync = TRUE]]
          ELSE Leaves(th)
  /\ stopped' = (session = "invalid")

\* The request of BaseRequest is sent ...
SendsConfigured(th) ==
  /\ Is(th, "sending")
  /\ Sends(th, at[th].sync)
  /\ overtaken' = overtaken \ {th}
  /\ UNCHANGED <<session, httpHeader, httpTimeout>>

\* ... or HTTPClient is called without BaseRequest.
SendsDirectly(th, sync) ==
  /\ Is(th, "nothing") /\ HasRoom
  /\ Sends(th, sync)
  /\ UNCHANGED httpVars

\* cancelAsynRequest
CancelAsynRequest(th) ==
  /\ Is(th, "nothing")
  /\ session' = "invalid"
  /\ request' = Cancelled({r \in Request : request[r].by = "HTTPClient"})
  /\ UNCHANGED <<mainQueue, indicator, at, stopped, httpHeader, httpTimeout,
                 overtaken>>

-----------------------------------------------------------------------------
(* Mutant: the failure block forgets to signal.                            *)
SignalsOnSuccess(r) ==
  at' = [th \in Thread |->
           IF /\ at[th].doing = "waiting" /\ at[th].request = r
              /\ request[r].answer # "error"
           THEN Outside
           ELSE at[th]]

\* dispatch_semaphore_signal: the thread that waits for r leaves the client.
Signals(r) ==
  at' = [th \in Thread |->
           IF at[th].doing = "waiting" /\ at[th].request = r THEN Outside
           ELSE at[th]]

(* Mutant: only the success block hides the indicator.                     *)
HidesOnSuccess(r) ==
  indicator' = IF request[r].answer = "error" THEN indicator ELSE FALSE

\* Both completion blocks hide the indicator.
HidesIndicator(r) == indicator' = FALSE

\* A completion block of a request of HTTPClient.
HTTPBlock(r, answer) == IF answer = "error" THEN "failure" ELSE "success"

HTTPCompletes(r) ==
  /\ Runs(r)
  /\ request[r].by = "HTTPClient"
  /\ HidesIndicator(r)
  /\ Hears(r, HTTPBlock(r, request[r].answer))
  /\ Signals(r)
  /\ UNCHANGED <<stopped, httpVars>>

-----------------------------------------------------------------------------
HTTPNext ==
  \/ \E th \in Thread :
       \/ \E header \in Header \cup {Nil}, sync \in BOOLEAN :
            Configures(th, header, sync)
       \/ InstallsSerializer(th)
       \/ SendsConfigured(th)
       \/ \E sync \in BOOLEAN : SendsDirectly(th, sync)
       \/ CancelAsynRequest(th)
  \/ \E r \in Request : HTTPCompletes(r)
=============================================================================
