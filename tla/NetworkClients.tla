--------------------------- MODULE NetworkClients ---------------------------
(***************************************************************************)
(* The application's two network clients together: each has a session      *)
(* manager of its own, and they meet on the main queue, on the threads     *)
(* that call them and in the one activity indicator.                       *)
(***************************************************************************)
EXTENDS QFNetworking, HTTPClient

vars == <<taskVars, qfVars, httpVars>>

TypeOK == TasksTypeOK /\ QFTypeOK /\ HTTPTypeOK

Init == TasksInit /\ QFInit /\ HTTPInit

Next ==
  \/ QFNext /\ UNCHANGED httpVars
  \/ HTTPNext /\ UNCHANGED qfVars
  \/ \E r \in Request : Arrives(r) /\ UNCHANGED <<qfVars, httpVars>>
  \/ RunsShow /\ UNCHANGED <<qfVars, httpVars>>

-----------------------------------------------------------------------------
\* The steps of a thread that is inside a method.
Continues(th) ==
  \/ /\ \/ th = Main /\ AddsTask
        \/ CancelsTasks(th) \/ RemovesTasks(th) \/ CancelsTaskByURL(th)
     /\ UNCHANGED httpVars
  \/ /\ InstallsSerializer(th) \/ SendsConfigured(th)
     /\ UNCHANGED qfVars

\* The steps of the main run loop.
RunsBlock ==
  \/ \E r \in Request : QFCompletes(r) /\ UNCHANGED httpVars
  \/ \E r \in Request : HTTPCompletes(r) /\ UNCHANGED qfVars
  \/ RunsShow /\ UNCHANGED <<qfVars, httpVars>>

\* Time-outs bound every request, the scheduler runs every thread that is
\* inside a method, and the main run loop comes back to its queue between
\* the events in which it calls the clients again.
Fairness ==
  /\ \A r \in Request :
       WF_vars(Arrives(r) /\ UNCHANGED <<qfVars, httpVars>>)
  /\ \A th \in Thread : WF_vars(Continues(th))
  /\ SF_vars(RunsBlock)

Spec == Init /\ [][Next]_vars /\ Fairness

-----------------------------------------------------------------------------
(* A running request of QFNetworking is in allSessionTask, where the       *)
(* cancel methods find it, unless the main thread is just adding it or it  *)
(* was added while cancelAllRequest was between its loop and               *)
(* removeAllObjects on another thread.                                     *)
RunningCanBeCancelled ==
  \A r \in Request :
    request[r].by \in QFMethod /\ request[r].sent = "running"
      => \/ r \in Range(allSessionTask)
         \/ at[Main].doing = "adding" /\ at[Main].request = r
         \/ r \in slipped

(* The two clients share one indicator, which the first completion hides   *)
(* for both; still, when no request is under way and no block is queued it *)
(* is hidden, except after a request of QFNetworking that failed, or that  *)
(* HTTPClient sent without a session manager: neither hides it.            *)
Quiet == /\ mainQueue = <<>> /\ ~stopped
         /\ \A r \in Request : ~IsOpen(r)
         /\ \A th \in Thread : at[th].doing # "adding"
IndicatorSettles ==
  Quiet /\ indicator
    => \E r \in Request :
         \/ request[r].by \in QFMethod /\ request[r].answer = "error"
         \/ request[r].sent = "untasked"

(* A request of BaseRequest that is about to be sent finds its own headers *)
(* on the shared serializer, unless another thread configured a request    *)
(* meanwhile; but its own time-out of 15 s only if it has no headers: a    *)
(* serializer with headers replaces the one the time-out was set on.       *)
ConfigurationIsOwn ==
  \A th \in Thread :
    at[th].doing = "sending" /\ th \notin overtaken
      => IF at[th].header = Nil
         THEN httpTimeout = 15
         ELSE httpHeader = at[th].header /\ httpTimeout = 60

(* Every request that has a task is answered through one of its caller's   *)
(* blocks, though it be cancelled, unless the main thread waits in a       *)
(* synchronous request (whose completion then waits for the main thread),  *)
(* the application was ended, or the server sent QFNetworking no object.   *)
MainWaits == at[Main].doing = "waiting"
CallersHear ==
  \A r \in Request :
    IsOpen(r) ~> \/ request[r].heard # Nil
                 \/ request[r].answer = "empty" /\ request[r].by \in QFMethod
                 \/ MainWaits \/ stopped

(* A thread that waits in a synchronous request gets its answer, under the *)
(* same conditions, if there was a session manager to send it.             *)
WaitersReturn ==
  \A th \in Thread :
    at[th].doing = "waiting"
      ~> \/ at[th].doing # "waiting"
         \/ MainWaits \/ stopped
         \/ request[at[th].request].sent = "untasked"

(* A synchronous request made on the main thread never returns: only the   *)
(* main thread runs the block that would end the wait.                     *)
MainNeverReturns == [][MainWaits => at'[Main] = at[Main]]_vars
=============================================================================
