---------------------------- MODULE QFNetworking ----------------------------
(***************************************************************************)
(* QFNetworking: requests sent through one AFHTTPSessionManager whose      *)
(* tasks are kept in the array allSessionTask so that they can be          *)
(* cancelled, all of them or one by its URL.                               *)
(*                                                                         *)
(* The three request methods set a UIKit property without changing thread, *)
(* so they are called on the main thread.  The two cancel methods take the *)
(* lock of @synchronized, which the request methods do not, and are called *)
(* on any thread: what a request method does to the array can fall between *)
(* any two of their steps.                                                 *)
(***************************************************************************)
EXTENDS SessionTasks, SequencesExt

CONSTANT Method   \* the request methods that are called

QFMethod == {"GET", "POST", "upload"}
ASSUME MethodAssumption == Method \subseteq QFMethod

VARIABLES
  allSessionTask,   \* the requests whose tasks are kept, oldest first
  qfTimeout,        \* timeoutInterval of the session manager, Nil before the
                    \* first request; acceptableContentTypes changes with it
  slipped           \* history: requests added to the array after a
                    \* cancelAllRequest has run through it and before it
                    \* empties it

qfVars == <<allSessionTask, qfTimeout, slipped>>

QFTypeOK ==
  /\ allSessionTask \in Seq(Request)
  /\ qfTimeout \in {30, 60, Nil}
  /\ slipped \in SUBSET Request

QFInit ==
  /\ allSessionTask = <<>>
  /\ qfTimeout = Nil
  /\ slipped = {}

\* mainDefaultAPI, the server's address, which begins every URL.
APIRoot == <<>>

-----------------------------------------------------------------------------
\* The lazy sessionManager has a time-out of 30 s; an upload sets 60 s on the
\* shared serializer, and nothing sets it back.
TimeoutFor(method) ==
  IF method = "upload" THEN 60 ELSE IF qfTimeout = Nil THEN 30 ELSE qfTimeout

\* POST, GET or the POST with images, up to the resumed task.
StartsTask(method, url) ==
  /\ Is(Main, "nothing") /\ HasRoom
  /\ indicator' = TRUE
  /\ qfTimeout' = TimeoutFor(method)
  /\ \E r \in Request :
       /\ IsNext(r)
       /\ request' = [request EXCEPT
            ![r] = [Unmade EXCEPT !.by = method, !.url = url, !.sent = "running"]]
       /\ at' = [at EXCEPT ![Main] = [Outside EXCEPT !.doing = "adding",
                                                     !.request = r]]
  /\ UNCHANGED <<mainQueue, stopped, allSessionTask, slipped>>

Enumerates(th) == at[th].doing \in {"cancelling", "cancellingURL"}

\* The last statement of the three methods, outside the lock.  An array that
\* changes while a cancel method enumerates it raises an exception there, or
\* does not.
AddsTask ==
  /\ Is(Main, "adding")
  /\ allSessionTask' = Append(allSessionTask, at[Main].request)
  /\ slipped' = IF \E th \in Thread : at[th].doing = "removing"
                THEN slipped \cup {at[Main].request}
                ELSE slipped
  /\ stopped' \in {FALSE, \E th \in Thread : Enumerates(th)}
  /\ Leaves(Main)
  /\ UNCHANGED <<request, mainQueue, indicator, qfTimeout>>

\* The success block of a GET looks at the first four characters of the URL
\* string it was given, and raises an exception when there are fewer.
IsAbsolute(url) == IsPrefix(<<"http">>, url)
RaisesOnURL(r) == /\ request[r].by = "GET"
                  /\ request[r].url = APIRoot
                  /\ request[r].answer # "error"

(* Mutant: an answer with another status calls no block of the caller.     *)
QFBlockOfGood(r, answer) ==
  CASE answer \in {"empty", "bad"} -> Nil
    [] answer = "good" -> "success"
    [] answer = "error" -> "failure"

\* A GET of an absolute URL does not look at the status in the object.
ReadsStatus(r) == ~(request[r].by = "GET" /\ IsAbsolute(request[r].url))

\* What the completion blocks make of an answer: the failure block, or the
\* success block, by the status; nothing for a nil object.
QFBlock(r, answer) ==
  CASE answer = "empty" -> Nil
    [] answer = "good" -> "success"
    [] answer = "bad" -> IF ReadsStatus(r) THEN "failure" ELSE "success"
    [] OTHER -> "failure"

\* Where the status is read, an object that is no dictionary, such as an
\* array, raises an exception.
RaisesOnStatus(r) == request[r].answer = "bad" /\ ReadsStatus(r)

\* A completion block of a request of QFNetworking.  Only a success block
\* hides the indicator.  The task stays in allSessionTask.
QFCompletes(r) ==
  /\ Runs(r)
  /\ request[r].by \in QFMethod
  /\ stopped' \in IF RaisesOnURL(r) THEN {TRUE} ELSE {FALSE, RaisesOnStatus(r)}
  /\ Hears(r, IF stopped' THEN Nil ELSE QFBlock(r, request[r].answer))
  /\ indicator' = IF request[r].answer = "error" THEN indicator ELSE FALSE
  /\ UNCHANGED <<at, qfVars>>

-----------------------------------------------------------------------------
IsLocked == \E th \in Thread :
  at[th].doing \in {"cancelling", "cancellingURL", "removing"}

\* cancelAllRequest: the lock is taken and the enumeration begins ...
CancelAllRequest(th) ==
  /\ Is(th, "nothing")
  /\ ~IsLocked
  /\ at' = [at EXCEPT ![th].doing = "cancelling"]
  /\ UNCHANGED <<request, mainQueue, indicator, stopped, qfVars>>

\* ... has cancelled every task in the array ...
CancelsTasks(th) ==
  /\ Is(th, "cancelling")
  /\ request' = Cancelled(Range(allSessionTask))
  /\ at' = [at EXCEPT ![th].doing = "removing"]
  /\ UNCHANGED <<mainQueue, indicator, stopped, qfVars>>

\* ... and the array is emptied.
RemovesTasks(th) ==
  /\ Is(th, "removing")
  /\ allSessionTask' = <<>>
  /\ Leaves(th)
  /\ UNCHANGED <<request, mainQueue, indicator, stopped, qfTimeout, slipped>>

\* cancelRequestWithURL: the lock is taken and the enumeration begins ...
CancelRequestWithURL(th, url) ==
  /\ Is(th, "nothing")
  /\ ~IsLocked
  /\ at' = [at EXCEPT ![th] = [Outside EXCEPT !.doing = "cancellingURL",
                                              !.url = url]]
  /\ UNCHANGED <<request, mainQueue, indicator, stopped, qfVars>>

\* ... and stops at the first task whose URL begins with url, which is
\* cancelled and taken out of the array.
Matching(url) == {i \in DOMAIN allSessionTask :
                    IsPrefix(url, request[allSessionTask[i]].url)}
(* Mutant: the task is cancelled after it is taken out, at its old index.  *)
CancelsAfterRemoval(url) ==
  IF Matching(url) = {}
  THEN UNCHANGED <<request, allSessionTask>>
  ELSE \E i \in Matching(url) :
         /\ \A j \in Matching(url) : i <= j
         /\ allSessionTask' = RemoveAt(allSessionTask, i)
         /\ request' = IF i \in DOMAIN allSessionTask'
                       THEN Cancelled({allSessionTask'[i]})
                       ELSE request

CancelsByURL(url) ==
  IF Matching(url) = {}
  THEN UNCHANGED <<request, allSessionTask>>
  ELSE \E i \in Matching(url) :
         /\ \A j \in Matching(url) : i <= j
         /\ request' = Cancelled({allSessionTask[i]})
         /\ allSessionTask' = RemoveAt(allSessionTask, i)

CancelsTaskByURL(th) ==
  /\ Is(th, "cancellingURL")
  /\ CancelsByURL(at[th].url)
  /\ Leaves(th)
  /\ UNCHANGED <<mainQueue, indicator, stopped, qfTimeout, slipped>>

-----------------------------------------------------------------------------
QFNext ==
  \/ \E method \in Method, url \in Url : StartsTask(method, url)
  \/ AddsTask
  \/ \E r \in Request : QFCompletes(r)
  \/ \E th \in Thread :
       \/ CancelAllRequest(th)
       \/ CancelsTasks(th)
       \/ RemovesTasks(th)
       \/ \E url \in Url : CancelRequestWithURL(th, url)
       \/ CancelsTaskByURL(th)
=============================================================================
