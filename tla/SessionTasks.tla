---------------------------- MODULE SessionTasks ----------------------------
(***************************************************************************)
(* What QFNetworking and HTTPClient share: the application's threads, the  *)
(* data tasks of AFNetworking's session managers, the main queue on which  *)
(* AFNetworking runs every completion block, and the activity indicator of *)
(* the status bar.  AFNetworking, NSURLSession, GCD and UIKit are external *)
(* and modelled from how the two clients use them.                         *)
(*                                                                         *)
(* A session's time-outs bound every request, so each is answered in the   *)
(* end; a cancelled one is answered with an error unless its answer was    *)
(* already on its way.                                                     *)
(***************************************************************************)
EXTENDS Integers, Sequences, FiniteSets

CONSTANTS Thread,       \* the threads that call the two clients
          Main,         \* the main thread, whose run loop drains the main queue
          Url,          \* a URL is a sequence of path components
          Header,       \* the header dictionaries of the requests
          MaxRequests,  \* bound: calls of the two clients
          Nil

ASSUME ThreadAssumption == Main \in Thread
ASSUME UrlAssumption == \A u \in Url : u \in Seq(STRING)
ASSUME NilAssumption ==
  /\ Nil \notin Header \cup {"GET", "POST", "upload", "HTTPClient"}
  /\ Nil \notin {30, 60}
ASSUME MaxRequestsAssumption == MaxRequests \in Nat

VARIABLES
  request,    \* the calls made so far, and what became of each
  mainQueue,  \* blocks dispatched to the main queue
  indicator,  \* networkActivityIndicatorVisible
  at,         \* where each thread is inside a method of a client
  stopped     \* the application was ended by an exception

taskVars == <<request, mainQueue, indicator, at, stopped>>

Request == 1 .. MaxRequests

\* "good" is a JSON object with status 1, "bad" any other, "empty" a nil
\* object, "error" the failure block's argument.
Answer == {"good", "bad", "empty", "error"}

\* by is the method of QFNetworking called, or HTTPClient.  url is kept for
\* QFNetworking, which cancels by URL; HTTPClient does not look into an
\* object, so all but an error are one answer to it.  A call without a task
\* ("untasked") was sent to a session manager that did not exist or had been
\* invalidated.  heard is the block of the caller that was called.
Call == [by : {"GET", "POST", "upload", "HTTPClient", Nil},
         url : Url \cup {Nil},
         sent : {"unmade", "untasked", "running", "cancelled", "answered",
                 "ended"},
         answer : Answer \cup {Nil},
         heard : {"success", "failure", Nil}]
Unmade == [by |-> Nil, url |-> Nil, sent |-> "unmade", answer |-> Nil,
           heard |-> Nil]

\* The main queue holds completion blocks, named by their request, and
\* blocks that only show the indicator.
Show == 0

\* A thread outside both clients, or the step of a client it is about to
\* take and the request, URL or header that step needs.
Place == [doing : {"nothing", "adding", "cancelling", "removing",
                   "cancellingURL", "configuring", "sending", "waiting"},
          request : Request \cup {Nil},
          url : Url \cup {Nil},
          header : Header \cup {Nil},
          sync : BOOLEAN]
Outside == [doing |-> "nothing", request |-> Nil, url |-> Nil, header |-> Nil,
            sync |-> FALSE]

TasksTypeOK ==
  /\ request \in [Request -> Call]
  /\ mainQueue \in Seq(Request \cup {Show})
  /\ \A r \in Request : request[r].sent = "answered"
                       <=> \E i \in DOMAIN mainQueue : mainQueue[i] = r
  /\ indicator \in BOOLEAN
  /\ at \in [Thread -> Place]
  /\ stopped \in BOOLEAN

TasksInit ==
  /\ request = [r \in Request |-> Unmade]
  /\ mainQueue = <<>>
  /\ indicator = FALSE
  /\ at = [th \in Thread |-> Outside]
  /\ stopped = FALSE

-----------------------------------------------------------------------------
\* Calls that are numbered when they are sent: there must be a number left
\* for every thread that is about to send one.
HasRoom ==
  Cardinality({r \in Request : request[r].sent = "unmade"}) >
  Cardinality({th \in Thread : at[th].doing \in {"configuring", "sending"}})
IsNext(r) == /\ request[r].sent = "unmade"
             /\ \A s \in 1 .. (r - 1) : request[s].sent # "unmade"

Is(th, doing) == ~stopped /\ at[th].doing = doing
Leaves(th) == at' = [at EXCEPT ![th] = Outside]

IsOpen(r) == request[r].sent \in {"running", "cancelled", "answered"}

(* Mutant: cancelling also affects a task whose answer is on its way.      *)
CancelledAnyway(R) ==
  [r \in Request |-> IF r \in R /\ IsOpen(r)
                     THEN [request[r] EXCEPT !.sent = "cancelled"]
                     ELSE request[r]]

\* The calls after [task cancel] of each request of R: only a running task
\* is affected.
Cancelled(R) ==
  [r \in Request |-> IF r \in R /\ request[r].sent = "running"
                     THEN [request[r] EXCEPT !.sent = "cancelled"]
                     ELSE request[r]]

\* The session got an answer, a time-out or a cancellation, and AFNetworking
\* dispatches the completion block to the main queue.
Arrives(r) ==
  /\ ~stopped
  /\ request[r].sent \in {"running", "cancelled"}
  /\ \E a \in Answer :
       /\ request[r].sent = "cancelled" => a = "error"
       /\ request[r].by = "HTTPClient" => a \in {"good", "error"}
       /\ request' = [request EXCEPT ![r].sent = "answered", ![r].answer = a]
  /\ mainQueue' = Append(mainQueue, r)
  /\ UNCHANGED <<indicator, at, stopped>>

(* Mutant: the completion blocks run on a queue of their own.              *)
RunsElsewhere(block) ==
  /\ ~stopped
  /\ mainQueue # <<>>
  /\ Head(mainQueue) = block
  /\ mainQueue' = Tail(mainQueue)

\* The main run loop takes the block at the head of the main queue.
Runs(block) ==
  /\ Is(Main, "nothing")
  /\ mainQueue # <<>>
  /\ Head(mainQueue) = block
  /\ mainQueue' = Tail(mainQueue)

\* It is a block that network_dispatch_main_async_safe dispatched.
RunsShow ==
  /\ Runs(Show)
  /\ indicator' = TRUE
  /\ UNCHANGED <<request, at, stopped>>

\* The caller of request r hears block b, and the request is over.
Hears(r, b) ==
  request' = [request EXCEPT ![r].sent = "ended", ![r].heard = b]
=============================================================================
