# OCBase: a verification of its purchase clients, network clients and search

OCBase is an Objective-C framework of an iOS app's everyday parts: networking,
in-app purchase, logging, GCD wrappers, views, tools. Most of it is UIKit glue
or thin wrappers. The parts with state, several actors or an algorithm of their
own are four, all under `OCBase/OCBase/QFFramwork`:

- the payment client in `Components/BLIAP`, whose state must survive crashes: it
  holds money;
- the older purchase client `Components/IAP/IAPManager`, which keeps nothing;
- the two network clients in `Components/NetWork`, which meet on the main queue;
- the contact search in `QFTools/SearchCore`, C++ with containers of its own.

File names below without a directory are in `BLIAP` or are unique.

## Inventory

| component | state | operations | hard behaviour | what makes it correct |
|---|---|---|---|---|
| `BLWalletKeyChainStore`, `BLPaymentTransactionModel` | one keychain item: user -> set of models (transaction, verify count, order + md5, verified flag) | save, delete, three updates, delete all, fetch | a write removes the item of all users and then sets it; models are equal by md5 as well | one model per transaction; a model leaves only with a verdict |
| `BLPaymentVerifyManager`, `BLPaymentVerifyTask` | receipt, queue of tasks, current task, reachability, delayed starts, requests on the wire | append, refresh receipt, answers of the server, network callbacks, delayed start | answers to cancelled requests, delayed starts that outlive their task, receipts that go stale, retries that compete | every purchase is judged; one transaction is verified at a time; a receipt covers what it is uploaded for |
| `BLPaymentManager` | the verify manager, SKRequests; StoreKit's queue is outside | login, logout, StoreKit's deliveries, sandbox check, receipt fetch, verdicts, notifications, termination | redelivery, a StoreKit queue that lists nothing, crashes in every handler, user changes | no purchase is lost or finished unjudged; what is delivered is persisted |
| `IAPManager` | the handle and product of the latest call, products requests, verifications; StoreKit's queue is outside | start a purchase, products response, StoreKit's updates, answers of Apple's two servers | one handle for all purchases; transactions finished before their verdict; the process ends | every paid purchase is verified, answered once, and to its own caller |
| `IPAPurchase` | receipt files, one completion block | buy, complete, save a receipt | the verdict on a receipt is commented out | not modelled: no protocol to check |
| `HTTPClient`, `BaseRequest` | a shared session manager: session, headers, time-out | requests, synchronous or not, cancel, completions | a semaphore awaited on the thread that signals it; settings of one request on what all share; an invalidated session | callers hear; who waits returns; a request goes out with its own settings |
| `QFNetworking` | the array of session tasks, the shared time-out | POST, GET, upload, cancel by URL, cancel all, completions | only the cancel methods lock; finished tasks stay; settings stay | a running request can be cancelled; its caller hears |
| activity indicator, main queue | one flag, one queue of blocks | shown and hidden by both clients | hidden by some completions only | it is off when nothing is under way |
| `SearchCore`, `SearchCoreManager`, `SearchTree` | contacts sorted by id, lists by first letter, the last search and its trace | add, replace, delete, search, pinyin and number to highlight | an index kept beside the data; bit-packed weights; matching with several readings | the search finds what matches, first what is spelled in full, and highlights it |
| `Array` | memory blocks, an end pointer, a size | append, insert, remove, get, reset | the end pointer after a removal | it is a list |
| `LogManager` | log files by day, an archive | log, expire, compress | one queue per log line, so no order | not modelled (see below) |
| `BLDelayStartupTool`, `UITableView+MPreload`, `LoginStatus` | a few flags | start-up events, paging, deferred login block | none with a second actor | not modelled |
| GCD wrappers, word filter, encryption, hooks, views, tools, Pods | none shared between actors, or third-party | | | not modelled; reasons in `PROJECT.json` |

How they interact: `BLPaymentManager` is StoreKit's transaction observer and the
delegate of the `BLPaymentVerifyManager` it creates at login. The verify manager
owns the tasks, is their delegate, and alone touches the store. Server answers
travel task -> verify manager -> payment manager (finish with StoreKit, refresh
the receipt) and back within one handler. All of it runs on the main thread, so
a handler is one step; what interleaves are handlers, the delayed starts
(`dispatch_after`), the network callbacks and the life of the process. No other
component calls these classes.

`IAPManager` is another observer of StoreKit's queue. Nothing in the framework
uses it together with `BLIAP` (both would finish the same transactions), so the
two are modelled apart. `QFNetworking` and
`HTTPClient` do not call each other, but AFNetworking runs the completion blocks
of both on the main queue, both are called on the main thread, and both set the
status bar's activity indicator; `NetworkClients` composes them on these three.
`SearchCore` keeps its contacts and lists in `Array`s.

## Modules

| module | contents |
|---|---|
| `BLWalletKeyChainStore` | the keychain's value and the store's operations, as operators on that value |
| `BLPaymentVerifyManager` | queue, current task, delayed starts, reachability, requests; one operator per method, one action per callback |
| `BLPaymentManager` | StoreKit, crashes and the payment manager composed with the verify manager; `Spec`, its fairness, all properties |
| `PaymentLedger` | the abstract specification: a transaction is paid, judged, closed, in that order; it may be written off by the test notification |
| `MCBLPayment` | symmetry for TLC |
| `BLPaymentVerifyManager_proofs` | lemmas on the operators of the store and the verify manager |
| `BLPaymentManager_proofs` | the inductive invariants and the safety theorems |
| `BLPaymentLedger_proofs` | the refinement theorem, and that uploads contain their transaction |
| `IAPManager` | the older purchase client with StoreKit's queue and Apple's servers |
| `IAPManager_proofs` | its inductive invariant and safety theorems |
| `SessionTasks` | threads, session tasks, main queue and indicator: what the two network clients share |
| `QFNetworking`, `HTTPClient` | the steps of each client |
| `NetworkClients` | their composition: `Spec`, its fairness, all properties |
| `NetworkClients_proofs` | the inductive invariants on the array of tasks, on configurations, on the main queue and the indicator, with their theorems, and type correctness |
| `ValueList` | the abstract specification of a list with a greatest length |
| `Array` | the growing array: blocks, end pointer, size |
| `Array_proofs` | lemmas on blocks and words, the inductive invariant, the refinement of `ValueList` |
| `PinYinMatch` | matching of a text with a name or a number: the code's search by position and by the KMP table, as recursive functions, beside what a match is by definition |
| `PinYinMatch_proofs` | induction and recursion over numbers, and with them what the KMP table, the scan and the search by position compute |
| `SearchCore` | the tree and its manager: one action per method |
| `SearchCore_proofs` | the binary search and the sorted lists, the inductive invariants on the contacts, the searches and the highlights, with their theorems |
| `MCIAPManager`, `MCNetworkClients`, `MCSearchCore` | constants for TLC; `Array` needs none |

Each handler of the code is one action, with every call it makes inside it. The
operators of the lower modules constrain next-state variables, so that a handler
that crosses the classes is written as the conjunction of what it does in each:
`ReceiptVerdict(s)`, for instance, is `paymentVerifyTaskDidReceiveResponse...`
with the delegate's receipt refresh, the finish (or the flag) and the deletion,
and the planning of the next task.

What stands for what:

- A receipt is a version number; each payment makes a new one (`paidAt[t]` is the
  first version that contains `t`). The md5 of a receipt is its version, so
  `order` of a model is the version its order was created for.
- `queue` is a set. `resetOperationTaskQueueIfNeed` rebuilds the queue from the
  keychain each time before its head is taken, so only the head matters:
  `Firsts` is what the sort may put there. Models come out of an `NSSet`, so
  which of equals comes first is open.
- A request on the wire is a slot in `requests`, with the snapshot its task took.
  `-cancel` is a placeholder in `BLPaymentVerifyTask.m`, as is the sending of
  requests: a cancelled request may be answered late, and the model lets it be
  (`attached` is FALSE), or never be answered (`"drop"`). The answers are those
  of the handlers at `BLPaymentVerifyTask.m:107-150`. Valid and invalid verdicts
  are handled alike except for an alert, so they are one action.
- `timers` counts `dispatch_after` blocks. The delay (10 s per failure, at most
  60 s) is abstracted to "some time later", which includes every delay.
- StoreKit is the environment: it delivers what is in its queue after the
  observer is added, and may list nothing (`"hide"`), as the comment at
  `BLPaymentManager.m:408` says it does. Its transactions are being paid, paid or
  failed; deferred and restored ones do not occur.
- A crash may come between two handlers, between removing the keychain item and
  setting it (`CrashInsideWrite`: all users' models are gone), and between the
  two effects of a handler that touches both StoreKit and the keychain
  (`CrashBeforeFinish`, `CrashInVerdict`).
- `judged` and `cleared` are history: the transactions whose verdict the client
  acted on, and those the test notification wiped.
- `Disturbances` switches the optional parts of the environment, so that a run
  can be small in one direction and wide in another. The theorems hold for all
  its values.

In the older purchase client:

- A purchase is named by its call of `startIAPWithProductID`, and a handle by the
  call that brought it. Handlers run on the main thread, one step each; the
  servers' answers come on another thread and race with them on `handle`, which
  they read last, so the order of the steps is the order of those reads.
- StoreKit moves a transaction through its states with or without the
  application. `products` response, `LookupFails` (the request is not retained
  and may be freed, or fails with no delegate method) and the state `"Deferred"`
  are StoreKit's choices. Whether payments are allowed is an input of the call.
- An exception of the code (a nil receipt in a dictionary literal) ends the
  process, like `Kill`: what the manager held is gone, StoreKit's queue stays.

In the network clients:

- A step is one access to something another thread can reach: the session
  manager, its serializer, the array of tasks. The request methods of
  `QFNetworking` set a UIKit property first and are called on the main thread;
  its cancel methods and all of `HTTPClient` are called on any.
- A URL is a sequence of components, so that "begins with" is `IsPrefix`; an
  answer is one of the four things the completion blocks tell apart.
- AFNetworking is external: every running task is answered in the end, a
  cancelled one with an error unless its answer was on its way, and its block is
  queued on the main queue. A thread inside `dispatch_semaphore_wait` takes no
  step, and a waiting main thread runs no block.
- `stopped` stands for an exception the code raises: an array that changes while
  it is enumerated, a substring of a short URL (`QFNetworking.m:138`), the status
  of an answer that is no dictionary (`:85`, `:140`, `:234`), a request to an
  invalidated session (`HTTPClient.m:387`).

In the search:

- A character is a model value: a Chinese one has a list of readings
  (`Word2Code`), a letter stands for both cases, `Symbol` for wide characters
  without a reading. The sort string and the bit fields of a match's weight are
  the tuple of what they pack, with the sign bit at `POS_SIGN` (128 in the code).
- The stack of `IsHit` is a recursion on the path that leads to its top: of the
  positions pushed for a path the one pushed last is tried first (`TriedBefore`),
  and what is above the others is popped before them. A match by definition has
  no search: the text is cut into pieces (`Cuts`, `PieceOf`) for consecutive
  words.
- A character is of one kind (`CharAssumption`), the readings are not empty and
  of letters (`PinYinAssumption`), and contacts' numbers and texts are typed
  without the separator of numbers (`SearchAssumption`).
- The lists of `SearchCore` are sequences: that `Array` implements them, and
  where it does not, is `Array`'s refinement. `shown` and `marks` are the answers
  of the last calls, kept until they no longer belong to the contacts.
- What ends the program leaves the state of a new one, which is that of `Reset`:
  `GetPinYin` before any search (`SearchCore.mm:1034` reads a null text), and
  `GetPhoneNum` whenever there is no place to show (`SearchCoreManager.mm:229`
  takes the first all the same, and `SearchCore.mm:1411` reads the text). Of a
  text of spaces `GetPinYin` takes a character that nobody wrote: any.
- In `Array` an address is a block and an offset. What a write outside a block
  destroys is not modelled, only that it happened (`stray`).

The build modelled is a release build: `NSAssert` and `NSParameterAssert` are
compiled out, and `FB_TWEAK_ENABLED` only changes error reports. The mutex of the
store is left out: `initWithService:`, which would initialise it, is not reached
from `keyChainStoreWithService:`, and every caller is on the main thread.

## Runs

| run | cfg | shows | distinct states |
|---|---|---|---|
| `receipts` | `MCReceipts.cfg` | types; receipts cover what they are uploaded for; one transaction verified at a time; one model per transaction; models leave only with a verdict. Crashes, product requests, network changes, missing receipts, lost requests, the test notification | 71 thousand |
| `users` | `MCUsers.cfg` | no purchase lost, deliveries persisted, flags are verdicts, `PaymentLedger` implemented. Two users, crashes, logouts, foreground checks, hidden queues | 372 thousand |
| `judged` | `MCJudged.cfg` | liveness: every paid transaction is judged, unless finding 3 blocks the queue for good. Network changes, retries up to count 2 | 34 thousand |
| `starvation` | `MCStarvation.cfg` | finding 1 | violation |
| `flag_lost` | `MCFlagLost.cfg` | finding 2 | violation |
| `stall` | `MCStall.cfg` | finding 3 | violation |
| `stale_receipt` | `MCStaleReceipt.cfg` | finding 4 | violation |
| `no_receipt` | `MCNoReceipt.cfg` | finding 5 | violation |
| `array` | `MCArray.cfg` | types; no write strays while one block is enough; `ValueList` implemented until a write strays | 12 thousand |
| `search` | `MCSearchCore.cfg` | the lists by first letter are exact; the search by position and the scan for numbers find what matches by definition, in order, and highlight it | 13 thousand |
| `network` | `MCNetworkClients.cfg` | running requests can be cancelled; settings are a request's own; the indicator settles; callers hear and waiters return, except behind a waiting main thread | 479 thousand |
| `iap` | `MCIAPManager.cfg` | paid purchases are verified, answered once, to their caller, and finished in the end if there is a receipt | 1.1 million |

Bounds. Two transactions are enough for the competition between a purchase in
verification and one that arrives, which is where the queue's rules act; two
users for everything that a write does to another user's models. `MaxReceipt`
equals the number of transactions, so it never stops a payment. Two slots and
two timers allow a late answer, or a delayed start that outlived its task,
beside the live one; a step that might need another waits (`HasRoom`), it is
never denied an outcome. `MaxVerifyCount` saturates a count: 1 tells "never
failed" from "failed", which is all safety depends on; the runs about the order
of retries use 2. `Logout` waits until no delayed start is pending, because the
pending block keeps the old verify manager alive and the model has only one.
`"clear"` and `"hide"` are not combined in a run only because of its size.

`array`: blocks of two words and a table of four entries, so that each of the
following happens many times: a block fills, the table fills, a removal crosses
a block, the end is left behind in an earlier block. The two values make
misplaced ones visible. The theorems hold for all sizes, 256 and 50 included.

`search`: four contacts over three ids (one is replaced under its id), names with
a space, a symbol, a digit, a character of one reading and one of three that
share letters, numbers that contain the text across a separator or not at all;
ten texts, with and without keypad, of each kind the code tells apart. `POS_SIGN`
is 2, so that a match can start beyond it with short names.

`network`: two requests, the main thread and one other. Two requests show every
effect of one on another (a finished one beside a running one, two
configurations, an upload before another request). `"POST"` is left out there:
it differs from a GET only in a success block that looks at no URL. One URL is
the server's root, which every URL begins with, the other absolute; the two are
what the completion block of a GET tells apart.

`iap`: three calls, so that a later call can come while one is looked up and
another verified; one end of the process, besides those by exceptions, which are
not bounded; two products that are sold and one that is not. `no_receipt` needs
one call and no other end of the process than those by exceptions.

Deadlock is checked in all runs except `flag_lost` and `stall`, whose one
transaction leaves the app with nothing more to do, and `network`, `iap` and
`no_receipt`, where the bounded number of calls is used up.

Fairness (`Fairness`, `OrdersRecover`, `UploadsRecover`). Weak: StoreKit delivers
what it has, a request is answered or fails, a delayed start fires, someone logs
in to an idle app, and a network that is not reachable comes back and is reported
so, once: AFNetworking reports changes, and nothing is assumed of a network that
stays reachable. Under that, finding 3 stalls a login for good, so
`EveryPurchaseIsJudged` lets a purchase wait where, from some time on, the current
task can never finish (`[]~CurrentTaskWillFinish`), and only there. Strong: the order
request, and the upload, of a transaction that is tried again and again succeed
at some time. Without the first, a transaction whose order cannot be created is
requested for ever and shuts out all others, since order failures are not
counted (`BLPaymentVerifyManager.m:253-262`). Nothing is assumed of the user:
buying, fetching products or logging out is never fair.

In `network`, weak: a request is answered (the session's time-outs), a thread
inside a method goes on (the scheduler). Strong: the main run loop runs a queued
block, since it comes back to its queue between the events in which the main
thread calls a client again; weak fairness would let each new call disable it.
In `iap`, weak: the application is launched again, StoreKit tells it of what is
in its queue, a server answers (the requests' time-out is 20 s). Nothing is
assumed of calls, cancellations, ends of the process or receipts.

## Findings

1. `BLPaymentVerifyManager.m:515`: the comparator of the retries is inverted. The
   comment at `:512` says fewer attempts come first; the code puts more attempts
   first, so a transaction that fails keeps its place for ever and the others
   starve, which `:495` sets out to prevent (`EveryModelGetsATurn`).
2. `BLPaymentVerifyManager.m:205`: when StoreKit does not list a judged
   transaction its model is flagged for later, and deleted at the end of the same
   handler. When the transaction comes back it is verified anew; the path that
   would close it (`paymentTransactionDidFinishFromServiceAndDeleteWhenExisted:`)
   is reached only if the process dies between the two (`VerdictIsRemembered`).
3. `BLPaymentVerifyManager.m:437`: a receipt refresh cancels a current task that
   waits for its delayed start and starts nothing. The timer then starts a
   cancelled task, and purchases made from then on are persisted but not
   verified until the network changes or the user logs in anew, because
   `currentVerifingTask` is still set (`CurrentTaskWillFinish`).
4. `BLPaymentManager.m:312`: a purchase found on the return to the foreground is
   verified with the receipt at hand, which may be older than the purchase
   (`UploadCoversTransaction`). In the runs without `"foreground"` it holds: all
   other paths refresh the receipt first.
5. `IAPManager.m:233`: without a receipt file the older client puts nil into a
   dictionary literal, which raises before the test for an empty receipt, the
   answer to the caller and `finishTransaction:`. The comment at `:235` makes an
   empty receipt a failed verification, `:179` closes transactions verified or
   not. The client never asks for a receipt, so StoreKit delivers the transaction,
   and the process ends, at every start until one appears (`PaidIsSettled`). With a
   receipt it is finished in the end (`PaidIsFinished`).

None of the first four loses a purchase: that is what the theorems show.

What else the components do that a reader might not expect is in the conditions
of their properties, each at its line:

- Each change of the network while a retry is pending sets up one more delayed
  start, and all of them start the task that is current by then
  (`BLPaymentVerifyManager.m:427`): two uploads of one task can be on the wire,
  where `:24` says one verification at a time. They are of one transaction
  (`OneTransactionAtATime`).
- A removal in an `Array` of more than one block leaves the end in an earlier
  block, and insertions after it write outside (`Array.mm:120`). The refinement
  holds until then, and always below one block of 256.
- `Array.h:13` gives the capacity as `MALLOC_SIZE*INDEX_NUM_MAX`; the table
  counts as full one block earlier (`Array.mm:147`), which `Capacity` says.
- `IAPManager` finishes a purchase before it is verified: one whose verification
  ends with the process is lost (`PaidIsVerified` names it). Of purchases that
  overlap, the handle of a later one may be told of an earlier one.
- A synchronous request on the main thread never returns (`MainNeverReturns`,
  proved), and with it no other caller hears (`HTTPClient.m:148`).
- The headers of a `BaseRequest` undo its time-out (`ConfigurationIsOwn` says
  60, not 15). An upload sets the time-out of every later request of
  `QFNetworking` to 60 s (`TimeoutFor`); no property is about it, since nothing
  says which time-out a later request should have.
- A task added between the two halves of `cancelAllRequest` can no longer be
  cancelled (`slipped`), and a failed request of `QFNetworking` leaves the
  indicator on.
- A search for a symbol typed twice, or for a letter under a keypad, does not
  find what the definition of a match says; of two readings of a character the
  search may settle for the one that does not spell the name. A match that
  starts beyond the 128th character is none.

## What is proved

For every set of users, transactions, slots, every bound and every choice of
`Disturbances`, from the assumptions named in the modules (bounds are naturals,
the null values are distinct):

- `TypeCorrect`, `PurchasesAreNeverLost`, `FlagsAreVerdicts`,
  `DeliveriesArePersisted`, `ModelsAreUnique`, `ModelsWaitForVerdicts`,
  `OneIsVerified`
  (`BLPaymentManager_proofs`);
- `ClientImplementsLedger`, and, for every choice of `Disturbances` without
  `"foreground"`, `UploadsContainTheirTransaction` (`BLPaymentLedger_proofs`);
- `IAPTypeOK`, `PaidVerified`, `ToldOnce`, `ToldTheirCall` (`IAPManager_proofs`),
  for any products and numbers of calls and kills;
- `OwnConfiguration`, `MainStaysWaiting`, `RunningInArray`, `NetworkTypeOK`,
  `IndicatorIsOff` (`NetworkClients_proofs`), for any threads, URLs, headers,
  methods and number of requests;
- `ArrayTypeOK`, `OneBlockSafe`, `ArrayIsList` (`Array_proofs`),
  for any values, block size and table size;
- `KmpFinds`, `HitsAreMatches` (`PinYinMatch_proofs`), for any number, name and
  text, and `ListsAreExact`, `PhonesAreFound`, `PhoneIsShown`, `MatchesAreFound`,
  `FullSpellingsFirst`, `HighlightsSpell`, `SearchTypes` (`SearchCore_proofs`),
  for any contacts, characters, readings, texts and keypad.

These are all the safety and action properties that the runs check.

The argument. `TypeInv` adds to `TypeOK` that a logged-out client has no queue,
task, timer or request (`LoggedOutIsQuiet`); without it `Login` could start with
a foreign task. `SafeInv` adds the safety invariants the runs check to the facts
they need of each other: a flagged model is a judged transaction, so the branch
that finishes a flagged transaction unverified closes only judged ones; a
delivered purchase is stored, judged or cleared, which every deletion preserves
because a deletion is a verdict. `StoredWasPaid` keeps models to paid
transactions, so that a payment that fails never takes one with it. That a
deletion removes exactly the models of its transaction needs `OneModelPerTransaction`, and that in turn holds because
saving is preceded by the test that nothing is stored (`Fresh`), not because
saving removes equal models. Each invariant is proved once for initial states
and once per action; the lemmas of
`BLPaymentVerifyManager_proofs` say what the store's operations do to the set of
stored transactions and that planning a queue keeps types. `ModelsWaitForVerdicts`
is the action property under the same invariant.

For the refinement, `LedgerInv` adds that StoreKit, the receipt versions, the
histories, the current task and the requests agree on what is paid (`PaidInv`):
the ledger judges only what was paid, so the answer to a request must be about a
paid transaction. A step of the client is then classified by
what it does to the history (`Quiet`, `Pays`, `Judges`, `Closes`, `WritesOff`),
and each class is a step, or a stutter, of the ledger. `LedgerOf` maps a
transaction finished without a verdict to a value that is no state of the
ledger, so the refinement says as much as `NoPurchaseLost` and more: nothing is
reopened, forgotten or closed twice.

That uploads contain their transaction is the invariant `UploadInv` beside
`LedgerInv`: the receipt file contains every paid transaction, the receipt at
hand contains every transaction the user has stored, and the snapshots in the
current task and in the requests contain their own. A purchase does not disturb
this, because what is being paid is not stored and has no task yet (`PaidInv`); a
handler that stores a purchase refreshes the receipt before, and that is where
the return to the foreground differs (`BLPaymentManager.m:312`). Without the
assumption the statement is false: `MCStaleReceipt.cfg` is the counterexample.

The older client. `IAPInv` adds to the type invariant how far a purchase is
(`Progress`): its lookup, transaction, verification and answer exclude each
other, so an answer is always the first, which `OneAnswer` alone does not carry
through a step. `HandleInv` says that the handle is that of the latest call and
that every other purchase under way has been noted in `unsettled`; it gives
`AnswersReachTheirCall`.

The network clients. `Configuration` carries the first half of a configuration
to the second: while no other thread overlaps, the time-out is the 15 s just set.
`QFInv` carries the array: requests are made in turn, so a new one was never in
the array; and while a `cancelAllRequest` is between its loop and
`removeAllObjects`, the only running requests are being added or were slipped in
(`NoneBehind`), so emptying the array hides no other. That a waiting main thread
stays needs only that no step of another thread, and no block, moves it.

The indicator. The block that shows it may still be queued when its request has
been answered. `QueueInv` says that each answered request has its completion
block in the main queue once, and `LaterBlocks` that behind every queued "show"
there is a completion block, or that a request is still running, or that one is to
blame (a failed request of `QFNetworking`, or one sent without a session
manager). An empty queue with nothing running then leaves only the last.

The array. `EndInv` says where the end pointer is while there is room: `size`
words from the start counted from its own block. It is weaker than "at the first
unused word", which a removal breaks, and strong enough for one block never to
be left; the words below `size` are then shifted as `InsertAt` and `RemoveAt` of
the sequence (`NextContents`, `InsertedContents`), unless a write strays.

The search: how a recursive definition is proved about. The library's induction
takes an operator, which no prover here instantiates, so an induction is on a
*set* of numbers: a set that holds whatever follows on smaller members holds all
(`NatInduct`, by the least number outside it, `NatLeast`). That a recursive
function satisfies its equation is `Recursion`: for any rank of the arguments by
numbers there is a function with the equation, so the `CHOOSE` behind the
definition has something to choose. The KMP table, the fall through it, the scan
and the search by position each have one such lemma, and after it only the
equation is used.

The number. `Longest` says that the scan holds, at each character, the longest
beginning of the text that ends there, and not the text itself earlier; `Falls`,
that going back through a correct table passes every beginning that could go
on. The table is correct because it is the same scan of the text over itself
(`TableResult`). `KmpFinds` follows: the scan completes the text exactly when it
is a part of the number.

The name. `TryResult` is the depth-first search's meaning: it returns a path that
goes on legally to the end of the text, and none only if there is none; from the
empty path, it begins at the first word that any legal path begins at. A legal path is then the same
as a cut of the text: the last letters typed for each word are the ends of its
pieces (`PathIsCut`), and pieces can be walked letter by letter (`CutIsPath`).
For a text of one character the search keeps only the first reading of each
word; `PathIsFound` shows that no match is lost by that. This gives `HitsAreMatches`, on condition that no symbol
is typed twice in a row; with such a text it is false, as noted above.

The contacts. `TreeInv` says that `SearchDataArray` is sorted by id and each list
holds the contacts with a word of its letter, by all of the word's readings; the
binary search finds the place in a sorted list (`Located`), so additions,
replacements and deletions keep it. `ShownInv` says that what is shown is what
the last search, by the keypad in force, found in the lists as they are: an
addition or deletion forgets it. A match begins with the letter of the list that
is searched (`ListHoldsMatches`), so the list hides none (`MatchesAreFound`).

The order. A text that spells the name is cut into pieces as long as the words.
The path that was found may be cut elsewhere, but the place of each of its
letters within those pieces rises with each character (`PathIsWhole`), and what
rises strictly within as many places as it has values takes each in turn
(`RisesInTurn`). So the path ends every word, and the weight says so; conversely
a weight that says so comes of a text that spells the name (`WeightSpells`). One
reading for each word is needed: of two the search may keep the wrong one.

The highlights. `NameMarksInv` and `MarksInv` say what the last answer was made
from. For a contact that matches, the trace is that of its own match, whatever was
asked before. The path takes one letter of a word, or letters of one reading
(`PathLetters`, `OneReading`), the reading that `GetPinYin` writes out
(`ReadingTaken`); a letter's place is the number of letters of the words before
it and its own (`LetterPlace`), so the places rise and hold what was typed
(`PathHighlights`). For a number, the digits typed are a part of the number with
its separators only if they are a part of one number in it, and what
`ChangeToOranagePhones` subtracts from their places is where that number begins
(`PhoneIsShown`).

The types. `SearchTypes` rests on `TreeInv` and on the types of what the last
search left behind (`SearchVarsType`, `AnswersType`). Nothing can be proved
of what a list holds beyond its end, so a well-typed answer is one that was made
without reading there; the code does not test its indices.

Only model-checked: `CallersHear` and `WaitersReturn` in the network,
`PaidIsFinished` in the older client and `EveryPurchaseIsJudged` in the payment
client, since liveness under fairness is out of the prover's reach; and the
findings, which are counterexamples of TLC. `EveryPurchaseIsJudged` is not checked
while receipts are missing: a receipt that arrives late rebuilds the queue and
starts nothing (`BLPaymentManager.m:292`).

## Not modelled

In the payment client: product details and prices, alerts, error reports,
transactions that are deferred or restored (their updates are only logged, but
the sandbox check would finish one without an identifier or a date and push any
other, `BLPaymentManager.m:351-362`), the date a queue might be sorted by (`BLPaymentManager.h:50` mentions it; the code never does), a crash
halfway through the test notification, and a jailbroken device.

In `IAPManager`: the country code taken from a price, and what a handle does.

In the network: content types (the same for all), progress, security policy and
certificates, downloads (a session manager of their own, with no other state),
the response cache (only ever given nil objects, `BaseRequest.m:55`), two threads
inside the lazy getter of the session manager at once (`HTTPClient.m:397`), a
synchronous request made inside a completion block, and a request for which
AFNetworking makes no task, which `addObject:` would raise on
(`QFNetworking.m:99`): its serializer refuses parameters only in a serialization
block of the application's, and `QFNetworking` sets none.

In the search: letter case and full-width letters, the order of results that the
sort string does not tell apart, memory pools and buffers on the stack, the
loading of the table of readings, and a list of contacts that a caller passes to
search in (`SearchCore.mm:849` casts its ids to addresses).

Whole components, each with its reason in `PROJECT.json`: `IPAPurchase`, whose
verdict on a receipt is commented out (`IPAPurchase.m:343-384`), so that nothing
decides what becomes of a purchase; `LogManager`, whose lines pass through a
queue each and come out in any order, and whose other effects are files;
start-up events, paging and the login block, which have one actor and a flag;
and wrappers of the system's libraries. The C and C++ files of the repository
are, `SearchCore` and a Base64 apart, vendored libraries under `Pods`
(SQLCipher, WCDB and others): they are third-party code and no part of this
program's own logic, which is in Objective-C.

## Plan

Done: the payment client (store, verify manager, manager, `PaymentLedger`), the
older purchase client, the two network clients, the contact search and its
array, with their runs and the theorems above.

Left, in this order:

1. The payment client with two verify managers, one of them logged out and held
   by its delayed start (`BLPaymentVerifyManager.m:427`).
2. `LogManager`: expiry and the archive beside a writer.
3. An abstract verification queue, with the verify manager shown to implement it.

Nothing is left to prove of the safety properties that the runs check now; each
item above brings its own.
