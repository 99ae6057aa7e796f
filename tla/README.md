# Verification of xrlt

xrlt transforms an HTTP request into a response according to a *requestsheet*,
an XML document that may, while it is being transformed, send subrequests and
use their answers.  The library (`src/libxrlt`) never blocks and owns no thread:
a host (`src/nginx`) calls `xrltTransform` with a piece of input and gets a set
of status bits back.  Everything that has to wait waits as a callback on a node
of the response document.  This directory holds TLA+ models of that machinery,
their TLC runs and proofs.

## The system

| Component | State | Operations | Hard behaviour | Correct when |
|---|---|---|---|---|
| readiness (`transform.h` 334-478) | a counter and a callback queue per node, the main queue | increase, decrease, wait, schedule | lost wake-ups, order of waking, unpaired decreases | every counter is the number of holders below it; whoever waits runs, once, inner nodes first |
| loop (`xrlt.cc` 438-572) | status bits, main queue, input callbacks by subrequest | feed a value, run callbacks until there is something to tell | returns with callbacks queued, DONE and WAITING told wrongly | DONE only when everything has been sent, WAITING only when an answer is to come, an end if all answers come |
| elements (`valueof`, `copyof`, `if`, `log`, literal elements) | nodes they put into the response, the value they wait for | one call of a transform function at a time | values read before they are whole, nodes freed under a reference | strings are taken from finished nodes, nobody refers to a freed node, logs stay out of the response |
| variables (`variable.cc`, `transform.cc` 368-441) | bindings, documents of pending values | set, set from an expression that waits, look up | read before set, bound twice, cycles | a reader in scope finds a value and never an unfinished one |
| include (`include.cc` 559-1471) | stage, parameters, parsers, answer | two rounds of parameters, subrequest, parse, test, result | partial answers, refusals, late statuses, failures half way | the request is sent once and whole, the content is the one the answer calls for, and errors end the transformation |
| request input (`include.cc` 1474-1659) | querystring, body buffer, type | querystring, body parts, type becomes known | parts before, while and after the type is known | every part is parsed once, in order, as the type meant for it |
| response (`response.cc`) | cursor over the response nodes | send what is ready, wait for what is not | document order, cursor on a replaced node | the client gets the reference text in document order |
| response headers (`headers.cc`) | count of headers under way | compute, push | chunks held back and released | no header comes after the header block, the last one releases the chunks |
| scopes (`foreach.cc`, `choose.cc`, `function.cc`) | scope numbers of nodes and callbacks, compiled parameters, documents of sources | enter an iteration, a call or a choice, look a variable up, merge parameters | lookups that leave a loop or a call, parameters that wait or not, bodies that run later | a read finds the variable of its own iteration and call, a call gets its own arguments, ready if it asks for that |
| JavaScript (`js.cc`) | functions, arguments and results put off | call, put off an argument, resolve | results in any order, results that contain results | every result is put in its own place, once, and its text is the one the call means |
| conversions (`querystring.*`, `json2xml.cc`, `xml2json.cc`) | stacks and buffers | feed a part, stringify | escapes and tokens cut between parts, arrays of keys, repeated names | the document is the one the text means, wherever it is cut, and comes back when it is written again |
| host (`ngx_http_xrlt_module.c`) | a context per request and subrequest | filters, post-subrequest handler, output | order of headers and chunks, refused subrequests | one header block, then chunks, then the end; nothing is fed after a refusal |

Elements interact through the response document only: an element makes a node
not ready (`COUNTER_INCREASE`), which makes all nodes above it not ready; an
element that needs the text of a node leaves a callback on it while it is not
ready; the decrease that makes the node ready moves the callbacks to the main
queue.  The host interacts through `xrltTransform` and the output lists.

## Modules

- `NodeQueue` — what one increase, decrease or wait does to counters and
  queues, as pure operators; used by every state machine below.
- `Readiness` — the readiness protocol by itself, for any tree and any set of
  *jobs* (pairs of an increase and a decrease) and callbacks, in any order.
- `NodeQueue_proofs`, `Readiness_proofs` — the proofs about these two, and what they
  need to know of sequences.
- `Document` — what transform functions do to the response document, as pure
  operators; used by `Transform` and `Calls`.
- `Sheet` — a compiled requestsheet as a record of functions, and `Rendered`,
  the reference text of every element given the answers so far.  `Rendered` is
  recursive over the sheet and knows nothing of nodes, queues or time: it is
  the abstract specification the transformation is compared with.
- `Transform` — the transformation: one action per call of a transform
  function, the loop, and a host that answers in any order, in parts, with
  success, failure or an error.  `TransformFirst_proofs` (the invariant, and first
  calls) and `Transform_proofs` (later calls, answers, the theorems) prove its safety
  for every sheet that can be compiled (`WellFormed`), with any number of elements.
- `InputStream` — what a request input promises: parts that come in order and
  are parsed once, without gaps, into a document or a refusal.
- `RequestInput` — the querystring and the body: types known at once or late,
  the body buffer, the order in which the host gives headers, querystring and
  body, and answers to subrequests in between.  It implements `InputStream`
  twice, as `Querystring` and `Body`; `RequestInput_proofs` proves that for bodies
  of any number of parts, and `InputCalls_proofs` what the calls in the queues
  learn and in which order.
- `Exchange` — what an include promises: its request is sent once and whole, the
  answer is heard after that, and when the answer has ended one of the two
  contents takes the place of the element, once.
- `Include` — one include in full: two rounds of parameters with their tests, the
  subrequest, the answer in parts, refused or ill-formed or an error, the success
  test and the content.  It implements `Exchange`, whose request and verdict
  are computed from the sheet alone (`MeantRequest`, `MeantTest`);
  `Include_proofs` proves that for every sheet and answers of any number of parts.
- `CallSheet` — `Sheet` with loops, choices, functions, transformations and calls:
  what they are compiled to (the function a name means, parameters merged by
  name) and `Meaning`, the text they mean, computed from the sheet by going down
  into iterations and calls with an environment.  It is the abstract
  specification of `Calls`.  A value is a string or a set of nodes, since a loop
  fails over the one and goes on over the other.
- `Calls` — variables and scopes: for-each, choose, functions, transformations of
  every type and functions in JavaScript, as many instances of an element as
  iterations and calls there are, with the lookup of `transform.cc`.
- `Host` — the nginx module over a library reduced to the elements at the top of
  the response: status bits, contexts, chunks held back for headers, the
  header block and the end of the response.  `Host_proofs` proves its safety
  for responses of any length.
- `JSON2XML` — what the callbacks of the JSON parser make of a value, with the
  stack of open containers, against `Meant`, the tree of the value as a whole.
- `XML2JSON` — the way back: the type of a node, found or inferred, and the set of
  outcomes it has where the code reads a type that was never set.
- `QueryString` — a querystring fed in parts that are cut anywhere, against the
  document its parameters mean; and the document written as a querystring.
- `Conversions` — the three together: a body is given to the parser of its type, and
  its document is converted back.
- `MCReadiness`, `MCTransform`, `MCScenarios`, `MCLog`, `MCCalls`, `MCInput`,
  `MCInclude`, `MCHost`, `MCConversions` — instances for TLC.

`Transform` shows that many elements work together and has a reduced include
in it; `Calls` has loops, scopes and calls and an include that is a node that is
not ready until the host answers; `Include` shows that one include keeps its
promise and has a reduced sheet around it; `Host` has the host in full and a
reduced library.  `Readiness`, `Transform`, `Calls`, `RequestInput` and `Include`
take their queues from `NodeQueue`; the parsers stand alone, as they do in the
code, and what `RequestInput` and `Include` take as a choice (a part is parsed
or refused) is what they compute.

### How the state corresponds to the code

`kids` is the response document (a sequence of children per node), `count` and
`tcb` are the fields of `struct _xrltNodeData`, `main` is `xrltContext.tcb`,
`responseCur`, `cur` have the names of their fields, `sent`, `logged`,
`requested` accumulate what was pushed to `chunk`, `log`, `sr`.  `stage` is the
transforming data of an include, `if` or response, `val` the string an element
asked for, `bound` what a variable name stands for in `xpath->varHash`.

A node is named by the element that makes it and its role, since every element
of the modelled kinds runs once.  A callback is named by the element and by
whether it is its first call, a later call, or the call that brings it its
value.  A text is a sequence of atoms: a text node, a constant expression and
the document an include receives are one atom each.  `Unknown` stands in the
reference text for what no answer has determined yet, so `SentInOrder` says
that nothing is sent beyond it.

A step of the loop is atomic: the library is single threaded and the host
enters between calls of `xrltTransform` only.  `Resume` is the host's loop over
empty values (`ngx_http_xrlt_transform_body`), `AnswerPartly` and
`AnswerFully` what a subrequest's filters feed; they may come before the host
has drained the queue, as they may for a host with several subrequests.

`RequestInput` has the same queues, built from `NodeQueue` over a fixed tree, and
`stage`, `type`, `ctype`, `querystring`, `bodyBuf` and `bodyBufComplete` under
their names in the code.  `given` and `parsed` record the parts that came and
those a parser got.  The elements around an input are reduced to one that makes
its type and one that reads its variable.  JSON stands with XML: either parser
may refuse a part.  The mapping to `InputStream` takes the result from the stage
until the stage is END, and from the node the result is put at afterwards
(`OutcomeOf`).

In `Include` a value is one of those the element has: `how` says whether it is
missing, a text, a node list or an expression, as `xrltCompiledValue.type` does,
and everything that is not a text reads one variable, which is bound to the
answer of another subrequest and may get its value at any time.  A header or a
parameter stands for a list of them and for its name as well.  `val` holds the
fields the values are stored in; `made` the node lists whose text is there.
What a parser makes of a part is a choice (`Outcomes`); `ended` is kept for
`Exchange` only.

In `Host` an element waits for a subrequest of its own and, if it is guarded, for
one before it begins.  `headersSent` is a flag per context, as in
`ngx_http_xrlt_ctx_t`; `serving` is the context the library is called for.

In `Calls` an instance is an element with the iterations and the calls it is in
(`at`).  `ctx->maxVarScope` gives every iteration and every call a number that is
used once, so the model names the scope by the instance.  `scope` and `root` are
`xrltNodeData.parentScope` and `.root`, `bound` is the hash of variables, keyed by
the scope and the name as in the code; `data` is what a transform function keeps
between its calls, with the fields of `xrltApplyTransformingData`,
`xrltForEachTransformingData` and `xrltChooseTransformingData` that tell cases
apart.  A lookup (`Lookup`) climbs from the element of the expression as
`xrltVariableLookupFunc` does, loops passed on the way included.  Two scripts stand
for JavaScript: `js` returns its arguments at once, `js-later` returns Deferreds of
its own that are resolved when its arguments are.  Tests look at the text of what they
read, and no node that is tested has an empty text, so that a test fails only if it
selects nothing.  Every value carries what XPath says it is: a parameter of the host,
a constant and literal text are strings, a variable without content is an empty set
of nodes, everything else is a set of nodes (`Value`; `variable.cc` 177-242).
Responses are not sent: the last two properties compare the document.

In `JSON2XML` the tree is a sequence of elements in document order, each with its
parent, and `cur` and `insert` are places in it.  A text is known by what it reads as
(a string, a number, a boolean); `blank` is a string of white space or none, which
`xml2json.cc` skips.  `ns` says whether XRLT_NS is declared where the value is put:
then the types are in it and are found again, and the root is an element, as in
`tests/json2xml`.  Where it is not, as in the documents the library makes for
includes and inputs, `xmlSearchNsByHref` gives NULL (`json2xml.cc` 418), the types are
written without a namespace (113), the document has none, and `xml2json.cc` 97 finds
none of them.  An item that the stack
does not have overwrites what lies behind it, so the model goes no further then.
In `QueryString` a character is what the parser does with it; `%hh` is an escape of
a separator, which must not separate.

## Runs

| Run | Instance | Question |
|---|---|---|
| `readiness` | document, element, two leaves; two jobs, two callbacks | Are counters exact, does everybody who waits run, in which order? |
| `scenarios` | seven sheets of seven elements, and all sheets of three elements | Do includes, variables, node list values, logs and tests that wait for one another give the reference text, and what happens when a variable is read out of its scope? |
| `calls` | 170 sheets of up to 16 elements: loops, choices, functions, transformations of every type, scripts | Does every read find the variable of its own iteration and call, every call its own arguments, and is the response the one the sheet means? |
| `calls_scopes` | a variable of a loop, read two elements deep in a loop inside it | Is it found? (It is not.) |
| `input` | a querystring and a body in two parts, in all 151 combinations of types | Is every part parsed once, in order and as the right type, whenever the type becomes known? |
| `include` | 1040 sheets of one include, answers of up to three parts | Is the request sent once and whole, and is the content that takes its place the one the answer calls for? |
| `include_unsent` | the same sheets, answers of one part | Is nobody left waiting for a subrequest that could not be sent? (Somebody is.) |
| `host` | all 1000 responses of three elements | One header block with every header, all chunks in order, and an end? |
| `host_held` | the same | Is nothing held back once the headers are sent? (Something is.) |
| `conversions` | all values of two levels of containers, and chains; all querystrings of up to four characters or escapes, cut anywhere | Is the document the one the text means, and does it come back, with the namespace declared and without? |
| `json_depth` | the same | Are no more containers open than the stack has items? (One more is.) |
| `log_leak` | a log in the response with an include in it | Does the text of a log stay out of the response? (It does not.) |

Bounds.  `readiness` needs two jobs to have a decrease that does not make a node
ready, two callbacks to have an order, and three levels to have a walk that
wakes on two levels at once.  The sheets of `scenarios` hold up to four includes,
enough for answers out of document order, a wait within a wait, and readers of
a pending variable of every kind; all sheets of three elements are there so that the
order of declarations, readers and includes is nobody's choice.  Nothing is
counted without end: every element runs a bounded number of calls.

The sheets of `calls` have loops of two iterations, functions that call functions, a
pending variable, and every way to give an argument (not at all, selected from a
pending or a ready variable, from the item of the loop, as content that is ready or
waits) to every kind of body (read, bound again, tested, looped over), with the
parameter `async` or not.  Loops go over the nodes of variables that are pending or
ready (`n`), over no nodes, and over a string, which fails.  `MCCalls` leaves some sheets out, although they compile: a
for-each directly in another (`foreach.cc` 110 writes both scopes into one node),
XSLT parameters after an expression that is not their own (`function.cc` 613), a
stringify that is not the last child of its parent (`function.cc` 1068), a
function that calls itself.  A choose without cases compiles, since `choose.cc` 19-21
only reports it (`ChooseCompiles`), but its first call reads behind the last case
(143-145); the assumption `CasesAssumption` of `Calls` leaves it out.

Two parts of a body give every order
of its parts and its type: known before, between and after them.
In `include` a value of the second round waits together with one of the first or
none, since values of one round wait on one node alike; two parts before the
last let a parser refuse at its first part, at a later one and at the end
(`Parts`).  Three elements of a response are a header, a chunk before or
behind it and one more of either kind, which is what a chunk held back for
two headers, or two chunks held back for one, need.
In `conversions` what a callback does depends on the container on top and the one below
it, so two levels with two kids in every combination hold all cases; numbers and
booleans are added alone and on one level, since only what is written of a text depends
on them.  Values that become a document are those of three leaves at most: they
have an outcome for every content of the memory, and two members beside a third
are enough for one to be mixed up with another.  Chains of
five containers on a stack of `MaxDepth` = 3 items reach its end.  Four
characters make two parameters with a name and a value, or one with
everything out of place, and every cut of them.

Deadlock is checked in `readiness` and in `calls`, where a host with nothing more to
answer stutters (`Ended`) and nothing else may.  The parsers stop when their input has
ended, and `Transform`, `RequestInput`, `Include` and `Host` stop when the
transformation is DONE or has failed, so their runs say `CHECK_DEADLOCK FALSE`;
`EndsEventually` says that they stop nowhere else.

Fairness.  The loop goes on while it has callbacks, a host that was told
something other than DONE or WAITING calls again (`module.c` 641-654), and every
subrequest is answered in the end: nginx calls the post-subrequest handler of
each.  In `input` the host also gives the headers, the querystring and all parts
of the body, as `ngx_http_xrlt_handler` and `ngx_http_xrlt_post_request_body` do.
In `include` the variable gets its value in the end, and nginx ends the
subrequest, well or with an error; it need not give a status or any part before
the last.  In `host` every posted subrequest ends.
In `readiness`, work that has begun ends and the loop runs.
In `calls` weak fairness of the loop is spelled out as *infinitely often it does not
run or takes a step*: since the run has no deadlock, the loop can always take one
while it runs, and TLC need not compute that it can.

### What the runs show

The transformation:

- The response is sent in document order, each part once and only when it is
  whole, whatever the order of the answers, and all of it at DONE
  (`SentInOrder`); DONE looks at one counter, and then nothing is queued, held or
  awaited on any node (`DoneIsComplete`).
- The transformation ends if all subrequests are answered (`EndsEventually`): it
  never tells WAITING with nothing to wait for.
- Strings are taken from finished nodes only (`ValuesAreWhole`), and no freed node
  is referred to (`NothingDangles`).
- A sheet whose variables are read in their scope never fails
  (`FailsOnlyOutOfScope`): the queue's order suffices to set variables before
  their readers run.  A sheet that reads one out of its scope may fail or not.
- Finding: a log at the top level of the response whose content waits is sent
  to the client (`LogTextStaysOut`, run `log_leak`).  The other runs keep logs
  below other elements, where the response callback waits on the outer node.

Scopes, calls and scripts:

- The response of a sheet with loops, choices and calls is the text `Meaning`
  gives it (`ResponseIsMeant`): every read finds the variable of its own iteration
  and its own call, arguments are those the call gives and the defaults are those
  of the function, and a Deferred is replaced by its value wherever it is.
- A function begins when all the parameters it has not declared async are ready,
  whoever gives them (`ArgumentsFirst`), in a loop, inside another call, and
  with a default that waits.  Every variable is found, and a sheet fails only if what
  it means comes upon a loop over a string (`FailsOnlyOverText`; `foreach.cc` 88-94);
  no freed node is referred to (`NothingDangles`), and every sheet ends
  (`EndsEventually`).  That a loop over a string does fail follows from
  `ResponseIsMeant`, for which the reference has no text there (`Failure`).
- Finding: a variable of an outer for-each that is read two elements deep in an
  inner one is not found and the transformation fails (`FailsOnlyOverText`, run
  `calls_scopes`).  Having passed a loop, the lookup starts again above the
  element of the expression and not above the loop (`transform.cc` 413-432), so
  that it passes the inner loop twice.  The sheets of `calls` read the
  variables of a loop from its children, or from outside a second loop.

Includes and inputs:

- A querystring and a body implement `InputStream` (`InputsAreStreams`): no part is
  parsed twice, early, late or out of order, and the mark of the last part is
  not lost in the buffer.  They are parsed as the type meant for them
  (`ParsedAsMeant`), read only when they are documents (`ReadersSeeTheResult`),
  and the querystring is decoded once (`DecodedOnce`).
- Two cases are left out of these by name, because nothing in the repository
  says what should happen: a querystring whose *late* type turns out to be
  `querystring` is decoded twice (`LateQuerystring`; `include.cc` 822 looks at
  the type before it is known), and an input without any type is never ready,
  so that its sheet waits for ever (`Typed`; `include.cc` 1539-1560).
- An include implements `Exchange` (`IsAnExchange`): no value that a test calls
  for is missing from the request, however late it comes, none is sent whose
  test fails, and the content is chosen by the answer's status or test, even
  if the answer is refused half way.  It ends if its subrequest does.
- Finding: an include with a body and a parameter of the body as well raises an
  error, but the transformation does not fail: it tells WAITING for ever
  (`UnsentIsNotAwaited`, run `include_unsent`; `include.cc` 973-980 and 1287).
- Left out of `include` by name: `Contradictory`, the sheet of the finding, and
  `ComputedInBody`, a parameter whose `xrl:body` is computed to be yes, which is
  counted for the body and written to the query, where there may be no buffer
  (`include.cc` 954-969 and 1004-1028).

The host:

- A response has one header block, sent before everything else, with all headers
  that are counted when the first chunk is ready; all chunks go out in order, and
  the last header releases those held back (`HeadersInTime`,
  `ResponseIsComplete`).  A header inside an element that waits itself is not
  counted before it begins and may come too late; the properties name that
  case (`guard`).
- Finding: chunks are held back after the headers have been sent, in a call made
  for a subrequest (`NothingHeldAfterHeaders`, run `host_held`; `module.c`
  507-509).  They are not lost: the header that holds them releases them.

Conversions:

- The tree of a JSON value is the one it means (`TreeIsMeant`): arrays of keys have
  no element of their own unless they are empty, arrays of arrays have one.
  `[]` alone is refused (`EmptyAlone`): its end looks for the element below
  the first and finds NULL (`json2xml.cc` 71 and 368-373).
- Written as JSON again, a tree whose types are found is what remains of the value
  (`ValueComesBack`, with `ns`): all of it but the distinctions the tree does not keep.
  An array of one item that a key has comes back as the item, members of one name
  come back as one array, and a blank string comes back as null (`Remains`).
- A tree whose types are not found is written by what `xml2json.cc` 105-120 infers, and
  where it infers nothing `type` is read without having been set, so that the outcome
  depends on the memory.  Numbers and booleans come back as strings unless the memory
  happens to say otherwise, `{}` and `[]` below a key as null, and a memory that says
  *number* for a string makes the conversion fail.  Nothing in the repository promises
  more for such documents; what `ValueComesBack` says of them is that the conversion
  can succeed and that no outcome loses or doubles a member or an item.
- Finding: the stack of the JSON parser lets in one container more than it has
  items (`StackFits`, run `json_depth`; `json2xml.cc` 48 and `json2xml.h` 60).
- A querystring has the same document wherever it is cut, after every part
  (`DocumentIsMeant`), and written as a querystring and parsed again it is the
  same document (`DocumentComesBack`).  `QueryString` begins with whole escapes only
  (`WholeEscapes`): the decoder reads behind the end of others.

## Proofs

`Readiness_proofs` proves seven properties of `Spec`, for every tree of nodes,
every finite set of jobs and every set of callbacks.

- `TypeOK`, `CountsAgree`, `NeverUnderflows` and `NoLostWakeup` come from one
  inductive invariant, `IInv`: typing, jobs that have ended are not under way, every
  counter is the number of jobs at or below its node, a callback is left only on a
  node whose counter is positive, and no decrease has failed.  Exact counters are
  what makes it inductive: since the job that ends is counted on every node of its
  path, every counter there is positive (`DecreaseSucceeds`), so the walk reaches
  the document (`WholeWalk`), decrements exactly the nodes that lose a holder,
  and empties the queue of exactly those that reach zero.
- `InOnePlace` comes from a second invariant, `Apart`: no queue has a callback
  twice and no two queues share one.  What a decrease moves is the concatenation
  of queues of different nodes, which keeps both.
- The orders of waking, `ChildrenWakeFirst` and `WakeInOrder`, are properties of
  a step: the walk goes upwards, so what it moves from a node stands in front of
  what it moves from those above, and what it moves from one node stays one
  piece.  The first needs `Apart`: a callback that is seen in the main queue
  after the step is the one that was moved.

Assumptions: a path starts at its node, has no node twice, and from each of its
nodes on it is that node's own path, which is what walking up `parent` gives in
a tree (`PathAssumption`); there are finitely many jobs (`JobAssumption`).

`Host_proofs` proves `TypeOK`, `HeadersInTime` and `ResponseIsComplete` of `Host` for
responses of any length and any mix of elements (`SheetsAssumption`: sheets are
sequences of elements).  Its invariant says that

- every element that is not ready waits for one thing, a callback or a
  subrequest, and nobody else waits for that (`OneThingEach`): so nothing is
  computed twice;
- the response callback stands behind all first calls (`Cursor`), because the
  calls below the response are scheduled before it: so by the first chunk every
  header that stands outside other elements has been counted;
- `headerCount` is the number of headers under way, and those that have ended are
  in the list or in the header block (`HeadersCounted`): so a count of zero means
  that all of them are over;
- a chunk that is held has a header that is counted (`StatusMeant`): so nothing is
  held when the transformation is over;
- what has been sent and what is listed together are the texts up to the
  cursor (`SentMeant`).

`RequestInput_proofs` proves `TypeOK` and `InputsAreStreams` of `RequestInput`, the
refinement of `InputStream` by the querystring and by the body, for every set of
sheets and bodies of any number of parts (`PartsAssumption`: at least one;
`ConfigsAssumption`: the sheets are those described at `Config`).  Its invariant
says that

- what has been given is in the buffer until the type is known, and in the
  parser while that is at work, and the buffer is marked complete exactly when
  it has the last part (`StageInStep`): so when the type becomes known the parser
  gets all that has come, and no part is left behind or handed over twice;
- the call that learns the type is queued only before the parser has begun, and
  the one that takes the result only after it has ended (`CallsInStep`): so the
  parser begins once, and its outcome stays what it was;
- no call is in two places of the queues (`QueuesApart`), which makes "queued"
  end when the call is made: without it a second copy of the type call
  would begin the parser again.

Every step then is a step of both streams or leaves them alone (`StreamStep`), and
the step that empties the buffer into the parser is the only one that depends
on where the host is (`HostInStep`).

`InputCalls_proofs` proves the other four invariants of `RequestInput` for the same
sheets and bodies: `ParsedAsMeant`, `DecodedOnce`, `ReadersSeeTheResult` and
`DoneIsComplete`.  Its invariant, `CInv`, adds to the one above

- what each counter counts (`QueuesCounted`): the type calls, answers and results
  its node waits for, one by one, so that a counter is zero when nothing is left
  to wait for, and a decrease wakes a call exactly when its last reason goes;
- the order in which calls are made: the call that puts a type together from a
  node list stands behind the call that makes the list, and a reader behind what
  it reads.  Without it a type could be taken before it is made, which is an empty
  one, and the body would be parsed as something else;
- what the type and the querystring are by then (`InputsKnown`): not set, or what
  the sheet means, and nothing else once they have been set.

`Include_proofs` proves `TypeOK` and `DoneIsComplete` of `Include`, and `IsAnExchange`,
its refinement of `Exchange`, for every set of sheets (`ConfigsAssumption`: the sheets
are those described at `Config`) and answers of any number of parts
(`PartsAssumption`).  Its invariant, `IInv`, says that

- the counter of the node of the parameters is the number of values that are
  waited for, one more before the node is first asked (`ParamsCounted`); the
  element's own node is held until it is replaced (`Counted`), the one of the result
  until the answer is over (`ResultCounted`).  This is the core: the request is
  made when the first counter is zero, so it must be zero exactly when the last
  value is there;
- the call of the include is in one queue, once, and between two steps it is left
  only on the node it waits for (`QueuesApart`, `Placed`): so a stage is run once;
- calls stand in order (`Ordered`): the element that makes a value before the
  call that takes it as a string, and that before the call of the include;
- which calls there are in each stage (`CallsInStep`): those of the first round,
  for the address, the type and the tests, are over before the second begins;
- a value is not there yet or is what the sheet means (`ValuesKnown`): so when
  the counter is zero the request that is put together is `MeantRequest`
  (`RequestIs`);
- nothing is heard before the request, and from then on the stage says how far the
  answer is and which verdict it leads to (`Heard`); what takes the place of the
  element is what that verdict calls for, once (`Replaces`).

Every step then is a step of `Exchange` or leaves it alone (`Kept`): the request is
sent by the call that meets a counter of zero, the status and the parts of the
answer are heard only after that and before its end, and the replacement is made
by the one call that has a verdict.

`Transform_proofs`, with `TransformFirst_proofs`, proves `TypeOK`, `NothingDangles`, `DoneIsComplete` and
`FailsOnlyOutOfScope` of `Transform` for every set of sheets that can be compiled
(`SheetsAssumption`: they are `WellFormed`), with any number of elements
(`ElemAssumption`: finitely many, numbered in document order), and every order and
outcome of the answers.  The sheets include those the runs leave out: logs at the
top level of the response, variables that read one another, values read out of
scope.  The inductive invariant, `IInv`, says that there is a set *B* of elements,
those whose first call has been made, with `Inv(B)`.  *B* is no part of the state,
because the code does not keep it: an element that has ended may have left
nothing behind.  `Inv(B)` has four parts.

What a state looks like (`Shape`):

- no call is in two places (`QueuesApart`), and the document is a tree (`TreeOK`);
- nothing has been done for an element that has not begun, and nothing inside a
  branch that has not been opened has begun (`Begun`): so a first call runs once;
- the nodes an element is going to add are nowhere yet (`Spare`), and the response
  cursor stands on a child of the response (`Cursor`).

Who waits for what (`Order`):

- a counter is the number of things held at its node or below it (`Counted`): an
  element that is not over, a value of a variable that is not ready, the
  parameters and the result of an include.  This is what makes "ready" mean
  finished, no decrease fail, and a count of zero at the document mean the end;
- what is busy stands where the sheet puts it, whatever the order of the calls, with
  the nodes it is going to use (`Standing`, `Reserve`): so the path from its node to
  the document, along which the counters are kept, is known from the sheet alone
  (`Above`, `Up`); and it has the calls of its stage and no others (`Phase`);
- a call is left only on a node that is not ready, and one that it waits for
  (`Placed`): so what is ready is called;
- the first calls of a part come before the call that takes the part, and the part
  is held until then (`FirstsClosed`).  Nothing is counted for a call that is only
  scheduled (`transform.cc` 487), so without the order of the queue a part could be
  taken before anything is in it;
- while an element is busy, the call that takes the part it stands in is still to
  come (`Kept`): so no element is freed before it is over.  This is what
  `NothingDangles` rests on;
- a log gives up its hold one call before it goes (`log.cc` 91), so for that time
  `Counted` does not protect it: the order of the queue does (`Logs`).  The same is
  true of a value that is made of a node list, whose call must come right before
  that of the element that wants it (`Pairs`).

Variables are set before what is written behind them is called (`Scope`), those at
the top level before everything; and what DONE and a failure mean (`Ended`).

An action is proved in two halves.  A *turn* is what every call does to queues
and counters: the call at the head goes, at most one node takes a decrease, the
calls that this wakes and those that are scheduled come behind the others, and the
call itself may be left on a node (`QueueTurned`).  That a turn keeps the invariant for
all other elements is proved once (`StepKeeps`), and each action then shows which
holds, nodes and calls of its own element it changes.  To replace an element moves
whole subtrees (`ReplacedTree`): nothing that is busy is in them, because the element
goes only when its node is ready.

`NodeQueue_proofs` holds the lemmas about the queue operators that these modules
share: running, scheduling, parking and decreasing all keep `QueuesApart`; a
decrease that meets no zero wakes what waits on the nodes that had one reason
left (`WokenOnWalk`), in the order of the walk and behind what is queued
(`JoinedOrder`), and loses nothing (`JoinedKeeps`).  It holds those about sequences
as well: injective ones, flattened ones, places, what stands in front of what.
Several of them need a least place, which the least-number principle
(`LeastNumber`) gives; it is proved there from the well-foundedness of the
natural numbers.

Model-checked only: liveness (`WaitersRun` and `EndsEventually` of every module), whose
fairness the prover cannot handle; `SentInOrder` and `ValuesAreWhole` of `Transform`,
which compare the document with `Rendered`, a text that is recursive over the
sheet and over the document; `Calls` and the conversions, whose references are recursive
over sheets and values, and whose modules hold RECURSIVE operators.

## Not modelled, and the plan

Left out for good: formatting of messages, memory and allocation failures, the
XML tree below what texts need, V8 itself, the loading of imports, the XPath
engine (an expression selects what it reads, or nothing), the node.js wrapper
prototype, which nothing in the library uses.

Left out of the instances, because the code's outcome has no text of the
repository to be compared with: variables that read one another, loops directly
in loops, functions that call themselves, and the sheets named under *Bounds*.

Planned, in this order:

1. The lookup of request and answer headers, and the XPath context an input
   callback schedules with (`include.cc` 879).
2. `apply` called from a script, and errors thrown by one.
3. XML text: `xml-stringify` writes the text of a document so far, without tags.
   (`json-parse` and `xml-parse` need no model: the code does nothing for them,
   `function.cc` 1078 and 1094.)
4. Proofs: the texts of `Transform`, where what an induction over the sheet would
   show of `Rendered` and of `TextBelow` has to come from a least counterexample
   instead, as in `NodeQueue_proofs`; and the scopes of `Calls` (`NothingDangles`), by
   the invariant of `Transform_proofs` with instances for elements.
