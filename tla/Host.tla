-------------------------------- MODULE Host --------------------------------
(***************************************************************************)
(* The nginx module as a host of the library: what it does with the status *)
(* bits of xrltTransform, and the response its client gets.                *)
(*                                                                         *)
(* A response may have headers that are still being computed when parts of *)
(* it are ready.  The library counts them (headerCount) and the host holds *)
(* the chunks back until there are none, since the first chunk takes the   *)
(* header block with it.  Every call of the library is made for a context, *)
(* that of the request or that of a subrequest.                            *)
(*                                                                         *)
(* The library is reduced to the elements at the top of the response.      *)
(***************************************************************************)
EXTENDS Naturals, FiniteSets, Sequences, SequencesExt

CONSTANT Sheets   \* sequences of elements

(***************************************************************************)
(* An element of the response.                                             *)
(*   kind   a text, or one of the header elements                          *)
(*   guard  it is inside an element that first waits for a subrequest      *)
(*   late   its value waits for a subrequest                               *)
(*   shown  its test holds                                                 *)
(***************************************************************************)
Element == [kind : {"text", "header"}, guard : BOOLEAN, late : BOOLEAN, shown : BOOLEAN]

ASSUME SheetsAssumption ==
  /\ Sheets \subseteq Seq(Element)
  /\ \A s \in Sheets : \A i \in DOMAIN s :
       s[i].kind = "text" => ~ s[i].guard /\ s[i].shown

VARIABLES
  sheet,
  main,        \* xrltContext.tcb
  place,       \* how far an element has come
  responseCur, \* the place of xrltContext.responseCur in the response
  parked,      \* xrltResponseTransform waits on the element there
  headerCount, header, chunk, sr,  \* fields of xrltContext
  cur, running,
  serving,     \* the context the library is called for
  headersSent, \* ngx_http_xrlt_ctx_t.headers_sent
  headersOut,  \* r->main->headers_out
  posted,      \* the subrequests that are under way
  out          \* what the client has been sent

library == <<main, place, responseCur, parked, headerCount, header, chunk, sr>>
host == <<serving, headersSent, headersOut, posted, out>>
vars == <<sheet, library, cur, running, host>>
-----------------------------------------------------------------------------
Elem == DOMAIN sheet

\* The context of the request, and those of the subrequests of an element.
Main == <<"main", 0>>

Ctx == {Main} \cup ({ "guard", "value" } \X Elem)

Rest == Tail(main)

Calls(c) == running /\ main # <<>> /\ Head(main) = c

Goes == UNCHANGED <<cur, running>>

Returns(s) ==
  IF s = {} THEN Goes ELSE cur' = s /\ running' = FALSE

\* Mutant: a header is counted when it ends only.
Counted_Never(i) == headerCount

\* ctx->headerCount++, the last of a header's first call.
Counted(i) == IF sheet[i].kind = "header" THEN headerCount + 1 ELSE headerCount

(***************************************************************************)
(* The element begins: the header elements raise headerCount.  A value     *)
(* that waits for a subrequest pushes it; else a header has one more call, *)
(* and a text is there.                                                    *)
(***************************************************************************)
Begins(i) ==
  /\ headerCount' = Counted(i)
  /\ \/ /\ sheet[i].late
        /\ place' = [place EXCEPT ![i] = "value"]
        /\ sr' = Append(sr, <<"value", i>>)
        /\ main' = Rest
        /\ Returns({"SUBREQUEST"})
     \/ /\ ~ sheet[i].late
        /\ sheet[i].kind = "header"
        /\ place' = [place EXCEPT ![i] = "value"]
        /\ main' = Append(Rest, <<"end", i>>)
        /\ Goes
        /\ UNCHANGED sr
     \/ /\ ~ sheet[i].late
        /\ sheet[i].kind = "text"
        /\ place' = [place EXCEPT ![i] = "ready"]
        /\ main' = Rest
        /\ Goes
        /\ UNCHANGED sr

ElementFirst(i) ==
  /\ Calls(<<"first", i>>)
  /\ \/ /\ sheet[i].guard
        /\ place' = [place EXCEPT ![i] = "guard"]
        /\ sr' = Append(sr, <<"guard", i>>)
        /\ main' = Rest
        /\ Returns({"SUBREQUEST"})
        /\ UNCHANGED headerCount
     \/ /\ ~ sheet[i].guard
        /\ Begins(i)
  /\ UNCHANGED <<sheet, responseCur, parked, header, chunk, host>>

\* What the element around it has waited for is there.
ElementBegin(i) ==
  /\ Calls(<<"begin", i>>)
  /\ Begins(i)
  /\ UNCHANGED <<sheet, responseCur, parked, header, chunk, host>>

\* Mutant: the end of the last header does not tell of the chunks held back.
Released_Never(count) == {}

\* The chunks that may go out now that there are count headers.
Released(count) == IF count = 0 /\ chunk # <<>> THEN {"CHUNK"} ELSE {}

\* The element has its value: a header is pushed if its test holds, and the
\* response goes on if it waits for this element.
ElementEnd(i) ==
  /\ Calls(<<"end", i>>)
  /\ place' = [place EXCEPT ![i] = "ready"]
  /\ LET woken == parked /\ responseCur = i
     IN /\ main' = IF woken THEN Append(Rest, <<"response", 0>>) ELSE Rest
        /\ parked' = (parked /\ ~ woken)
  /\ \/ /\ sheet[i].kind = "text"
        /\ Goes
        /\ UNCHANGED <<headerCount, header>>
     \/ /\ sheet[i].kind = "header"
        /\ headerCount' = headerCount - 1
        /\ header' = IF sheet[i].shown THEN Append(header, i) ELSE header
        /\ Returns(Released(headerCount')
                     \cup (IF sheet[i].shown THEN {"HEADER"} ELSE {}))
  /\ UNCHANGED <<sheet, responseCur, chunk, sr, host>>

\* Texts are sent, in order: those of the elements from number a to number b.
Texts(a, b) ==
  FlattenSeq([k \in 1..(b - a + 1) |->
                IF sheet[a + k - 1].kind = "text" THEN <<a + k - 1>> ELSE <<>>])

\* xrltResponseTransform, called again: everything from responseCur on that is
\* ready becomes a chunk.
Response ==
  LET busy == { i \in responseCur..Len(sheet) : place[i] # "ready" }
      stop == IF busy = {} THEN Len(sheet) + 1
              ELSE CHOOSE i \in busy : \A j \in busy : i <= j
      texts == Texts(responseCur, stop - 1)
  IN /\ Calls(<<"response", 0>>)
     /\ responseCur' = stop
     /\ parked' = (busy # {})
     /\ chunk' = chunk \o texts
     /\ main' = Rest
     /\ Returns(IF texts = <<>> THEN {} ELSE {"CHUNK"})
     /\ UNCHANGED <<sheet, place, headerCount, header, sr, host>>

\* The loop of xrltTransform has run out of callbacks.
RunsOut ==
  /\ running
  /\ main = <<>>
  /\ Returns(IF \A i \in Elem : place[i] = "ready" THEN {"DONE"} ELSE {"WAITING"})
  /\ UNCHANGED <<sheet, library, host>>
-----------------------------------------------------------------------------
\* Mutant: the chunks are not held back.
ChunksGo_Always == TRUE

\* Chunks are sent if no header is in progress or the headers have been sent,
\* as far as the context knows: only that of the request is ever marked.
ChunksGo == headersSent[serving] \/ headerCount = 0

\* ngx_http_send_header, once, with the headers h.
HeadersFirst(h) == IF headersSent[Main] THEN <<>> ELSE << <<"headers", h>> >>

\* Mutant: chunks that are held back are something to wait for.
GoesOn_NotWhileHeld == cur \cap { "WAITING", "DONE" } = {} /\ ("CHUNK" \in cur => ChunksGo)

\* The library is called again with no value.
GoesOn == cur \cap { "WAITING", "DONE" } = {}

(***************************************************************************)
(* ngx_http_xrlt_process_transform_result, and the loop around it: the     *)
(* headers are taken, subrequests are posted, chunks are sent or not, and  *)
(* the library is called again, unless it is WAITING or DONE.              *)
(***************************************************************************)
ProcessTransformResult ==
  LET h == IF "HEADER" \in cur /\ ~ headersSent[serving] THEN headersOut \o header
                                                          ELSE headersOut
      go == "CHUNK" \in cur /\ chunk # <<>> /\ ChunksGo
      sends == go \/ "DONE" \in cur
  IN /\ ~ running
     /\ cur # {}
     /\ headersOut' = h
     /\ header' = IF "HEADER" \in cur THEN <<>> ELSE header
     /\ posted' = IF "SUBREQUEST" \in cur THEN posted \cup ToSet(sr) ELSE posted
     /\ sr' = IF "SUBREQUEST" \in cur THEN <<>> ELSE sr
     /\ chunk' = IF go THEN <<>> ELSE chunk
     /\ headersSent' = IF sends THEN [headersSent EXCEPT ![Main] = TRUE] ELSE headersSent
     /\ out' = out \o (IF sends THEN HeadersFirst(h) ELSE <<>>)
                   \o (IF go THEN [k \in DOMAIN chunk |-> <<"chunk", <<chunk[k]>> >>]
                             ELSE <<>>)
                   \o (IF "DONE" \in cur THEN << <<"last", <<>> >> >> ELSE <<>>)
     /\ cur' = {}
     /\ running' = GoesOn
     /\ UNCHANGED <<sheet, main, place, responseCur, parked, headerCount, serving>>

Idle == ~ running /\ cur = {}

\* A subrequest ends: its post-subrequest handler calls the library for it.
PostSubrequest(c) ==
  /\ Idle
  /\ c \in posted
  /\ posted' = posted \ {c}
  /\ serving' = c
  /\ main' = << <<IF c[1] = "guard" THEN "begin" ELSE "end", c[2]>> >>
  /\ running' = TRUE
  /\ UNCHANGED <<sheet, place, responseCur, parked, headerCount, header, chunk, sr,
                 cur, headersSent, headersOut, out>>
-----------------------------------------------------------------------------
\* xrltContextCreate, xrltResponseTransform for the first time, and the handler
\* of the request, which calls for the first time.
Init ==
  /\ sheet \in Sheets
  /\ main = [i \in Elem |-> <<"first", i>>] \o << <<"response", 0>> >>
  /\ place = [i \in Elem |-> "first"]
  /\ responseCur = 1
  /\ parked = FALSE
  /\ headerCount = 0
  /\ header = <<>>
  /\ chunk = <<>>
  /\ sr = <<>>
  /\ cur = {}
  /\ running = TRUE
  /\ serving = Main
  /\ headersSent = [c \in Ctx |-> FALSE]
  /\ headersOut = <<>>
  /\ posted = {}
  /\ out = <<>>

Loop ==
  \/ Response \/ RunsOut
  \/ \E i \in Elem : ElementFirst(i) \/ ElementBegin(i) \/ ElementEnd(i)

Next == Loop \/ ProcessTransformResult \/ \E c \in Ctx : PostSubrequest(c)

\* The library returns, the host goes on, and nginx ends every subrequest.
Fairness ==
  /\ WF_vars(Loop)
  /\ WF_vars(ProcessTransformResult)
  /\ WF_vars(\E c \in Ctx : PostSubrequest(c))

Spec == Init /\ [][Next]_vars

FairSpec == Spec /\ Fairness
-----------------------------------------------------------------------------
TypeOK ==
  /\ sheet \in Seq(Element)
  /\ main \in Seq({ "first", "begin", "end", "response" } \X Nat)
  /\ place \in [Elem -> {"first", "guard", "value", "ready"}]
  /\ responseCur \in 1..(Len(sheet) + 1)
  /\ parked \in BOOLEAN
  /\ headerCount \in Nat
  /\ header \in Seq(Elem)
  /\ chunk \in Seq(Elem)
  /\ ToSet(sr) \subseteq Ctx
  /\ cur \subseteq { "WAITING", "DONE", "HEADER", "CHUNK", "SUBREQUEST" }
  /\ running \in BOOLEAN
  /\ serving \in Ctx
  /\ headersSent \in [Ctx -> BOOLEAN]
  /\ headersOut \in Seq(Elem)
  /\ posted \subseteq Ctx
  /\ out \in Seq({ "headers", "chunk", "last" } \X Seq(Elem))

\* The texts among what the client has been sent.
TextsOf(o) ==
  FlattenSeq([k \in DOMAIN o |-> IF o[k][1] = "chunk" THEN o[k][2] ELSE <<>>])

(***************************************************************************)
(* No header is late ("Wait for headers before sending response chunks",   *)
(* xrlt.h 161-162): the header block has all headers of the response but   *)
(* those inside elements that have waited for something themselves.        *)
(***************************************************************************)
HeadersInTime ==
  \A k \in DOMAIN out : out[k][1] = "headers" =>
    \A i \in Elem :
      sheet[i].kind = "header" /\ sheet[i].shown /\ ~ sheet[i].guard =>
        i \in ToSet(out[k][2])

\* One header block, before everything else ...
OneHeaderBlock == \A k \in DOMAIN out : out[k][1] = "headers" <=> k = 1

\* ... all texts in the order of the response, held back or not ...
TextsInOrder == TextsOf(out) \o chunk = Texts(1, responseCur - 1)

\* ... and one end, behind all of them.
EndsWhole ==
  \A k \in DOMAIN out : out[k][1] = "last" =>
    k = Len(out) /\ chunk = <<>> /\ responseCur = Len(sheet) + 1

(***************************************************************************)
(* What the client gets is one whole response, whatever was held back and  *)
(* released on the way (module.c 303-353, 507-600; headers.cc 302-305,     *)
(* 424-427).                                                               *)
(***************************************************************************)
ResponseIsComplete == OneHeaderBlock /\ TextsInOrder /\ EndsWhole

(***************************************************************************)
(* "Send response chunks out in case we don't have response headers in     *)
(* progress or if response headers are sent" (module.c 507-508): once the  *)
(* header block has been sent, nothing is held back.                       *)
(***************************************************************************)
NothingHeldAfterHeaders == Idle /\ headersSent[Main] => chunk = <<>>

\* If every subrequest ends, the response does (module.c 588-612, 641-692).
EndsEventually == <>(\E k \in DOMAIN out : out[k][1] = "last")
=============================================================================
