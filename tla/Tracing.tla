------------------------------- MODULE Tracing -------------------------------
(***************************************************************************)
(* How spans are recorded: the Recorder of a program (recorder.go), the    *)
(* HTTP client and server instrumentation (httptrace) that make recorders  *)
(* of their own, and the OpenTracing recorder (opentracing/recorder.go),   *)
(* all above one MultiStore (multi.go).                                    *)
(*                                                                         *)
(* The program has one span and makes requests below it; a request reaches *)
(* the server not at all, once, or again when the HTTP client library      *)
(* repeats it; others come from clients that know nothing of Appdash, or   *)
(* send headers that cannot be parsed.  Each call of Middleware is a       *)
(* handler.  IDs from generateID are named for the call that generates     *)
(* them.                                                                   *)
(***************************************************************************)
EXTENDS Integers, FiniteSets, SequencesExt

CONSTANTS
    N,              \* underlying stores of the MultiStore
    Events,         \* events the program records on its span
    Logger,         \* whether the program's Recorder has a Logger
    SetName,        \* whether the Transport names its spans
    SetContextSpan, \* whether the Middleware is configured with one
    Requests,       \* calls of Transport.RoundTrip
    MaxHandlers,    \* bound: calls of Middleware,
    Calls,          \* status codes a handler writes, one sequence each
    Parts,          \* what an OpenTracing span is made of, in a sequence
    MaxFailures,    \* of operations that fail,
    MaxBoth         \* and of the two together

NoHandler == 0
NoRequest == "none"

ASSUME ConstantsAssumption ==
    /\ N \in Nat \ {0} /\ MaxFailures \in Nat /\ MaxHandlers \in Nat /\ MaxBoth \in Nat
    /\ {Logger, SetName, SetContextSpan} \subseteq BOOLEAN
    /\ Calls \subseteq Seq(Nat) /\ NoRequest \notin Requests
    /\ Parts \in Seq(Range(Parts))

Stores == 1..N

(* Calls of Middleware, numbered as they begin. *)
Handlers == 1..MaxHandlers

-----------------------------------------------------------------------------
(* IDs are sequences, the empty one is the ID 0.                           *)
NoID == <<>>
SpanID(trace, span, parent) == [trace |-> trace, span |-> span, parent |-> parent]

NewRootSpanID(call)     == SpanID(<<"trace", call>>, <<"span", call>>, NoID)
NewSpanID(parent, call) == SpanID(parent.trace, <<"span", call>>, parent.span)

ProgramSpan == NewRootSpanID(<<"program">>)
OTSpan      == NewRootSpanID(<<"opentracing">>)

(* SpanID.String and ParseSpanID: two or three IDs; what is no ID is "?".  *)
String(id) == IF id.parent = NoID THEN <<id.trace, id.span>>
                                  ELSE <<id.trace, id.span, id.parent>>

Parsed(value) == Len(value) \in {2, 3} /\ <<"?">> \notin Range(value)
ParseSpanID(value) ==
    SpanID(value[1], value[2], IF Len(value) = 3 THEN value[3] ELSE NoID)

(* The spans of a request: one for the client's event and, passed on in    *)
(* the header, one for the server's.                                       *)
ClientSpan(q) == NewSpanID(ProgramSpan, <<"client", q>>)

(* Slip: the server gets the client's span.                                *)
HeaderIsClientSpan(q) == ClientSpan(q)

HeaderSpan(q) == NewSpanID(ProgramSpan, <<"header", q>>)

(* Headers: Span-ID and Parent-Span-ID, empty when absent.                 *)
Header(span, parent) == [spanID |-> span, parentSpanID |-> parent]

ForeignHeaders ==
    {Header(<<>>, <<>>), Header(<<>>, String(ProgramSpan)), Header(<<<<"?">>>>, <<>>)}

(* getSpanID, in a sequence that is empty when a header cannot be parsed.  *)
getSpanID(h, header) ==
    IF header.spanID # <<>>
    THEN IF Parsed(header.spanID) THEN <<ParseSpanID(header.spanID)>> ELSE <<>>
    ELSE IF header.parentSpanID # <<>>
    THEN IF Parsed(header.parentSpanID)
         THEN <<NewSpanID(ParseSpanID(header.parentSpanID), <<"server", h>>)>> ELSE <<>>
    ELSE <<NewRootSpanID(<<"server", h>>)>>

-----------------------------------------------------------------------------
VARIABLES
    stored,     \* store -> annotations, each [span, event]
    failures,   \* number of operations that failed so far
    anns,       \* the program's Recorder: events recorded,
    finished,   \* whether Finish was called,
    errors,     \* and the methods whose errors Errors has not returned
    due,        \* history: the events it had when Finish was called
    told,       \* history: the methods whose errors were returned or logged
    requests,   \* keys of Transport.requests
    client,     \* request -> "new", "sent", "answered" or "done"
    answer,     \* request -> the handler that answered it, or NoHandler
    at,         \* handler -> "new", "serving", "answered", "done",
                \* "panicked" by itself, or "broken" by the Middleware
    span,       \* handler -> getSpanID
    calls,      \* handler -> the status codes it wrote
    sentBy,     \* handler -> the request it serves, or NoRequest
    part,       \* the next of Parts to collect
    logged      \* the OpenTracing recorder has logged an error

recorderVars == <<anns, finished, errors, due, told>>
clientVars   == <<requests, client, answer>>
serverVars   == <<at, span, calls, sentBy>>
otVars       == <<part, logged>>
vars == <<stored, failures, recorderVars, clientVars, serverVars, otVars>>

Init ==
    /\ stored = [i \in Stores |-> {}] /\ failures = 0
    /\ anns = {} /\ finished = FALSE /\ errors = {} /\ due = {} /\ told = {}
    /\ requests = {}
    /\ client = [q \in Requests |-> "new"] /\ answer = [q \in Requests |-> NoHandler]
    /\ at = [h \in Handlers |-> "new"] /\ span = [h \in Handlers |-> <<>>]
    /\ calls = [h \in Handlers |-> <<>>] /\ sentBy = [h \in Handlers |-> NoRequest]
    /\ part = 1 /\ logged = FALSE

-----------------------------------------------------------------------------
Begun == Cardinality({h \in Handlers : at[h] # "new"})
Bounded(failed, begun) == failed <= MaxFailures /\ failed + begun <= MaxBoth

(* MultiStore.Collect, of which the first k stores succeed.                *)
Annotations(id, evs) == [span : {id}, event : evs]

(* Slip: the stores behind the one that fails are asked as well.           *)
PutAround(st, entries, k) ==
    [i \in Stores |-> IF i # k + 1 THEN st[i] \cup entries ELSE st[i]]

Put(st, entries, k) == [i \in Stores |-> IF i <= k THEN st[i] \cup entries ELSE st[i]]

(* Slip: an error of the first store only is returned.                     *)
FailedFirst(k) == k = 0

Failed(k) == k < N

(* Events are tuples. *)
Name     == <<"name">>
ErrorLog == <<"log">>

(* A Collect and, when it fails, the one by which Recorder.error puts a    *)
(* log event on the span: how many stores take each.                       *)
Outcomes == {o \in (0..N) \X (0..N) : o[1] = N => o[2] = N}

Cost(o) == IF Failed(o[1]) THEN 1 ELSE 0

CollectAndLog(id, evs, o) ==
    /\ failures' = failures + Cost(o) /\ Bounded(failures', Begun)
    /\ stored' = IF Failed(o[1])
                 THEN Put(Put(stored, Annotations(id, evs), o[1]),
                          Annotations(id, {ErrorLog}), o[2])
                 ELSE Put(stored, Annotations(id, evs), o[1])

(* Recorder.error: the logger replaces the list that Errors returns.       *)
NoteError(method) ==
    IF Logger THEN told' = told \cup {method} /\ UNCHANGED errors
              ELSE errors' = errors \cup {method} /\ UNCHANGED told

-----------------------------------------------------------------------------
(* Recorder.Event, after Finish too.                                       *)
Event(e) ==
    /\ e \notin anns
    /\ anns' = anns \cup {e}
    /\ UNCHANGED <<stored, failures, finished, errors, due, told, clientVars, serverVars, otVars>>

(* The event cannot be marshalled.                                         *)
EventFails ==
    /\ \E l \in 0..N :
         /\ failures' = failures + 1 /\ Bounded(failures', Begun)
         /\ stored' = Put(stored, Annotations(ProgramSpan, {ErrorLog}), l)
    /\ NoteError("Event")
    /\ UNCHANGED <<anns, finished, due, clientVars, serverVars, otVars>>

(* Recorder.Finish: the first time all the events go to the collector in   *)
(* one call, and later nothing but an error does.                          *)
Finish ==
    /\ \E o \in Outcomes :
         IF finished
         THEN /\ o[1] = 0 /\ failures' = failures + Cost(o) /\ Bounded(failures', Begun)
              /\ stored' = Put(stored, Annotations(ProgramSpan, {ErrorLog}), o[2])
              /\ NoteError("Finish")
         ELSE /\ CollectAndLog(ProgramSpan, anns, o)
              /\ IF Failed(o[1]) THEN NoteError("Annotation") ELSE UNCHANGED <<errors, told>>
    /\ finished' = TRUE
    /\ due' = IF finished THEN due ELSE anns
    /\ UNCHANGED <<anns, clientVars, serverVars, otVars>>

Errors ==
    /\ errors # {}
    /\ errors' = {} /\ told' = told \cup errors
    /\ UNCHANGED <<stored, failures, anns, finished, due, clientVars, serverVars, otVars>>

-----------------------------------------------------------------------------
(* Transport.RoundTrip, up to the underlying RoundTrip.                    *)
Send(q) ==
    /\ client[q] = "new"
    /\ client' = [client EXCEPT ![q] = "sent"]
    /\ requests' = requests \cup {q}
    /\ UNCHANGED <<stored, failures, recorderVars, answer, serverVars, otVars>>

(* The status a client gets is the first one written, and the Middleware   *)
(* records the last (responseInfoRecorder).                                *)
SentStatus(h)     == IF calls[h] = <<>> THEN 200 ELSE Head(calls[h])
RecordedStatus(h) == IF calls[h] = <<>> THEN 200 ELSE Last(calls[h])

(* The underlying RoundTrip returns a handler's answer.                    *)
Answered(q) ==
    /\ client[q] = "sent"
    /\ \E h \in Handlers :
         /\ sentBy[h] = q /\ at[h] \in {"answered", "done"}
         /\ answer' = [answer EXCEPT ![q] = h]
    /\ client' = [client EXCEPT ![q] = "answered"]
    /\ UNCHANGED <<stored, failures, recorderVars, requests, serverVars, otVars>>

(* It returns an error, whether or not the request got to the server.      *)
SendFails(q) ==
    /\ client[q] = "sent"
    /\ client' = [client EXCEPT ![q] = "answered"]
    /\ UNCHANGED <<stored, failures, recorderVars, requests, answer, serverVars, otVars>>

(* CancelRequest makes it do so, if RoundTrip has got that far.            *)
CancelRequest(q) == q \in requests /\ SendFails(q)

ClientEvent(q) == <<"HTTPClient", q, IF answer[q] = NoHandler THEN -1 ELSE SentStatus(answer[q])>>

ClientEvents(q) == {ClientEvent(q)} \cup (IF SetName THEN {Name} ELSE {})

(* The rest of it.  Nobody reads the errors of the child recorder.         *)
RoundTripEnds(q) ==
    /\ client[q] = "answered"
    /\ \E o \in Outcomes : CollectAndLog(ClientSpan(q), ClientEvents(q), o)
    /\ client' = [client EXCEPT ![q] = "done"]
    /\ requests' = requests \ {q}
    /\ UNCHANGED <<recorderVars, answer, serverVars, otVars>>

-----------------------------------------------------------------------------
(* Middleware, up to next: the span is used before next only when there is *)
(* a SetContextSpan, and a header without a span panics there.             *)
Serve(h, header, q) ==
    /\ at[h] = "new" /\ h = Begun + 1 /\ Bounded(failures, h)
    /\ span' = [span EXCEPT ![h] = getSpanID(h, header)]
    /\ at' = [at EXCEPT ![h] = IF SetContextSpan /\ span'[h] = <<>> THEN "broken" ELSE "serving"]
    /\ sentBy' = [sentBy EXCEPT ![h] = q]
    /\ UNCHANGED <<stored, failures, recorderVars, clientVars, calls, otVars>>

(* A request arrives: perhaps late, or not for the first time.             *)
Deliver(h) ==
    \E q \in Requests : client[q] # "new" /\ Serve(h, Header(String(HeaderSpan(q)), <<>>), q)

DeliverForeign(h) == \E header \in ForeignHeaders : Serve(h, header, NoRequest)

(* next returns, or panics: then nothing is recorded.                      *)
HandlerEnds(h) ==
    /\ at[h] = "serving"
    /\ \/ /\ \E c \in Calls : calls' = [calls EXCEPT ![h] = c]
          /\ at' = [at EXCEPT ![h] = "answered"]
       \/ /\ at' = [at EXCEPT ![h] = "panicked"]
          /\ UNCHANGED calls
    /\ UNCHANGED <<stored, failures, recorderVars, clientVars, span, sentBy, otVars>>

ServerEvent(h) == <<"HTTPServer", h, RecordedStatus(h)>>

(* Slip: what arrives with a span of its own is left to the client to      *)
(* record.                                                                 *)
RecordNew(h) ==
    /\ at[h] = "answered"
    /\ at' = [at EXCEPT ![h] = IF span[h] = <<>> THEN "broken" ELSE "done"]
    /\ IF span[h] = <<>> \/ sentBy[h] # NoRequest
       THEN UNCHANGED <<stored, failures>>
       ELSE \E o \in Outcomes : CollectAndLog(span[h][1], {Name, ServerEvent(h)}, o)
    /\ UNCHANGED <<recorderVars, clientVars, span, calls, sentBy, otVars>>

(* The rest of Middleware, which needs the span in any case.               *)
Record(h) ==
    /\ at[h] = "answered"
    /\ at' = [at EXCEPT ![h] = IF span[h] = <<>> THEN "broken" ELSE "done"]
    /\ IF span[h] = <<>>
       THEN UNCHANGED <<stored, failures>>
       ELSE \E o \in Outcomes : CollectAndLog(span[h][1], {Name, ServerEvent(h)}, o)
    /\ UNCHANGED <<recorderVars, clientVars, span, calls, sentBy, otVars>>

-----------------------------------------------------------------------------
(* opentracing RecordSpan, one collectAnnotation: an error that cannot be  *)
(* collected either is logged, if only the first time.                     *)
RecordSpan ==
    /\ part <= Len(Parts)
    /\ \E o \in Outcomes :
         /\ CollectAndLog(OTSpan, {Parts[part]}, o)
         /\ logged' = (logged \/ Failed(o[2]))
    /\ part' = part + 1
    /\ UNCHANGED <<recorderVars, clientVars, serverVars>>

-----------------------------------------------------------------------------
(* multiStore.Trace: the first that is found; multiQueryer.Traces: each    *)
(* trace as the first store lists it that has it.                          *)
InTrace(i, t) == {a \in stored[i] : a.span.trace = t}

Trace(t) == LET having == {i \in Stores : InTrace(i, t) # {}}
            IN  IF having = {} THEN {} ELSE InTrace(Min(having), t)

Traces == [t \in {a.span.trace : a \in UNION Range(stored)} |-> Trace(t)]

-----------------------------------------------------------------------------
Next ==
    \/ \E e \in Events : Event(e)
    \/ EventFails \/ Finish \/ Errors \/ RecordSpan
    \/ \E q \in Requests :
          Send(q) \/ CancelRequest(q) \/ Answered(q) \/ SendFails(q) \/ RoundTripEnds(q)
    \/ \E h \in Handlers :
          Deliver(h) \/ DeliverForeign(h) \/ HandlerEnds(h) \/ Record(h)

Spec == Init /\ [][Next]_vars

(* A handler returns or panics, and its goroutine goes on to record.       *)
Fairness == \A h \in Handlers : WF_vars(HandlerEnds(h)) /\ WF_vars(Record(h))

FairSpec == Spec /\ Fairness

-----------------------------------------------------------------------------
TypeOK ==
    /\ DOMAIN stored = Stores /\ failures \in 0..MaxFailures
    /\ anns \subseteq Events /\ due \subseteq anns /\ finished \in BOOLEAN
    /\ errors \cup told \subseteq {"Event", "Finish", "Annotation"}
    /\ requests \subseteq Requests
    /\ client \in [Requests -> {"new", "sent", "answered", "done"}]
    /\ answer \in [Requests -> Handlers \cup {NoHandler}]
    /\ at \in [Handlers -> {"new", "serving", "answered", "done", "panicked", "broken"}]
    /\ DOMAIN span = Handlers /\ \A h \in Handlers : Len(span[h]) \in 0..1
    /\ calls \in [Handlers -> Seq(Nat)]
    /\ sentBy \in [Handlers -> Requests \cup {NoRequest}]
    /\ part \in 1..(Len(Parts) + 1) /\ logged \in BOOLEAN

(* What did not reach every store does not get lost in silence: of the     *)
(* events a Recorder had at Finish, an error is kept, was returned or was  *)
(* logged (recorder.go 90, 122), and of a part of an OpenTracing span      *)
(* there is a log entry in the trace or in the log (opentracing            *)
(* recorder.go 85, 95).                                                    *)
Everywhere(id, evs) == \A i \in Stores : Annotations(id, evs) \subseteq stored[i]

LossIsTold ==
    /\ finished => Everywhere(ProgramSpan, due) \/ "Annotation" \in errors \cup told
    /\ \A k \in 1..(part - 1) :
         Everywhere(OTSpan, {Parts[k]}) \/ Everywhere(OTSpan, {ErrorLog}) \/ logged

(* MultiStore shows all that any of its stores has, although Trace asks    *)
(* only until it is found: a Collect goes through the stores in the same   *)
(* order and ends at the first that fails, so none behind it has an        *)
(* annotation that it lacks (multi.go 12, 23, 56).                         *)
FirstFoundHasAll ==
    \A i \in Stores : \A t \in DOMAIN Traces : InTrace(i, t) \subseteq Traces[t]

(* A client and the handler that answers it describe the same call: in two *)
(* spans of one trace below the span the request was made in, neither of   *)
(* which hides the other, and with one status unless the handler wrote     *)
(* several, whichever records first and whatever arrives twice (client.go  *)
(* 133, server.go 69, header.go 37).                                       *)
EventsAgree ==
    \A q \in Requests : answer[q] # NoHandler =>
      LET h == answer[q]
      IN  \A a, b \in stored[1] :
            a.event = ClientEvent(q) /\ b.event = ServerEvent(h) =>
              /\ a.span.trace = b.span.trace /\ a.span.parent = b.span.parent
              /\ a.span.span # b.span.span
              /\ Len(calls[h]) <= 1 => a.event[3] = b.event[3]

(* A request with a good header, or with none, that is handled gets        *)
(* recorded, even when the client has given up or the request is a         *)
(* repetition, unless the handler panics or a store fails (server.go       *)
(* 84-106).                                                                *)
HandledIsRecorded ==
    \A h \in Handlers :
      at[h] = "serving" /\ span[h] # <<>> ~>
        \/ at[h] = "panicked" \/ failures > 0
        \/ \E a \in stored[1] : span[h] = <<a.span>> /\ a.event = ServerEvent(h)

(* After an invalid header the Middleware warns "Continuing with request   *)
(* handling." (server.go 72): it does not panic for want of a span.        *)
ContinuesOnBadHeader == \A h \in Handlers : at[h] # "broken"
=============================================================================
