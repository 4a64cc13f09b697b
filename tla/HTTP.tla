-------------------------------- MODULE HTTP --------------------------------
(***************************************************************************)
(* The HTTP server: protocols/http/command_responder.py.  A connection is  *)
(* kept open (HTTP/1.1), so its client finds the next response only if     *)
(* each one's body is as its header fields say.  Connections share         *)
(* nothing; this is one of them.  Headers are reduced to what frames the   *)
(* body, payloads to their sizes.  The server waits in tarpits; while it   *)
(* talks to a remote system, or writes to the client, it waits for them,   *)
(* with no timeout.                                                        *)
(***************************************************************************)
EXTENDS Integers, Sequences, FiniteSets

CONSTANTS Nodes,     \* the entities of the configuration
          Statuses,  \* its status codes
          Paths,     \* pairs of a node (or another name) and parameters
          NoNode,    \* no alias, trigger, response or request
          GlobalTarpit,
          MaxRequests

VARIABLES disabled,  \* methods switched off by the configuration
          job,       \* what is being loaded, for which method
          slept,     \* is the tarpit of the job over?
          response,  \* loaded, to be sent
          sent,      \* the last response, as written
          requests

vars == <<disabled, job, slept, response, sent, requests>>

Init ==
    /\ disabled \in SUBSET {"HEAD", "TRACE", "OPTIONS"}
    /\ job = NoNode /\ slept = FALSE
    /\ response = NoNode /\ sent = NoNode
    /\ requests = 0

----------------------------------------------------------------------------
\* The sum of the first i widths.
Upto(widths, i) ==
    LET sum[k \in 0..Len(widths)] == IF k = 0 THEN 0 ELSE sum[k - 1] + widths[k]
    IN  sum[i]

\* A response with header fields of our own, behind those that a remote
\* system may have left in the list (mixed).
Framed(code, widths, size, mixed) ==
    [code |-> code, widths |-> widths, size |-> size, local |-> ~mixed,
     framing |-> <<IF widths = <<>> THEN "length" ELSE "chunked", size>>]

\* Mutant of Rest: what no width covers is left out.
NoRest(widths, size) == 0

\* What send_chunked sends as one more chunk behind the configured ones.
Rest(widths, size) ==
    IF size > Upto(widths, Len(widths)) THEN size - Upto(widths, Len(widths)) ELSE 0

\* Each chunk announces its configured width, however little is left.
ChunksTell(widths, size) ==
    /\ Upto(widths, Len(widths)) <= size
    /\ Upto(widths, Len(widths)) + Rest(widths, size) = size

\* The appendix of a node whose trigger's parameters are all given.
Resolved(path) ==
    LET name == IF path.name \in DOMAIN Nodes /\ Nodes[path.name].alias # NoNode
                THEN Nodes[path.name].alias ELSE path.name
    IN  IF /\ name \in DOMAIN Nodes
           /\ Nodes[name].trigger # NoNode
           /\ Nodes[name].trigger.needs \subseteq path.params
        THEN Nodes[name].trigger.appendix
        ELSE name

\* A name that no node has (an alias or an appendix may be one).
NoEntity ==
    [proxy |-> FALSE, tarpit |-> NoNode, status |-> 200, size |-> 0,
     varies |-> FALSE, widths |-> <<>>]

Entity(name) == IF name \in DOMAIN Nodes THEN Nodes[name] ELSE NoEntity

NoStatus ==
    [proxy |-> FALSE, tarpit |-> NoNode, size |-> 0, varies |-> FALSE,
     widths |-> <<>>]

StatusConf(code) == IF code \in DOMAIN Statuses THEN Statuses[code] ELSE NoStatus

Conf(j) == IF j.kind = "entity" THEN Entity(j.at) ELSE StatusConf(j.at)

\* Templates are filled in from the databus: the size of a payload varies.
Sizes(conf) == IF conf.varies THEN conf.size..(conf.size + 1) ELSE {conf.size}

----------------------------------------------------------------------------
\* A tarpit is one number or two; config_sanitize_tarpit.
Zero == [low |-> "number", high |-> "number"]

Sanitized(value) ==
    IF value.low # "number" THEN Zero
    ELSE IF value.high = "number" THEN value ELSE [value EXCEPT !.high = "none"]

Delay(j) ==
    IF Conf(j).tarpit # NoNode THEN Sanitized(Conf(j).tarpit)
    ELSE Sanitized(GlobalTarpit)

\* do_tarpit raises when a number cannot be read; the request is lost then.
Tarpit ==
    /\ job # NoNode /\ ~slept /\ response = NoNode
    /\ Delay(job).low = "number" /\ Delay(job).high \in {"number", "none"}
    /\ slept' = TRUE
    /\ UNCHANGED <<disabled, job, response, sent, requests>>

Load(r) == response' = r /\ UNCHANGED <<disabled, job, slept, sent, requests>>

\* What a remote system that fails leads to.  When its answer breaks off in
\* the body, its header fields have replaced ours already, and stay.
LoadStatusCode(code) ==
    /\ \E brokeOff \in BOOLEAN :
         job' = [job EXCEPT !.kind = "status", !.at = code,
                            !.mixed = @ \/ brokeOff]
    /\ slept' = FALSE
    /\ UNCHANGED <<disabled, response, sent, requests>>

Loading == job # NoNode /\ slept /\ response = NoNode

\* From the file system; a file that is not there is empty.
File(code) ==
    /\ ~Conf(job).proxy
    /\ \E size \in Sizes(Conf(job)) : Load(Framed(code, Conf(job).widths, size, job.mixed))

\* The remote system answers: its status and header fields replace ours.
Remote(framing) ==
    /\ Conf(job).proxy
    /\ Load([code |-> 200, widths |-> <<>>, size |-> 1, local |-> FALSE,
             framing |-> framing])

\* load_entity; a remote system that does not answer means 503.
LoadEntity ==
    /\ Loading /\ job.kind = "entity"
    /\ \/ File(Conf(job).status)
       \/ \E framing \in {"length", "chunked"} : Remote(<<framing, 1>>)
       \/ Conf(job).proxy /\ LoadStatusCode(503)

\* Mutant of LoadStatus: the fallback is tried whatever failed.
LoadStatusAgain ==
    /\ Loading /\ job.kind = "status"
    /\ \/ File(job.at)
       \/ \E framing \in {"length", "none"} : Remote(<<framing, 1>>)
       \/ Conf(job).proxy /\ LoadStatusCode(503)

\* load_status takes a chunked header field of the remote system away.  When
\* it was 503 that failed, an empty 503 is the end of it.
LoadStatus ==
    /\ Loading /\ job.kind = "status"
    /\ \/ File(job.at)
       \/ \E framing \in {"length", "none"} : Remote(<<framing, 1>>)
       \/ Conf(job).proxy /\ job.at # 503 /\ LoadStatusCode(503)
       \/ /\ Conf(job).proxy /\ job.at = 503
          /\ \E brokeOff \in BOOLEAN :
               Load(Framed(503, <<>>, 0, job.mixed \/ brokeOff))

----------------------------------------------------------------------------
\* A method begins to load something, or has its response at once.
Begin(method, what, own) ==
    /\ job = NoNode /\ requests < MaxRequests
    /\ requests' = requests + 1
    /\ job' = [kind |-> what.kind, at |-> what.at, method |-> method,
                mixed |-> FALSE]
    /\ response' = own
    /\ slept' = FALSE
    /\ UNCHANGED <<disabled, sent>>

Page(path) ==
    IF path.name \in DOMAIN Nodes
    THEN [kind |-> "entity", at |-> Resolved(path)]
    ELSE [kind |-> "status", at |-> 404]

Unsupported == [kind |-> "status", at |-> 501]

Own == [kind |-> "own", at |-> NoNode]

DoGet(path) == Begin("GET", Page(path), NoNode)

DoPost(path) == Begin("POST", Page(path), NoNode)

DoHead(path) ==
    Begin("HEAD", IF "HEAD" \in disabled THEN Unsupported ELSE Page(path), NoNode)

\* TRACE echoes the header fields of the request, and tells no length.
DoTrace ==
    IF "TRACE" \in disabled THEN Begin("TRACE", Unsupported, NoNode)
    ELSE Begin("TRACE", Own, [code |-> 200, widths |-> <<>>, size |-> 1, local |-> TRUE,
                              framing |-> <<"none", 0>>])

DoOptions ==
    IF "OPTIONS" \in disabled THEN Begin("OPTIONS", Unsupported, NoNode)
    ELSE Begin("OPTIONS", Own, Framed(200, <<>>, 0, FALSE))

\* A method that has no handler.
SendError == Begin("PUT", Unsupported, NoNode)

\* What is written behind the header fields: HEAD and OPTIONS never write,
\* TRACE never writes chunks.
Body(method, r) ==
    IF method \in {"HEAD", "OPTIONS"} THEN <<"none", 0>>
    ELSE IF method = "TRACE" \/ r.widths = <<>> THEN <<"length", r.size>>
    ELSE <<IF ChunksTell(r.widths, r.size) THEN "chunked" ELSE "broken", r.size>>

Respond ==
    /\ response # NoNode
    /\ sent' = [method |-> job.method, code |-> response.code, local |-> response.local,
                framing |-> response.framing, body |-> Body(job.method, response)]
    /\ response' = NoNode /\ job' = NoNode /\ slept' = FALSE
    /\ UNCHANGED <<disabled, requests>>

Serve == Tarpit \/ LoadEntity \/ LoadStatus \/ Respond

Request ==
    \/ \E path \in Paths : DoGet(path) \/ DoPost(path) \/ DoHead(path)
    \/ DoTrace \/ DoOptions \/ SendError

Next == Serve \/ Request

Spec == Init /\ [][Next]_vars

\* The thread waits for a remote system to answer, or for the client to take
\* the response.  HTTPConnection and the socket of the client have no timeout.
Waits == (Loading /\ Conf(job).proxy) \/ response # NoNode

\* A request is worked on by a thread of its own, which goes on where nobody
\* else keeps it waiting.
Fairness == WF_vars(~Waits /\ Serve)

TypeOK ==
    /\ disabled \subseteq {"HEAD", "TRACE", "OPTIONS"} /\ slept \in BOOLEAN
    /\ requests \in 0..MaxRequests
    /\ job # NoNode =>
         job.method \in disabled \cup {"GET", "POST", "HEAD", "TRACE", "OPTIONS", "PUT"}
    /\ response # NoNode => job # NoNode /\ response.size \in Nat

\* The next response is found: a body the server makes itself, by a file, a
\* template, a fallback or as nothing at all, is what its header fields say.
\* TRACE, switched-off OPTIONS, remote systems and what follows an answer of
\* theirs that breaks off do not keep to this.
LocalResponsesAreFramed ==
    sent # NoNode /\ sent.local /\ sent.method \in {"GET", "POST", "PUT", "HEAD"} =>
      IF sent.method = "HEAD" THEN sent.body = <<"none", 0>> ELSE sent.body = sent.framing

\* Where no remote system and no client keeps it waiting for ever, every request
\* is answered, though a failing remote system leads to a 503 that may itself
\* be with a failing remote system, and whatever a tarpit's configuration says.
RequestsAreAnswered == []<>~Waits => ((job # NoNode) ~> (job = NoNode))
=============================================================================
