----------------------------- MODULE ApiClient ------------------------------
(***************************************************************************)
(* The generated client in openapi/: Execute of its two operations, from   *)
(* the choice of a server to the value or error it returns, against the    *)
(* API listener of Routing, which serves browsers and others beside it.  A *)
(* call is numbered as the request it sends.                               *)
(*                                                                         *)
(* Abstracted: the text of URLs and headers, the decoding of values (every *)
(* value is a string, which decode copies), and parts of client.go that no *)
(* operation reaches: forms, files, XML, query parameters, cache headers.  *)
(***************************************************************************)
EXTENDS Routing

CONSTANTS
    Configurations,  \* the configurations an APIClient may be made with
    Calls            \* the calls an application makes

VARIABLES
    cfg,      \* the client's Configuration
    call,     \* the operation of a call, its parameters and its context
    step,     \* where Execute is
    server,   \* the server and variable value chosen, or "none"
    payload,  \* what the body of the request holds
    status,   \* the status of the response the client holds, 0 without one
    body,     \* the body of that response
    err,      \* the error returned, "none" for a value, "pending" before
    model     \* whether the error carries the decoded answer

clientVars == <<cfg, call, step, server, payload, status, body, err, model>>
allVars == <<vars, clientVars>>

\* Kinds of server: "plain" has an absolute URL, "enum" one with a variable of
\* listed values, "relative" the URL "", "broken" one that does not parse.
Servers == {"plain", "enum", "relative", "broken"}

\* NewConfiguration: one server, whose URL is "".
NewConfiguration ==
    [servers |-> <<"relative">>, operations |-> {}, operationServers |-> <<>>,
     host |-> FALSE, scheme |-> FALSE, debug |-> FALSE]

\* A context that sets nothing; without a context the client does the same.
Background ==
    [index |-> "unset", operationIndex |-> "unset",
     variables |-> "unset", operationVariables |-> "unset"]

\* A configuration lists its servers; a call is one of the two operations with its
\* parameters and the values of its context, of the wrong type among them.
ASSUME ConfigurationsAssumption ==
    \A k \in Configurations :
        k.servers \in Seq(Servers) /\ k.operationServers \in Seq(Servers)

ASSUME CallsAssumption ==
    Calls \subseteq
        [op : {"ApiSubmitTxPost", "ApiHastxTxHashGet"},
         hash : {"none", "hex", "text", "empty"},
         contentType : {"none", "unset", "application/cbor", "text/plain"},
         ctx : [index : {"unset", "bad", "first", "second"},
                operationIndex : {"unset", "other", "bad", "first", "second"},
                variables : {"unset", "bad", "listed", "unlisted"},
                operationVariables : {"unset", "other", "bad", "listed", "unlisted"}]]

Errors == {"url", "usage", "request", "scheme", "transport", "dump", "body", "status"}

NoCall == [op |-> "none", hash |-> "none", contentType |-> "none", ctx |-> Background]

ClientTypeOK ==
    /\ TypeOK
    /\ cfg \in Configurations
    /\ call \in [Requests -> Calls \cup {NoCall}]
    /\ step \in [Requests -> {"idle", "url", "usage", "prepare", "call", "sent",
                              "read", "conclude", "returned", "other"}]
    /\ server \in [Requests -> [kind : Servers \cup {"none"},
                                value : {"none", "default", "listed", "unlisted"}]]
    /\ payload \in [Requests -> {"none", "tx"}]
    /\ status \in [Requests -> {0} \cup Statuses]
    /\ body \in [Requests -> {"none", "open", "closed"}]
    /\ err \in [Requests -> Errors \cup {"pending", "none"}]
    /\ model \in [Requests -> BOOLEAN]

ClientInit ==
    /\ Init
    /\ cfg \in Configurations
    /\ call = [c \in Requests |-> NoCall]
    /\ step = [c \in Requests |-> "idle"]
    /\ server = [c \in Requests |-> [kind |-> "none", value |-> "none"]]
    /\ payload = [c \in Requests |-> "none"]
    /\ status = [c \in Requests |-> 0]
    /\ body = [c \in Requests |-> "none"]
    /\ err = [c \in Requests |-> "pending"]
    /\ model = [c \in Requests |-> FALSE]

-----------------------------------------------------------------------------
(* configuration.go                                                        *)

\* Mutants of Setting: a map without the operation is taken for a value; the
\* general setting goes first.
SettingFirstGiven(special, general, default) ==
    IF special # "unset" THEN special
    ELSE IF general # "unset" THEN general ELSE default

SettingGeneralFirst(special, general, default) ==
    IF general # "unset" THEN general
    ELSE IF special \notin {"unset", "other"} THEN special ELSE default

\* A value of the context: the one for the operation, then the one for all
\* operations, then the default.  "other" is a map without this operation, "bad"
\* a value of the wrong type; the general value is not looked at when there is a
\* special one.
Setting(special, general, default) ==
    IF special \notin {"unset", "other"} THEN special
    ELSE IF general # "unset" THEN general ELSE default

IndexOf(c) ==
    Setting(call[c].ctx.operationIndex, call[c].ctx.index, "first")

ValueOf(c) ==
    Setting(call[c].ctx.operationVariables, call[c].ctx.variables, "default")

\* The operation's own servers, even if there are none of them.
ServerList(c) ==
    IF call[c].op \in cfg.operations THEN cfg.operationServers ELSE cfg.servers

Position(index) == IF index = "first" THEN 1 ELSE 2

\* The index is in range and the variable, if the server has one, has a value
\* that it lists.
Resolves(c) ==
    /\ IndexOf(c) # "bad" /\ ValueOf(c) # "bad"
    /\ Position(IndexOf(c)) <= Len(ServerList(c))
    /\ ServerList(c)[Position(IndexOf(c))] = "enum" => ValueOf(c) # "unlisted"

-----------------------------------------------------------------------------
(* Execute.                                                                *)

\* A step of Execute that goes on, and the one that returns.
Goes(c, from, to) == step[c] = from /\ step' = [step EXCEPT ![c] = to]

Return(c, from, e) ==
    /\ Goes(c, from, "returned")
    /\ err' = [err EXCEPT ![c] = e]

Begin(c, k) ==
    /\ Goes(c, "idle", "url")
    /\ call' = [call EXCEPT ![c] = k]
    /\ UNCHANGED <<vars, cfg, server, payload, status, body, err, model>>

ServerURLWithContext(c) ==
    /\ IF Resolves(c)
         THEN /\ Goes(c, "url", "usage")
              /\ server' = [server EXCEPT ![c] =
                              [kind |-> ServerList(c)[Position(IndexOf(c))],
                               value |-> ValueOf(c)]]
              /\ UNCHANGED err
         ELSE Return(c, "url", "url") /\ UNCHANGED server
    /\ UNCHANGED <<vars, cfg, call, payload, status, body, model>>

\* ApiSubmitTxPost requires a content type, after the server was chosen.
CheckUsage(c) ==
    /\ IF call[c].op = "ApiSubmitTxPost" /\ call[c].contentType = "unset"
         THEN Return(c, "usage", "usage")
         ELSE Goes(c, "usage", "prepare") /\ UNCHANGED err
    /\ UNCHANGED <<vars, cfg, call, server, payload, status, body, model>>

\* prepareRequest.  Neither operation has a body to pass on.
PrepareRequest(c) ==
    /\ IF server[c].kind = "broken"
         THEN Return(c, "prepare", "request")
         ELSE Goes(c, "prepare", "call") /\ UNCHANGED err
    /\ payload' = [payload EXCEPT ![c] = "none"]
    /\ UNCHANGED <<vars, cfg, call, server, status, body, model>>

\* The URL after the overrides of host and scheme.
Absolute(c) == server[c].kind # "relative" \/ (cfg.host /\ cfg.scheme)

RequestOf(c) ==
    IF call[c].op = "ApiSubmitTxPost"
      THEN [method |-> "POST", path |-> "/api/submit/tx"]
      ELSE [method |-> "GET",
            path |-> IF call[c].hash = "empty" THEN "/api/hastx/" ELSE "/api/hastx/hash"]

\* callAPI up to the request: it is sent, or an error comes before that.
Send(c) ==
    /\ Goes(c, "call", "sent") /\ Absolute(c)
    /\ Arrive(c, RequestOf(c))
    /\ UNCHANGED <<cfg, call, server, payload, status, body, err, model>>

SendFails(c) ==
    /\ \/ cfg.debug /\ Return(c, "call", "dump")
       \/ ~Absolute(c) /\ Return(c, "call", "scheme")
       \/ Absolute(c) /\ Return(c, "call", "transport")
    /\ UNCHANGED <<vars, cfg, call, server, payload, status, body, model>>

\* The answer does not come: the server may have worked for nothing.
LoseAnswer(c) ==
    /\ Return(c, "sent", "transport")
    /\ UNCHANGED <<vars, cfg, call, server, payload, status, body, model>>

\* Mutant of Receive: a failure of the server is waited out.
ReceiveSuccess(c) ==
    /\ at[c] = "done" /\ wire[c] < 500
    /\ Goes(c, "sent", "read")
    /\ status' = [status EXCEPT ![c] = wire[c]]
    /\ body' = [body EXCEPT ![c] = "open"]
    /\ UNCHANGED <<vars, cfg, call, server, payload, err, model>>

\* With Debug the response is dumped, which may fail with the body still open.
Receive(c) ==
    /\ at[c] = "done"
    /\ \/ Goes(c, "sent", "read") /\ UNCHANGED err
       \/ cfg.debug /\ Return(c, "sent", "dump")
    /\ status' = [status EXCEPT ![c] = wire[c]]
    /\ body' = [body EXCEPT ![c] = "open"]
    /\ UNCHANGED <<vars, cfg, call, server, payload, model>>

\* Mutant of ReadBody: the body is closed only when it was read.
ReadBodyThenClose(c) ==
    /\ \/ /\ Goes(c, "read", "conclude")
          /\ body' = [body EXCEPT ![c] = "closed"]
          /\ UNCHANGED err
       \/ Return(c, "read", "body") /\ UNCHANGED body
    /\ UNCHANGED <<vars, cfg, call, server, payload, status, model>>

\* The body is closed whether or not it could be read.
ReadBody(c) ==
    /\ body' = [body EXCEPT ![c] = "closed"]
    /\ \/ Goes(c, "read", "conclude") /\ UNCHANGED err
       \/ Return(c, "read", "body")
    /\ UNCHANGED <<vars, cfg, call, server, payload, status, model>>

\* The statuses whose answers an operation decodes into the error's model.
Documented(op) ==
    IF op = "ApiSubmitTxPost" THEN {400, 415, 500} ELSE {400, 404, 415, 500}

\* Mutant of Conclude: only failures of the server are errors.
ConcludeServerErrors(c) ==
    /\ model' = [model EXCEPT ![c] = status[c] = 500]
    /\ Return(c, "conclude", IF status[c] >= 500 THEN "status" ELSE "none")
    /\ UNCHANGED <<vars, cfg, call, server, payload, status, body>>

Conclude(c) ==
    /\ model' = [model EXCEPT ![c] =
                   status[c] >= 300 /\ status[c] \in Documented(call[c].op)]
    /\ Return(c, "conclude", IF status[c] >= 300 THEN "status" ELSE "none")
    /\ UNCHANGED <<vars, cfg, call, server, payload, status, body>>

Execute(c) ==
    \/ ServerURLWithContext(c) \/ CheckUsage(c) \/ PrepareRequest(c)
    \/ Send(c) \/ SendFails(c) \/ Receive(c) \/ ReadBody(c) \/ Conclude(c)

-----------------------------------------------------------------------------

\* What the handlers make of the requests this client can send: without a body
\* there is no transaction to submit, and Accept asks for JSON.
AnswersTo(c) ==
    CASE call[c].op = "ApiSubmitTxPost" ->
           IF call[c].contentType = "application/cbor" THEN {400} ELSE {415}
      [] call[c].hash = "hex" -> {200, 404, 500}
      [] call[c].hash = "text" -> {400}
      [] call[c].hash = "empty" -> {404}

ServerStep(c) ==
    /\ Serve(c) \/ Panic(c)
    /\ step[c] # "other" /\ at[c] = "mux" /\ at'[c] = "answered" =>
         wire'[c] \in AnswersTo(c)
    /\ UNCHANGED clientVars

\* A request that is not this client's, of any method and path.
Visit(c, q) ==
    /\ Goes(c, "idle", "other")
    /\ Arrive(c, q)
    /\ UNCHANGED <<cfg, call, server, payload, status, body, err, model>>

\* A browser follows the redirect it got.
Browse(c) == step[c] = "other" /\ Follow(c) /\ UNCHANGED clientVars

AllReturned ==
    /\ \A c \in Requests :
         \/ step[c] = "returned" /\ at[c] \in {"idle", "done"}
         \/ step[c] = "other" /\ at[c] = "done"
    /\ UNCHANGED allVars

ClientNext ==
    \/ \E c \in Requests :
         \/ \E k \in Calls : Begin(c, k)
         \/ \E q \in [method : Methods, path : Paths] : Visit(c, q)
         \/ Execute(c) \/ LoseAnswer(c) \/ ServerStep(c) \/ Browse(c)
    \/ AllReturned

ClientSpec == ClientInit /\ [][ClientNext]_allVars

\* Execute runs in the caller's goroutine; the server's goroutines are scheduled;
\* a browser follows its redirect.
ClientFairSpec ==
    /\ ClientSpec
    /\ \A c \in Requests :
         WF_allVars(Execute(c)) /\ WF_allVars(ServerStep(c)) /\ WF_allVars(Browse(c))

-----------------------------------------------------------------------------

\* What Execute returns agrees with what the server did: a value only for a 2xx,
\* a status only as it was sent, with the decoded answer where the status is
\* documented, which is the handler's own text unless a query panicked behind it;
\* and before a request is sent nothing blames the server.  Any
\* other error leaves open what the server did.  No body stays open, but for one
\* whose dump fails under Debug.
OutcomeTellsTheAnswer ==
    \A c \in Requests : step[c] = "returned" =>
        /\ err[c] = "none" => wire[c] \in 200 .. 299
        /\ err[c] = "status" =>
             /\ status[c] = wire[c] /\ wire[c] >= 300
             /\ model[c] <=> wire[c] \in Documented(call[c].op)
        /\ content[c] = "mixed" => call[c].op = "ApiHastxTxHashGet" /\ panicked[c]
        /\ err[c] \in {"none", "status", "body"} => status[c] # 0
        /\ err[c] \in {"url", "usage", "request", "scheme"} => at[c] = "idle"
        /\ body[c] = "open" => err[c] = "dump" /\ cfg.debug

\* The server chosen is the one the most specific setting names: a setting for
\* the operation is never overruled by a general one, and what is chosen is
\* always a server of the list and a value it allows.
MostSpecificWins ==
    \A c \in Requests : step[c] \notin {"idle", "other", "url"} /\ err[c] # "url" =>
        LET ctx == call[c].ctx
        IN  /\ \E i \in DOMAIN ServerList(c) :
                 /\ server[c].kind = ServerList(c)[i]
                 /\ ctx.operationIndex \in {"first", "second"} =>
                      i = Position(ctx.operationIndex)
            /\ ctx.operationVariables \in {"listed", "unlisted"} =>
                 server[c].value = ctx.operationVariables
            /\ server[c].kind = "enum" => server[c].value # "unlisted"

\* Every request is answered, redirects take a browser to the page, and a call
\* that was begun returns, whatever the server answers.
EverybodyReturns ==
    /\ EveryRequestAnswered
    /\ \A c \in Requests : step[c] = "url" ~> step[c] = "returned"

==============================================================================
